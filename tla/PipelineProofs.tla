--------------------------- MODULE PipelineProofs ---------------------------
(***************************************************************************)
(* The way from the events of the kernel module to the edits of the index: *)
(* what is on it at any time comes from operations that took place.        *)
(***************************************************************************)
EXTENDS Pipeline, SequenceTheorems, FiniteSetTheorems, NaturalsInduction,
        WellFoundedInduction, TLAPS

Device == Dev \cup Dlnfs

FileMsg ==
  [act : {"new", "delete", "rename_from", "rename_to"}, cookie : Nat, dev : Device,
   path : Seq(Name), of : SUBSET Files, twin : Twins]

HandlerState ==
  [runs : BOOLEAN, ignored : BOOLEAN, event_count : Nat, more : BOOLEAN,
   tmpActions : Seq(Edits), last : Edits]

(* The full path that a message means.                                     *)
Place(m) == Home[m.dev] \o m.path

(* An edit on its way: some operation asked for it, and if it is one of    *)
(* two it is not about a record of long names.                             *)
Sound(e, rep) ==
  /\ e \in Edits
  /\ e = NoEdit \/ Plain(e) \in rep
  /\ e.twin # "single" => Second(e) \notin Record

(* A message on its way tells of an operation that took place.             *)
Told(m, rep, c) ==
  /\ m \in FileMsg /\ m.cookie <= c /\ Place(m) \in m.of
  /\ m.act = "rename_to" => \E p \in m.of : p # Place(m)
  /\ m.twin # "single" => Place(m) \notin Record
  /\ m.act = "new" => EditOf("insert", Place(m), <<>>, "single") \in rep
  /\ m.act = "delete" => EditOf("remove", Place(m), <<>>, "single") \in rep

(* The rename of the destination in m and the source src is one that took  *)
(* place.                                                                  *)
OneRename(m, src, rep) ==
  LET p == Home[m.dev] \o src
  IN /\ EditOf("rename", p, Place(m), "single") \in rep
     /\ p # Place(m) /\ m.of = {p, Place(m)}

(* All messages on their way.                                              *)
Sent(o, s) == Range(s) \cup UNION {Range(o[t]) : t \in Thread}

Honest(S, table, rep, c) ==
  /\ \A m \in S : m = MountMsg \/ Told(m, rep, c)
  /\ \A m \in S : m.act = "rename_to" =>
       /\ \A n \in S : n.act = "rename_from" /\ n.cookie = m.cookie =>
            OneRename(m, n.path, rep) /\ n.of = m.of
       /\ m.cookie \in DOMAIN table => OneRename(m, table[m.cookie], rep)
  /\ \A k \in DOMAIN table : k \in Nat /\ k <= c /\ table[k] \in Seq(Name)

(* No two destinations on their way have one cookie.                       *)
ToIn(s, i) == i \in DOMAIN s /\ s[i].act = "rename_to"

FromIn(s, k, c) == \E j \in DOMAIN s : j < k /\ s[j].act = "rename_from" /\ s[j].cookie = c

Apart(o, s) ==
  /\ \A i, j \in DOMAIN s : ToIn(s, i) /\ ToIn(s, j) /\ s[i].cookie = s[j].cookie => i = j
  /\ \A t \in Thread : \A i \in DOMAIN o[t], j \in DOMAIN s :
       ToIn(o[t], i) /\ ToIn(s, j) => o[t][i].cookie # s[j].cookie
  /\ \A t, u \in Thread : \A i \in DOMAIN o[t], j \in DOMAIN o[u] :
       ToIn(o[t], i) /\ ToIn(o[u], j) /\ o[t][i].cookie = o[u][j].cookie => t = u /\ i = j

(* The source of every destination on its way comes before it, unless it   *)
(* was lost and the paths are in E.                                        *)
Preceded(o, s, table, E) ==
  /\ \A i \in DOMAIN s : ToIn(s, i) =>
       \/ s[i].of \subseteq E
       \/ s[i].cookie \in DOMAIN table
       \/ FromIn(s, i, s[i].cookie)
  /\ \A t \in Thread : \A i \in DOMAIN o[t] : ToIn(o[t], i) =>
       \/ o[t][i].of \subseteq E
       \/ o[t][i].cookie \in DOMAIN table
       \/ FromIn(s, Len(s) + 1, o[t][i].cookie)
       \/ FromIn(o[t], i, o[t][i].cookie)

(* An operation keeps its paths locked until all its messages are sent.    *)
Locked(o, h) ==
  /\ \A t \in Thread : \A i \in DOMAIN o[t] : o[t][i].of = h[t]
  /\ \A t \in Thread : o[t] = <<>> => h[t] = {}
  /\ \A t, u \in Thread : t # u => h[t] \cap h[u] = {}

Types ==
  /\ files \subseteq Files /\ index \subseteq Files /\ mounted \subseteq Device
  /\ unnamed \subseteq Dlnfs /\ cacher \subseteq Dlnfs
  /\ outbox \in [Thread -> Seq(FileMsg)] /\ socket \in Seq(FileMsg \cup {MountMsg})
  /\ work \in Nat /\ cookie \in Nat
  /\ DOMAIN partitions \subseteq Device /\ \A d \in DOMAIN partitions : partitions[d] = Home[d]
  /\ {overrun, new_msg, alive, recache, stale} \subseteq BOOLEAN
  /\ queue \in Seq(Edits) /\ handler \in HandlerState
  /\ reported \subseteq AnyEdit

(* What onHandleEvent has in hand.                                         *)
Handling ==
  /\ handler.more => handler.event_count <= Cap
  /\ handler.event_count <= Cap + 1 /\ Len(handler.tmpActions) <= handler.event_count
  /\ ~handler.runs => handler = Resting
  /\ handler.last.twin = "first" /\ ~handler.ignored => handler.last \in Range(handler.tmpActions)

IInv ==
  /\ Types /\ Handling
  /\ Honest(Sent(outbox, socket), rename_from, reported, cookie)
  /\ Sound(Pushed(saved), reported)
  /\ \A e \in Range(queue) \cup Range(handler.tmpActions) : Sound(e, reported)
  /\ Apart(outbox, socket)
  /\ held \in [Thread -> SUBSET Files] /\ Locked(outbox, held)
  /\ Preceded(outbox, socket, rename_from, excused)

-----------------------------------------------------------------------------
(* Paths                                                                   *)

LEMMA PrefixAndRest ==
  ASSUME NEW h \in Seq(Name), NEW p \in Seq(Name), IsPrefix(h, p)
  PROVE  /\ h \o SubSeq(p, Len(h) + 1, Len(p)) = p
         /\ SubSeq(p, Len(h) + 1, Len(p)) \in Seq(Name)
<1>1. Len(h) \in Nat /\ Len(p) \in Nat /\ Len(h) <= Len(p)
  BY LenProperties DEF IsPrefix
<1>2. SubSeq(h, 1, Len(h)) = h
  BY SubSeqFull
<1>3. h = SubSeq(p, 1, Len(h))
  BY <1>2 DEF IsPrefix
<1>4. SubSeq(p, 1, Len(h)) \o SubSeq(p, Len(h) + 1, Len(p)) = SubSeq(p, 1, Len(p))
  <2>1. 1 \in 1 .. Len(p) + 1 /\ Len(h) \in 1 - 1 .. Len(p) /\ Len(p) \in Len(h) .. Len(p)
    BY <1>1
  <2> QED BY <2>1, ConcatAdjacentSubSeq
<1>5. SubSeq(p, 1, Len(p)) = p
  BY SubSeqFull
<1>6. SubSeq(p, Len(h) + 1, Len(p)) \in Seq(Name)
  <2>1. \A i \in Len(h) + 1 .. Len(p) : p[i] \in Name
    BY <1>1, ElementOfSeq
  <2>2. Len(h) + 1 \in Int /\ Len(p) \in Int
    BY <1>1
  <2> QED BY <2>1, <2>2, SubSeqProperties
<1> QED BY <1>3, <1>4, <1>5, <1>6

LEMMA HomeOf == \A d \in Device : Home[d] \in Seq(Name)
BY PipelineAssumptions DEF Device

LEMMA FullPath ==
  ASSUME NEW d \in Device, NEW p \in Files, Below(d, p)
  PROVE  Home[d] \o Relative(d, p) = p /\ Relative(d, p) \in Seq(Name)
<1>1. Home[d] \in Seq(Name) /\ p \in Seq(Name)
  BY HomeOf, PipelineAssumptions
<1> QED BY <1>1, PrefixAndRest DEF Relative, Below

LEMMA SmallestNumber ==
  ASSUME NEW T, T \subseteq Nat, T # {}
  PROVE  \E n \in T : \A m \in T : n <= m
<1>1. PICK n \in T : \A m \in T : ~ (<<m, n>> \in OpToRel(<, Nat))
  <2> DEFINE R == OpToRel(<, Nat)
  <2>1. IsWellFoundedOn(R, Nat)
    BY NatLessThanWellFounded
  <2> HIDE DEF R
  <2>2. \E x \in T : \A y \in T : ~ (<<y, x>> \in R)
    BY <2>1, WFMin
  <2> QED BY <2>2 DEF R
<1>2. \A m \in T : ~(m < n)
  BY <1>1 DEF OpToRel
<1> QED BY <1>2

(* Every file is stored on a device.                                       *)
LEMMA OwnerIsAbove ==
  ASSUME NEW p \in Files
  PROVE  Owner(p) \in Dev /\ Below(Owner(p), p)
<1> DEFINE above == {d \in Dev : Below(d, p)}
           room == {n \in Nat : \E d \in above : n = Len(p) - Len(Home[d])}
<1>1. p \in Seq(Name) /\ p # <<>> /\ Len(p) \in Nat
  BY PipelineAssumptions, LenProperties
<1>2. \A d \in Dev : Home[d] \in Seq(Name) /\ Len(Home[d]) \in Nat
  BY HomeOf, LenProperties DEF Device
<1>3. PICK root \in Dev : Home[root] = <<>>
  BY PipelineAssumptions
<1>4. root \in above
  <2>1. SubSeq(<<>>, 1, 0) = <<>> /\ SubSeq(p, 1, 0) = <<>>
    BY SubSeqEmpty
  <2>2. Len(<<>>) = 0 /\ 0 <= Len(p)
    BY <1>1
  <2> QED BY <1>1, <1>3, <2>1, <2>2 DEF Below, IsPrefix
<1>5. \A d \in above : Len(Home[d]) <= Len(p)
  BY DEF Below, IsPrefix
<1>6. \A d \in above : Len(p) - Len(Home[d]) \in room
  BY <1>1, <1>2, <1>5
<1>7. PICK n \in room : \A k \in room : n <= k
  <2>1. room \subseteq Nat /\ room # {}
    BY <1>4, <1>6
  <2> HIDE DEF room
  <2> QED BY <2>1, SmallestNumber
<1>8. PICK d \in above : n = Len(p) - Len(Home[d])
  BY <1>7
<1>9. ASSUME NEW c \in above PROVE Len(Home[c]) <= Len(Home[d])
  <2>1. n <= Len(p) - Len(Home[c])
    BY <1>6, <1>7
  <2>2. Len(Home[c]) \in Nat /\ Len(Home[d]) \in Nat
    BY <1>2
  <2> QED BY <2>1, <2>2, <1>1, <1>8
<1> QED BY <1>8, <1>9 DEF Owner

-----------------------------------------------------------------------------
(* The messages of an operation: for the device of the file and, if it is  *)
(* seen through a dlnfs, once more for that.                               *)

LEMMA MessagesOfOne ==
  ASSUME NEW a, NEW p \in Files
  PROVE  \/ Messages(<< <<a, p>> >>, 0) = << Msg(a, 0, Owner(p), p, {p}, "single") >>
         \/ \E d \in Shown(p) : Messages(<< <<a, p>> >>, 0) =
              << Msg(a, 0, Owner(p), p, {p}, "first"), Msg(a, 0, d, p, {p}, "second") >>
<1> DEFINE evs == << <<a, p>> >>
           of == {evs[i][2] : i \in DOMAIN evs}
           On(d, n, twin) == [i \in DOMAIN evs |-> Msg(evs[i][1], n, d, evs[i][2], of, twin)]
<1>1. DOMAIN evs = {1} /\ evs[1] = <<a, p>> /\ evs[1][1] = a /\ evs[1][2] = p
  OBVIOUS
<1>2. of = {p}
  BY <1>1
<1>3. \A d, n, twin : On(d, n, twin) = << Msg(a, n, d, p, {p}, twin) >>
  <2> TAKE d, n, twin
  <2> DEFINE m == Msg(a, n, d, p, {p}, twin)
  <2>1. On(d, n, twin) = [i \in {1} |-> m]
    BY <1>1, <1>2
  <2> HIDE DEF m
  <2>2. [i \in {1} |-> m] = <<m>>
    OBVIOUS
  <2> QED BY <2>1, <2>2 DEF m
<1>4. Messages(evs, 0) =
        IF Shown(p) = {} THEN On(Owner(p), 0, "single")
        ELSE On(Owner(p), 0, "first") \o On(CHOOSE x \in Shown(p) : TRUE, 0, "second")
  BY <1>1 DEF Messages
<1> HIDE DEF On
<1>5. CASE Shown(p) = {}
  BY <1>3, <1>4, <1>5
<1>6. CASE Shown(p) # {}
  <2> DEFINE d == CHOOSE x \in Shown(p) : TRUE
             m1 == Msg(a, 0, Owner(p), p, {p}, "first")
             m2 == Msg(a, 0, d, p, {p}, "second")
  <2>1. d \in Shown(p)
    BY <1>6
  <2>2. Messages(evs, 0) = <<m1>> \o <<m2>>
    BY <1>3, <1>4, <1>6
  <2>3. <<m1>> \o <<m2>> = <<m1, m2>>
    <3> HIDE DEF m1, m2
    <3> DEFINE S == {m1, m2}
    <3>1. <<m1>> \in Seq(S) /\ <<m2>> \in Seq(S) /\ <<m1, m2>> \in Seq(S)
      OBVIOUS
    <3>2. Len(<<m1>>) = 1 /\ Len(<<m2>>) = 1 /\ Len(<<m1, m2>>) = 2
      OBVIOUS
    <3> HIDE DEF S
    <3>3. \A i \in 1 .. 2 : (<<m1>> \o <<m2>>)[i] = <<m1, m2>>[i]
      BY <3>1, <3>2, ConcatProperties
    <3>4. <<m1>> \o <<m2>> \in Seq(S) /\ Len(<<m1>> \o <<m2>>) = 2
      BY <3>1, <3>2, ConcatProperties
    <3> QED BY <3>1, <3>2, <3>3, <3>4, SeqEqual
  <2> QED BY <2>1, <2>2, <2>3
<1> QED BY <1>5, <1>6

LEMMA MessagesOfRename ==
  ASSUME NEW p \in Files, NEW q \in Files, NEW c \in Nat, c # 0
  PROVE  LET from(n, d, w) == Msg("rename_from", n, d, p, {p, q}, w)
             to(n, d, w) == Msg("rename_to", n, d, q, {p, q}, w)
             all == Messages(<< <<"rename_from", p>>, <<"rename_to", q>> >>, c)
         IN \/ Shown(p) = {} /\ all = << from(c, Owner(p), "single"), to(c, Owner(p), "single") >>
            \/ \E d \in Shown(p) : all =
                 << from(c, Owner(p), "first"), to(c, Owner(p), "first"),
                    from(c + 1, d, "second"), to(c + 1, d, "second") >>
<1> DEFINE evs == << <<"rename_from", p>>, <<"rename_to", q>> >>
           of == {evs[i][2] : i \in DOMAIN evs}
           On(d, n, twin) == [i \in DOMAIN evs |-> Msg(evs[i][1], n, d, evs[i][2], of, twin)]
           from(n, d, w) == Msg("rename_from", n, d, p, {p, q}, w)
           to(n, d, w) == Msg("rename_to", n, d, q, {p, q}, w)
<1>1. /\ DOMAIN evs = {1, 2} /\ evs[1][2] = p /\ evs[2][2] = q
      /\ evs[1][1] = "rename_from" /\ evs[2][1] = "rename_to"
  OBVIOUS
<1>2. of = {p, q}
  BY <1>1
<1>3. \A d, n, w : On(d, n, w) = << from(n, d, w), to(n, d, w) >>
  <2> TAKE d, n, w
  <2> DEFINE m1 == from(n, d, w)
             m2 == to(n, d, w)
  <2>1. On(d, n, w) = [i \in {1, 2} |-> IF i = 1 THEN m1 ELSE m2]
    <3>1. \A i \in DOMAIN evs : Msg(evs[i][1], n, d, evs[i][2], of, w) = IF i = 1 THEN m1 ELSE m2
      BY <1>1, <1>2
    <3> QED BY <1>1, <3>1
  <2> HIDE DEF m1, m2
  <2>2. [i \in {1, 2} |-> IF i = 1 THEN m1 ELSE m2] = <<m1, m2>>
    OBVIOUS
  <2> QED BY <2>1, <2>2 DEF m1, m2
<1>4. Messages(evs, c) =
        IF Shown(p) = {} THEN On(Owner(p), c, "single")
        ELSE On(Owner(p), c, "first") \o On(CHOOSE x \in Shown(p) : TRUE, c + 1, "second")
  BY <1>1 DEF Messages
<1> HIDE DEF On, from, to
<1>5. CASE Shown(p) = {}
  BY <1>3, <1>4, <1>5 DEF from, to
<1>6. CASE Shown(p) # {}
  <2> DEFINE d == CHOOSE x \in Shown(p) : TRUE
             m1 == from(c, Owner(p), "first")
             m2 == to(c, Owner(p), "first")
             m3 == from(c + 1, d, "second")
             m4 == to(c + 1, d, "second")
  <2>1. d \in Shown(p)
    BY <1>6
  <2>2. Messages(evs, c) = <<m1, m2>> \o <<m3, m4>>
    BY <1>3, <1>4, <1>6
  <2>3. <<m1, m2>> \o <<m3, m4>> = <<m1, m2, m3, m4>>
    <3> HIDE DEF m1, m2, m3, m4
    <3> DEFINE S == {m1, m2, m3, m4}
    <3>1. <<m1, m2>> \in Seq(S) /\ <<m3, m4>> \in Seq(S) /\ <<m1, m2, m3, m4>> \in Seq(S)
      OBVIOUS
    <3>2. Len(<<m1, m2>>) = 2 /\ Len(<<m3, m4>>) = 2 /\ Len(<<m1, m2, m3, m4>>) = 4
      OBVIOUS
    <3> HIDE DEF S
    <3>3. \A i \in 1 .. 4 : (<<m1, m2>> \o <<m3, m4>>)[i] = <<m1, m2, m3, m4>>[i]
      BY <3>1, <3>2, ConcatProperties
    <3>4. <<m1, m2>> \o <<m3, m4>> \in Seq(S) /\ Len(<<m1, m2>> \o <<m3, m4>>) = 4
      BY <3>1, <3>2, ConcatProperties
    <3> QED BY <3>1, <3>2, <3>3, <3>4, SeqEqual
  <2> QED BY <2>1, <2>2, <2>3 DEF from, to
<1> QED BY <1>5, <1>6

(* What the new messages of a thread are like, if the cookies up to c were *)
(* in use before, and those up to k are after.                             *)
Fresh(n, rep, c, k, of) ==
  /\ n \in Seq(FileMsg) /\ n # <<>>
  /\ \A i \in DOMAIN n : n[i].of = of
  /\ \A i \in DOMAIN n : Told(n[i], rep, k)
  /\ \A i \in DOMAIN n : n[i].act \in {"rename_from", "rename_to"} => c < n[i].cookie
  /\ \A i, j \in DOMAIN n : ToIn(n, i) /\ n[j].act = "rename_from" /\ n[j].cookie = n[i].cookie
       => OneRename(n[i], n[j].path, rep)
  /\ \A i, j \in DOMAIN n : ToIn(n, i) /\ ToIn(n, j) /\ n[i].cookie = n[j].cookie => i = j
  /\ \A i \in DOMAIN n : ToIn(n, i) => FromIn(n, i, n[i].cookie)

LEMMA MsgFields ==
  ASSUME NEW a \in {"new", "delete", "rename_from", "rename_to"}, NEW c \in Nat, NEW d \in Device,
         NEW p \in Files, Below(d, p), NEW of \in SUBSET Files, NEW w \in Twins
  PROVE  LET m == Msg(a, c, d, p, of, w)
         IN /\ m \in FileMsg /\ m.act = a /\ m.cookie = c /\ m.dev = d /\ m.of = of /\ m.twin = w
            /\ m.path = Relative(d, p) /\ Place(m) = p
BY FullPath DEF Msg, FileMsg, Place

LEMMA FreshOne ==
  ASSUME NEW a \in {"new", "delete"}, NEW p \in Files, NEW rep, NEW c \in Nat,
         a = "new" => EditOf("insert", p, <<>>, "single") \in rep,
         a = "delete" => EditOf("remove", p, <<>>, "single") \in rep
  PROVE  Fresh(Messages(<< <<a, p>> >>, 0), rep, c, c, {p})
<1> DEFINE Good(m) == m \in FileMsg /\ Told(m, rep, c) /\ m.act = a /\ m.of = {p}
<1>1. ASSUME NEW d \in Device, Below(d, p), NEW w \in Twins, w # "single" => p \notin Record
      PROVE  Good(Msg(a, 0, d, p, {p}, w))
  <2> DEFINE m == Msg(a, 0, d, p, {p}, w)
  <2>1. /\ m \in FileMsg /\ m.act = a /\ m.cookie = 0 /\ m.of = {p} /\ m.twin = w /\ Place(m) = p
    <3>1. {p} \in SUBSET Files /\ 0 \in Nat
      OBVIOUS
    <3> QED BY <1>1, <3>1, MsgFields
  <2> HIDE DEF m
  <2>2. 0 <= c /\ p \in {p}
    OBVIOUS
  <2>3. Told(m, rep, c)
    BY <1>1, <2>1, <2>2 DEF Told
  <2> QED BY <2>1, <2>3 DEF m
<1>2. ASSUME NEW m, Good(m) PROVE Fresh(<<m>>, rep, c, c, {p})
  <2>1. <<m>> \in Seq(FileMsg) /\ <<m>> # <<>> /\ DOMAIN <<m>> = {1} /\ <<m>>[1] = m
    BY <1>2
  <2>2. m.act \notin {"rename_from", "rename_to"}
    BY <1>2
  <2> QED BY <1>2, <2>1, <2>2 DEF Fresh, ToIn
<1>3. ASSUME NEW m, NEW n, Good(m), Good(n) PROVE Fresh(<<m, n>>, rep, c, c, {p})
  <2>1. <<m, n>> \in Seq(FileMsg) /\ <<m, n>> # <<>> /\ DOMAIN <<m, n>> = {1, 2} /\ <<m, n>>[1] = m /\ <<m, n>>[2] = n
    BY <1>3
  <2>2. \A i \in {1, 2} : Good(<<m, n>>[i])
    BY <1>3, <2>1
  <2>3. \A i \in {1, 2} : <<m, n>>[i].act \notin {"rename_from", "rename_to"}
    BY <2>2
  <2> QED BY <2>1, <2>2, <2>3 DEF Fresh, ToIn
<1> HIDE DEF Good
<1>4. Owner(p) \in Device /\ Below(Owner(p), p)
  BY OwnerIsAbove DEF Device
<1>5. \A d \in Shown(p) : d \in Device /\ Below(d, p) /\ p \notin Record
  BY DEF Shown, Cover, Device
<1>6. "single" \in Twins /\ "first" \in Twins /\ "second" \in Twins
  BY DEF Twins
<1>7. CASE Messages(<< <<a, p>> >>, 0) = << Msg(a, 0, Owner(p), p, {p}, "single") >>
  <2>1. Good(Msg(a, 0, Owner(p), p, {p}, "single"))
    BY <1>1, <1>4, <1>6
  <2> QED BY <1>2, <1>7, <2>1
<1>8. ASSUME NEW d \in Shown(p), Messages(<< <<a, p>> >>, 0) =
              << Msg(a, 0, Owner(p), p, {p}, "first"), Msg(a, 0, d, p, {p}, "second") >>
      PROVE  Fresh(Messages(<< <<a, p>> >>, 0), rep, c, c, {p})
  <2>1. Good(Msg(a, 0, Owner(p), p, {p}, "first"))
    BY <1>1, <1>4, <1>5, <1>6
  <2>2. Good(Msg(a, 0, d, p, {p}, "second"))
    BY <1>1, <1>5, <1>6
  <2> QED BY <1>3, <1>8, <2>1, <2>2
<1> QED BY <1>7, <1>8, MessagesOfOne

LEMMA FreshRename ==
  ASSUME NEW p \in Files, NEW q \in Files, NEW rep, NEW c \in Nat, NEW k \in Nat,
         EditOf("rename", p, q, "single") \in rep, p # q,
         p \notin Record, q \notin Record, Owner(p) = Owner(q), Cover(p) = Cover(q),
         k = c + 1 + Cardinality(Shown(p))
  PROVE  Fresh(Messages(<< <<"rename_from", p>>, <<"rename_to", q>> >>, c + 1), rep, c, k, {p, q})
<1> DEFINE from(n, d, w) == Msg("rename_from", n, d, p, {p, q}, w)
           to(n, d, w) == Msg("rename_to", n, d, q, {p, q}, w)
           all == Messages(<< <<"rename_from", p>>, <<"rename_to", q>> >>, c + 1)
           Pair(f, t, n) == /\ f \in FileMsg /\ f.act = "rename_from" /\ f.cookie = n /\ Told(f, rep, k)
                            /\ t \in FileMsg /\ t.act = "rename_to" /\ t.cookie = n /\ Told(t, rep, k)
                            /\ OneRename(t, f.path, rep) /\ f.of = {p, q} /\ t.of = {p, q}
<1>1. ASSUME NEW n \in Nat, n <= k, NEW d \in Device, Below(d, p), Below(d, q), NEW w \in Twins
      PROVE  Pair(from(n, d, w), to(n, d, w), n)
  <2> DEFINE f == from(n, d, w)
             t == to(n, d, w)
  <2>0. {p, q} \in SUBSET Files /\ p \in {p, q} /\ q \in {p, q} /\ p # q
    OBVIOUS
  <2>1. /\ f \in FileMsg /\ f.act = "rename_from" /\ f.cookie = n /\ f.of = {p, q} /\ f.twin = w
        /\ Place(f) = p /\ f.path = Relative(d, p)
    BY <1>1, <2>0, MsgFields
  <2>2. /\ t \in FileMsg /\ t.act = "rename_to" /\ t.cookie = n /\ t.of = {p, q} /\ t.twin = w
        /\ Place(t) = q /\ t.dev = d /\ t.of = {p, q}
    BY <1>1, <2>0, MsgFields
  <2>3. Home[d] \o Relative(d, p) = p
    BY <1>1, FullPath
  <2> HIDE DEF f, t
  <2>4. Told(f, rep, k) /\ Told(t, rep, k)
    BY <1>1, <2>0, <2>1, <2>2 DEF Told
  <2>5. OneRename(t, f.path, rep)
    BY <2>0, <2>1, <2>2, <2>3 DEF OneRename
  <2> QED BY <2>1, <2>2, <2>4, <2>5 DEF f, t
<1>2. ASSUME NEW f, NEW t, Pair(f, t, c + 1) PROVE Fresh(<<f, t>>, rep, c, k, {p, q})
  <2> DEFINE n == <<f, t>>
  <2>1. n \in Seq(FileMsg) /\ n # <<>> /\ DOMAIN n = {1, 2} /\ n[1] = f /\ n[2] = t
    BY <1>2
  <2>2. \A i \in DOMAIN n : (ToIn(n, i) <=> i = 2) /\ (n[i].act = "rename_from" <=> i = 1)
    BY <1>2, <2>1 DEF ToIn
  <2> HIDE DEF n
  <2>3. \A i \in DOMAIN n : Told(n[i], rep, k) /\ n[i].cookie = c + 1 /\ n[i].of = {p, q}
    BY <1>2, <2>1
  <2>4. \A i, j \in DOMAIN n : ToIn(n, i) /\ n[j].act = "rename_from" => OneRename(n[i], n[j].path, rep)
    BY <1>2, <2>1, <2>2
  <2>5. \A i \in DOMAIN n : ToIn(n, i) => FromIn(n, i, n[i].cookie)
    BY <1>2, <2>1, <2>2, <2>3 DEF FromIn
  <2>6. c < c + 1
    OBVIOUS
  <2> QED BY <2>1, <2>2, <2>3, <2>4, <2>5, <2>6 DEF Fresh, n
<1>3. ASSUME NEW f, NEW t, NEW g, NEW u, Pair(f, t, c + 1), Pair(g, u, c + 2)
      PROVE  Fresh(<<f, t, g, u>>, rep, c, k, {p, q})
  <2> DEFINE n == <<f, t, g, u>>
  <2>1. n \in Seq(FileMsg) /\ n # <<>> /\ DOMAIN n = {1, 2, 3, 4} /\ n[1] = f /\ n[2] = t /\ n[3] = g /\ n[4] = u
    BY <1>3
  <2>2. \A i \in DOMAIN n : (ToIn(n, i) <=> i \in {2, 4}) /\ (n[i].act = "rename_from" <=> i \in {1, 3})
    BY <1>3, <2>1 DEF ToIn
  <2> HIDE DEF n
  <2>3. \A i \in DOMAIN n : Told(n[i], rep, k) /\ n[i].of = {p, q} /\ n[i].cookie = IF i \in {1, 2} THEN c + 1 ELSE c + 2
    BY <1>3, <2>1
  <2>4. c < c + 1 /\ c < c + 2 /\ c + 1 # c + 2
    OBVIOUS
  <2>5. \A i, j \in DOMAIN n : ToIn(n, i) /\ n[j].act = "rename_from" /\ n[j].cookie = n[i].cookie
          => OneRename(n[i], n[j].path, rep)
    BY <1>3, <2>1, <2>2, <2>3, <2>4
  <2>6. \A i \in DOMAIN n : ToIn(n, i) => FromIn(n, i, n[i].cookie)
    <3>1. ToIn(n, 2) => FromIn(n, 2, n[2].cookie)
      BY <1>3, <2>1 DEF FromIn
    <3>2. ToIn(n, 4) => FromIn(n, 4, n[4].cookie)
      BY <1>3, <2>1 DEF FromIn
    <3> QED BY <2>1, <2>2, <3>1, <3>2
  <2>7. \A i, j \in DOMAIN n : ToIn(n, i) /\ ToIn(n, j) /\ n[i].cookie = n[j].cookie => i = j
    BY <2>1, <2>2, <2>3, <2>4
  <2> QED BY <2>1, <2>3, <2>4, <2>5, <2>6, <2>7 DEF Fresh, n
<1> HIDE DEF Pair, from, to
<1>4. Owner(p) \in Device /\ Below(Owner(p), p) /\ Below(Owner(p), q)
  BY OwnerIsAbove DEF Device
<1>5. \A d \in Shown(p) : d \in Device /\ Below(d, p) /\ Below(d, q)
  BY DEF Shown, Cover, Device
<1>6. "single" \in Twins /\ "first" \in Twins /\ "second" \in Twins
  BY DEF Twins
<1>7. IsFiniteSet(Shown(p)) /\ Cardinality(Shown(p)) \in Nat /\ (Shown(p) # {} => Cardinality(Shown(p)) # 0)
  <2>1. Shown(p) \subseteq Dlnfs
    BY DEF Shown, Cover
  <2>2. IsFiniteSet(Shown(p))
    BY <2>1, PipelineAssumptions, FS_Subset
  <2> QED BY <2>2, FS_CardinalityType, FS_EmptySet
<1>8. c + 1 \in Nat /\ c + 1 # 0 /\ c + 1 <= k /\ c + 2 \in Nat /\ (Shown(p) # {} => c + 2 <= k)
  BY <1>7
<1>9. CASE Shown(p) = {} /\ all = << from(c + 1, Owner(p), "single"), to(c + 1, Owner(p), "single") >>
  <2>1. Pair(from(c + 1, Owner(p), "single"), to(c + 1, Owner(p), "single"), c + 1)
    BY <1>1, <1>4, <1>6, <1>8
  <2> QED BY <1>2, <1>9, <2>1
<1>10. ASSUME NEW d \in Shown(p), all =
                << from(c + 1, Owner(p), "first"), to(c + 1, Owner(p), "first"),
                   from(c + 2, d, "second"), to(c + 2, d, "second") >>
       PROVE  Fresh(all, rep, c, k, {p, q})
  <2>1. Pair(from(c + 1, Owner(p), "first"), to(c + 1, Owner(p), "first"), c + 1)
    BY <1>1, <1>4, <1>6, <1>8
  <2>2. Pair(from(c + 2, d, "second"), to(c + 2, d, "second"), c + 2)
    BY <1>1, <1>5, <1>6, <1>8
  <2> QED BY <1>3, <1>10, <2>1, <2>2
<1>11. c + 1 + 1 = c + 2
  OBVIOUS
<1> QED BY <1>8, <1>9, <1>10, <1>11, MessagesOfRename DEF from, to

-----------------------------------------------------------------------------
(* What becomes of the messages on their way.                              *)

LEMMA HonestCookies ==
  ASSUME NEW S, NEW table, NEW rep, NEW c, Honest(S, table, rep, c),
         NEW m \in S, m.act # "mount"
  PROVE  Told(m, rep, c) /\ m \in FileMsg /\ m.cookie \in Nat /\ m.cookie <= c
<1>1. m # MountMsg
  BY DEF MountMsg
<1>2. Told(m, rep, c)
  BY <1>1 DEF Honest
<1> QED BY <1>2 DEF Told, FileMsg

LEMMA HonestFewer ==
  ASSUME NEW S, NEW R, R \subseteq S, NEW table, NEW rep, NEW c, Honest(S, table, rep, c)
  PROVE  Honest(R, table, rep, c)
BY DEF Honest

LEMMA HonestMore ==
  ASSUME NEW S, NEW table, NEW rep, NEW rep2, rep \subseteq rep2, NEW c \in Nat, NEW k \in Nat, c <= k,
         Honest(S, table, rep, c), NEW n, NEW of, Fresh(n, rep2, c, k, of), NEW R, R \subseteq S \cup Range(n)
  PROVE  Honest(R, table, rep2, k)
<1>1. ASSUME NEW m \in S PROVE m = MountMsg \/ Told(m, rep2, k)
  <2> SUFFICES ASSUME m # MountMsg PROVE Told(m, rep2, k)
    OBVIOUS
  <2>1. Told(m, rep, c)
    BY DEF Honest
  <2>2. m.cookie \in Nat
    BY <2>1 DEF Told, FileMsg
  <2>3. m.cookie <= k
    BY <2>1, <2>2 DEF Told
  <2> QED BY <2>1, <2>3 DEF Told
<1>2. \A i \in DOMAIN n : Told(n[i], rep2, k) /\ n[i] \in FileMsg
  BY DEF Fresh, Told
<1>3. \A m \in R : m \in S \/ \E i \in DOMAIN n : m = n[i]
  BY DEF Range
<1>4. \A m \in S : m.act \in {"rename_from", "rename_to"} => m.cookie \in Nat /\ m.cookie <= c
  BY HonestCookies
<1>5. \A i \in DOMAIN n : n[i].act \in {"rename_from", "rename_to"} => n[i].cookie \in Nat /\ c < n[i].cookie
  BY <1>2 DEF Fresh, FileMsg
<1>6. ASSUME NEW m \in R, m.act = "rename_to", NEW x \in R, x.act = "rename_from", x.cookie = m.cookie
      PROVE  OneRename(m, x.path, rep2) /\ x.of = m.of
  <2>1. CASE m \in S /\ x \in S
    BY <1>6, <2>1 DEF Honest, OneRename
  <2>2. ASSUME NEW i \in DOMAIN n, NEW j \in DOMAIN n, m = n[i], x = n[j]
        PROVE  OneRename(m, x.path, rep2) /\ x.of = m.of
    BY <1>6, <2>2 DEF Fresh, ToIn
  <2>3. \A i \in DOMAIN n : ~(m \in S /\ x = n[i]) /\ ~(x \in S /\ m = n[i])
    <3>1. \A y, z \in Nat : y <= c /\ c < z => y # z
      OBVIOUS
    <3> QED BY <1>4, <1>5, <1>6, <3>1
  <2> QED BY <1>3, <2>1, <2>2, <2>3
<1>7. ASSUME NEW m \in R, m.act = "rename_to", m.cookie \in DOMAIN table
      PROVE  OneRename(m, table[m.cookie], rep2)
  <2>1. m.cookie \in Nat /\ m.cookie <= c
    BY <1>7 DEF Honest
  <2>2. \A i \in DOMAIN n : m # n[i]
    BY <1>5, <1>7, <2>1
  <2> QED BY <1>3, <1>7, <2>2 DEF Honest, OneRename
<1>8. \A x \in DOMAIN table : x \in Nat /\ x <= k /\ table[x] \in Seq(Name)
  BY DEF Honest
<1> QED BY <1>1, <1>2, <1>3, <1>6, <1>7, <1>8 DEF Honest

LEMMA Operated ==
  ASSUME NEW o \in [Thread -> Seq(FileMsg)], NEW s \in Seq(FileMsg \cup {MountMsg}),
         NEW table, NEW rep, NEW rep2, rep \subseteq rep2, NEW c \in Nat, NEW k \in Nat, c <= k,
         NEW t \in Thread, o[t] = <<>>, NEW n, NEW of, Fresh(n, rep2, c, k, of), NEW E,
         Honest(Sent(o, s), table, rep, c), Apart(o, s)
  PROVE  /\ [o EXCEPT ![t] = n] \in [Thread -> Seq(FileMsg)]
         /\ Honest(Sent([o EXCEPT ![t] = n], s), table, rep2, k)
         /\ Apart([o EXCEPT ![t] = n], s)
         /\ Preceded(o, s, table, E) => Preceded([o EXCEPT ![t] = n], s, table, E)
<1> DEFINE o2 == [o EXCEPT ![t] = n]
<1>1. n \in Seq(FileMsg)
  BY DEF Fresh
<1>2. o2 \in [Thread -> Seq(FileMsg)] /\ o2[t] = n /\ \A u \in Thread : u # t => o2[u] = o[u]
  BY <1>1
<1>3. Sent(o2, s) \subseteq Sent(o, s) \cup Range(n)
  BY <1>2 DEF Sent
<1>4. Honest(Sent(o2, s), table, rep2, k)
  BY <1>3, HonestMore
<1> HIDE DEF o2
<1>5. \A i \in DOMAIN s : ToIn(s, i) => s[i].cookie \in Nat /\ s[i].cookie <= c
  <2>1. \A i \in DOMAIN s : s[i] \in Sent(o, s)
    BY DEF Sent, Range
  <2> QED BY <2>1, HonestCookies DEF ToIn
<1>6. \A u \in Thread : \A i \in DOMAIN o[u] : ToIn(o[u], i) => o[u][i].cookie \in Nat /\ o[u][i].cookie <= c
  <2>1. \A u \in Thread : \A i \in DOMAIN o[u] : o[u][i] \in Sent(o, s)
    BY DEF Sent, Range
  <2> QED BY <2>1, HonestCookies DEF ToIn
<1>7. \A i \in DOMAIN n : ToIn(n, i) => n[i].cookie \in Nat /\ c < n[i].cookie
  <2>1. \A i \in DOMAIN n : n[i] \in FileMsg
    BY DEF Fresh, Told
  <2> QED BY <2>1 DEF Fresh, ToIn, FileMsg
<1>8. \A y, z \in Nat : y <= c /\ c < z => y # z
  OBVIOUS
<1>9. Apart(o2, s)
  <2>1. \A i, j \in DOMAIN s : ToIn(s, i) /\ ToIn(s, j) /\ s[i].cookie = s[j].cookie => i = j
    BY DEF Apart
  <2>2. ASSUME NEW u \in Thread, NEW i \in DOMAIN o2[u], NEW j \in DOMAIN s, ToIn(o2[u], i), ToIn(s, j)
        PROVE  o2[u][i].cookie # s[j].cookie
    <3>1. CASE u = t
      BY <1>2, <1>5, <1>7, <1>8, <2>2, <3>1
    <3>2. CASE u # t
      BY <1>2, <2>2, <3>2 DEF Apart
    <3> QED BY <3>1, <3>2
  <2>3. ASSUME NEW u \in Thread, NEW v \in Thread, NEW i \in DOMAIN o2[u], NEW j \in DOMAIN o2[v],
               ToIn(o2[u], i), ToIn(o2[v], j), o2[u][i].cookie = o2[v][j].cookie
        PROVE  u = v /\ i = j
    <3>1. CASE u = t /\ v = t
      BY <1>2, <2>3, <3>1 DEF Fresh
    <3>2. CASE u = t /\ v # t
      BY <1>2, <1>6, <1>7, <1>8, <2>3, <3>2
    <3>3. CASE u # t /\ v = t
      BY <1>2, <1>6, <1>7, <1>8, <2>3, <3>3
    <3>4. CASE u # t /\ v # t
      BY <1>2, <2>3, <3>4 DEF Apart
    <3> QED BY <3>1, <3>2, <3>3, <3>4
  <2> QED BY <2>1, <2>2, <2>3 DEF Apart
<1>10. ASSUME Preceded(o, s, table, E) PROVE Preceded(o2, s, table, E)
  <2>1. ASSUME NEW u \in Thread, NEW i \in DOMAIN o2[u], ToIn(o2[u], i)
        PROVE  \/ o2[u][i].of \subseteq E
               \/ o2[u][i].cookie \in DOMAIN table
               \/ FromIn(s, Len(s) + 1, o2[u][i].cookie)
               \/ FromIn(o2[u], i, o2[u][i].cookie)
    <3>1. CASE u = t
      BY <1>2, <2>1, <3>1 DEF Fresh
    <3>2. CASE u # t
      BY <1>2, <1>10, <2>1, <3>2 DEF Preceded
    <3> QED BY <3>1, <3>2
  <2> QED BY <1>10, <2>1 DEF Preceded
<1> QED BY <1>2, <1>4, <1>9, <1>10 DEF o2

LEMMA TailFacts ==
  ASSUME NEW S, NEW s \in Seq(S), s # <<>>
  PROVE  /\ Head(s) \in S /\ Tail(s) \in Seq(S) /\ 1 \in DOMAIN s /\ s[1] = Head(s)
         /\ \A i \in DOMAIN Tail(s) : i \in Nat /\ i + 1 \in DOMAIN s /\ Tail(s)[i] = s[i + 1]
         /\ \A j \in DOMAIN s : j # 1 => j \in Nat /\ j - 1 \in DOMAIN Tail(s) /\ Tail(s)[j - 1] = s[j]
<1>1. /\ Len(s) \in Nat /\ DOMAIN s = 1 .. Len(s)
  BY LenProperties
<1>2. Len(s) # 0
  BY EmptySeq
<1>3. /\ Head(s) \in S /\ Tail(s) \in Seq(S) /\ Len(Tail(s)) = Len(s) - 1
      /\ \A i \in 1 .. Len(Tail(s)) : Tail(s)[i] = s[i + 1]
  BY HeadTailProperties
<1>4. DOMAIN Tail(s) = 1 .. Len(s) - 1
  BY <1>3, LenProperties
<1>5. s[1] = Head(s)
  BY <1>1, <1>2
<1> QED BY <1>1, <1>2, <1>3, <1>4, <1>5

LEMMA AppendFacts ==
  ASSUME NEW S, NEW s \in Seq(S), NEW m \in S
  PROVE  /\ Append(s, m) \in Seq(S) /\ Range(Append(s, m)) = Range(s) \cup {m}
         /\ Len(s) \in Nat /\ DOMAIN s = 1 .. Len(s)
         /\ Len(Append(s, m)) = Len(s) + 1 /\ DOMAIN Append(s, m) = 1 .. Len(s) + 1
         /\ \A i \in DOMAIN s : Append(s, m)[i] = s[i]
         /\ Append(s, m)[Len(s) + 1] = m
<1>1. /\ Append(s, m) \in Seq(S) /\ Len(Append(s, m)) = Len(s) + 1
      /\ \A i \in 1 .. Len(s) : Append(s, m)[i] = s[i]
      /\ Append(s, m)[Len(s) + 1] = m
  BY AppendProperties
<1>2. Len(s) \in Nat /\ DOMAIN s = 1 .. Len(s)
  BY LenProperties
<1>3. DOMAIN Append(s, m) = 1 .. Len(s) + 1
  BY <1>1, LenProperties
<1>4. Range(Append(s, m)) = Range(s) \cup {m}
  <2>1. \A x : x \in Range(Append(s, m)) <=> \E i \in 1 .. Len(s) + 1 : x = Append(s, m)[i]
    BY <1>3 DEF Range
  <2>2. \A x : x \in Range(s) <=> \E i \in 1 .. Len(s) : x = s[i]
    BY <1>2 DEF Range
  <2>3. \A i \in 1 .. Len(s) + 1 : i \in 1 .. Len(s) \/ i = Len(s) + 1
    BY <1>2
  <2>4. Len(s) + 1 \in 1 .. Len(s) + 1 /\ \A i \in 1 .. Len(s) : i \in 1 .. Len(s) + 1
    BY <1>2
  <2> QED BY <1>1, <2>1, <2>2, <2>3, <2>4
<1> QED BY <1>1, <1>2, <1>3, <1>4

Msgs == FileMsg \cup {MountMsg}

LEMMA MountAppended ==
  ASSUME NEW o \in [Thread -> Seq(FileMsg)], NEW s \in Seq(Msgs),
         NEW table, NEW rep, NEW c, NEW E, Honest(Sent(o, s), table, rep, c), Apart(o, s)
  PROVE  LET s2 == Append(s, MountMsg)
         IN /\ s2 \in Seq(Msgs) /\ Honest(Sent(o, s2), table, rep, c)
            /\ Apart(o, s2) /\ (Preceded(o, s, table, E) => Preceded(o, s2, table, E))
<1> DEFINE s2 == Append(s, MountMsg)
<1>0. MountMsg \in Msgs /\ MountMsg.act = "mount"
  BY DEF Msgs, MountMsg
<1>1. /\ s2 \in Seq(Msgs) /\ Range(s2) = Range(s) \cup {MountMsg}
      /\ Len(s) \in Nat /\ DOMAIN s = 1 .. Len(s)
      /\ Len(s2) = Len(s) + 1 /\ DOMAIN s2 = 1 .. Len(s) + 1
      /\ \A i \in DOMAIN s : s2[i] = s[i]
      /\ s2[Len(s) + 1] = MountMsg
  BY <1>0, AppendFacts
<1> HIDE DEF s2
<1>2. Sent(o, s2) = Sent(o, s) \cup {MountMsg}
  BY <1>1 DEF Sent
<1>3. Honest(Sent(o, s2), table, rep, c)
  BY <1>0, <1>2 DEF Honest
<1>4. \A i \in DOMAIN s2 : ToIn(s2, i) => i \in DOMAIN s /\ s2[i] = s[i] /\ ToIn(s, i)
  BY <1>0, <1>1 DEF ToIn
<1>5. Apart(o, s2)
  BY <1>4 DEF Apart
<1>6. \A i \in DOMAIN s : \A k : FromIn(s, i, k) => FromIn(s2, i, k)
  BY <1>1 DEF FromIn
<1>7. \A k : FromIn(s, Len(s) + 1, k) => FromIn(s2, Len(s2) + 1, k)
  BY <1>1 DEF FromIn
<1>8. Preceded(o, s, table, E) => Preceded(o, s2, table, E)
  BY <1>4, <1>6, <1>7 DEF Preceded
<1> QED BY <1>1, <1>3, <1>5, <1>8 DEF s2

LEMMA MessageLost ==
  ASSUME NEW o \in [Thread -> Seq(FileMsg)], NEW s \in Seq(Msgs), NEW t \in Thread, o[t] # <<>>,
         NEW table, NEW rep, NEW c, Honest(Sent(o, s), table, rep, c), Apart(o, s)
  PROVE  LET o2 == [o EXCEPT ![t] = Tail(o[t])]
         IN o2 \in [Thread -> Seq(FileMsg)] /\ Honest(Sent(o2, s), table, rep, c) /\ Apart(o2, s)
<1> DEFINE o2 == [o EXCEPT ![t] = Tail(o[t])]
<1>1. /\ Tail(o[t]) \in Seq(FileMsg)
      /\ \A i \in DOMAIN Tail(o[t]) : i \in Nat /\ i + 1 \in DOMAIN o[t] /\ Tail(o[t])[i] = o[t][i + 1]
  BY TailFacts
<1>2. o2 \in [Thread -> Seq(FileMsg)] /\ o2[t] = Tail(o[t]) /\ \A u \in Thread : u # t => o2[u] = o[u]
  BY <1>1
<1> HIDE DEF o2
<1> DEFINE at(u, i) == IF u = t THEN i + 1 ELSE i
<1>3. \A u \in Thread : \A i \in DOMAIN o2[u] : at(u, i) \in DOMAIN o[u] /\ o2[u][i] = o[u][at(u, i)]
  BY <1>1, <1>2
<1>4. Sent(o2, s) \subseteq Sent(o, s)
  <2> HIDE DEF at
  <2>0. \A u \in Thread : \A i \in DOMAIN o2[u] : \E j \in DOMAIN o[u] : o2[u][i] = o[u][j]
    BY <1>3
  <2>1. \A u \in Thread : Range(o2[u]) \subseteq Range(o[u])
    BY <2>0 DEF Range
  <2> QED BY <2>1 DEF Sent
<1>5. Honest(Sent(o2, s), table, rep, c)
  BY <1>4, HonestFewer
<1>6. \A u \in Thread : \A i, j \in DOMAIN o2[u] : at(u, i) = at(u, j) => i = j
  <2> TAKE u \in Thread
  <2> TAKE i, j \in DOMAIN o2[u]
  <2>1. CASE u = t
    <3>1. i \in Nat /\ j \in Nat
      BY <1>1, <1>2, <2>1
    <3> QED BY <2>1, <3>1
  <2> QED BY <2>1
<1> HIDE DEF at
<1>7. \A u \in Thread : \A i \in DOMAIN o2[u] : ToIn(o2[u], i) => ToIn(o[u], at(u, i))
  BY <1>3 DEF ToIn
<1>8. Apart(o2, s)
  BY <1>3, <1>6, <1>7 DEF Apart
<1> QED BY <1>2, <1>5, <1>8 DEF o2

LEMMA MessageSent ==
  ASSUME NEW o \in [Thread -> Seq(FileMsg)], NEW s \in Seq(Msgs), NEW t \in Thread, o[t] # <<>>,
         NEW table, NEW rep, NEW c, NEW E, Honest(Sent(o, s), table, rep, c), Apart(o, s)
  PROVE  LET o2 == [o EXCEPT ![t] = Tail(o[t])]
             s2 == Append(s, Head(o[t]))
         IN /\ s2 \in Seq(Msgs) /\ Honest(Sent(o2, s2), table, rep, c)
            /\ Apart(o2, s2) /\ (Preceded(o, s, table, E) => Preceded(o2, s2, table, E))
<1> DEFINE o2 == [o EXCEPT ![t] = Tail(o[t])]
           m == Head(o[t])
           s2 == Append(s, m)
<1>1. /\ Tail(o[t]) \in Seq(FileMsg) /\ m \in FileMsg
      /\ 1 \in DOMAIN o[t] /\ o[t][1] = m
      /\ \A i \in DOMAIN Tail(o[t]) : i \in Nat /\ i + 1 \in DOMAIN o[t] /\ Tail(o[t])[i] = o[t][i + 1]
      /\ \A i \in DOMAIN o[t] : i # 1 => i \in Nat /\ i - 1 \in DOMAIN Tail(o[t]) /\ Tail(o[t])[i - 1] = o[t][i]
  BY TailFacts
<1>2. o2 \in [Thread -> Seq(FileMsg)] /\ o2[t] = Tail(o[t]) /\ \A u \in Thread : u # t => o2[u] = o[u]
  BY <1>1
<1>3. m \in Msgs
  BY <1>1 DEF Msgs
<1> HIDE DEF o2, m
<1>4. /\ s2 \in Seq(Msgs) /\ Range(s2) = Range(s) \cup {m}
      /\ Len(s) \in Nat /\ DOMAIN s = 1 .. Len(s)
      /\ Len(s2) = Len(s) + 1 /\ DOMAIN s2 = 1 .. Len(s) + 1
      /\ \A i \in DOMAIN s : s2[i] = s[i]
      /\ s2[Len(s) + 1] = m
  BY <1>3, AppendFacts
<1> HIDE DEF s2
<1> DEFINE at(u, i) == IF u = t THEN i + 1 ELSE i
<1>5. \A u \in Thread : \A i \in DOMAIN o2[u] : at(u, i) \in DOMAIN o[u] /\ o2[u][i] = o[u][at(u, i)]
  BY <1>1, <1>2
<1>6. Sent(o2, s2) \subseteq Sent(o, s)
  <2> HIDE DEF at
  <2>0. \A u \in Thread : \A i \in DOMAIN o2[u] : \E j \in DOMAIN o[u] : o2[u][i] = o[u][j]
    BY <1>5
  <2>1. \A u \in Thread : Range(o2[u]) \subseteq Range(o[u])
    BY <2>0 DEF Range
  <2>2. m \in Range(o[t])
    BY <1>1 DEF Range
  <2> QED BY <1>4, <2>1, <2>2 DEF Sent
<1>7. Honest(Sent(o2, s2), table, rep, c)
  BY <1>6, HonestFewer
<1>8. \A u \in Thread : \A i, j \in DOMAIN o2[u] : at(u, i) = at(u, j) => i = j
  <2> TAKE u \in Thread
  <2> TAKE i, j \in DOMAIN o2[u]
  <2>1. CASE u = t
    <3>1. i \in Nat /\ j \in Nat
      BY <1>1, <1>2, <2>1
    <3> QED BY <2>1, <3>1
  <2> QED BY <2>1
<1>9. \A i \in DOMAIN o2[t] : at(t, i) # 1
  BY <1>1, <1>2
<1>10. \A i \in DOMAIN s2 : i \in DOMAIN s \/ i = Len(s) + 1
  BY <1>4
<1>11. \A u \in Thread : \A i \in DOMAIN o2[u] : ToIn(o2[u], i) => ToIn(o[u], at(u, i))
  BY <1>5 DEF ToIn
<1>12. \A i \in DOMAIN s2 : ToIn(s2, i) =>
         \/ i \in DOMAIN s /\ ToIn(s, i) /\ s2[i] = s[i]
         \/ i = Len(s) + 1 /\ ToIn(o[t], 1) /\ s2[i] = o[t][1]
  BY <1>1, <1>4, <1>10 DEF ToIn
<1>13. ASSUME NEW i \in DOMAIN s2, NEW j \in DOMAIN s2, ToIn(s2, i), ToIn(s2, j), s2[i].cookie = s2[j].cookie
       PROVE  i = j
  BY <1>1, <1>12, <1>13 DEF Apart
<1>14. ASSUME NEW u \in Thread, NEW i \in DOMAIN o2[u], NEW j \in DOMAIN s2, ToIn(o2[u], i), ToIn(s2, j)
       PROVE  o2[u][i].cookie # s2[j].cookie
  <2>1. at(u, i) \in DOMAIN o[u] /\ o2[u][i] = o[u][at(u, i)] /\ ToIn(o[u], at(u, i))
    BY <1>5, <1>11, <1>14
  <2>2. CASE j \in DOMAIN s /\ ToIn(s, j) /\ s2[j] = s[j]
    BY <2>1, <2>2 DEF Apart
  <2>3. CASE ToIn(o[t], 1) /\ s2[j] = o[t][1]
    <3>1. u # t \/ at(u, i) # 1
      BY <1>9
    <3> QED BY <1>1, <2>1, <2>3, <3>1 DEF Apart
  <2> QED BY <1>12, <1>14, <2>2, <2>3
<1>15. ASSUME NEW u \in Thread, NEW v \in Thread, NEW i \in DOMAIN o2[u], NEW j \in DOMAIN o2[v],
              ToIn(o2[u], i), ToIn(o2[v], j), o2[u][i].cookie = o2[v][j].cookie
       PROVE  u = v /\ i = j
  <2>1. u = v /\ at(u, i) = at(v, j)
    BY <1>5, <1>11, <1>15 DEF Apart
  <2> QED BY <1>8, <2>1
<1>16. Apart(o2, s2)
  BY <1>13, <1>14, <1>15 DEF Apart
<1>17. ASSUME Preceded(o, s, table, E) PROVE Preceded(o2, s2, table, E)
  <2>1. \A k : \A i \in DOMAIN s : FromIn(s, i, k) => FromIn(s2, i, k)
    BY <1>4 DEF FromIn
  <2>2. \A k : FromIn(s, Len(s) + 1, k) => FromIn(s2, Len(s) + 1, k) /\ FromIn(s2, Len(s2) + 1, k)
    BY <1>4 DEF FromIn
  <2>3. ASSUME NEW i \in DOMAIN s2, ToIn(s2, i)
        PROVE  s2[i].of \subseteq E \/ s2[i].cookie \in DOMAIN table \/ FromIn(s2, i, s2[i].cookie)
    <3>1. CASE i \in DOMAIN s /\ ToIn(s, i) /\ s2[i] = s[i]
      BY <1>17, <2>1, <3>1 DEF Preceded
    <3>2. CASE i = Len(s) + 1 /\ ToIn(o[t], 1) /\ s2[i] = o[t][1]
      <4>1. ~FromIn(o[t], 1, o[t][1].cookie)
        <5>1. DOMAIN o[t] \subseteq Nat /\ \A j \in DOMAIN o[t] : ~(j < 1)
          BY LenProperties
        <5> QED BY <5>1 DEF FromIn
      <4> QED BY <1>1, <1>17, <2>2, <3>2, <4>1 DEF Preceded
    <3> QED BY <1>12, <2>3, <3>1, <3>2
  <2>4. ASSUME NEW u \in Thread, NEW i \in DOMAIN o2[u], ToIn(o2[u], i)
        PROVE  \/ o2[u][i].of \subseteq E
               \/ o2[u][i].cookie \in DOMAIN table
               \/ FromIn(s2, Len(s2) + 1, o2[u][i].cookie)
               \/ FromIn(o2[u], i, o2[u][i].cookie)
    <3> DEFINE k == o2[u][i].cookie
    <3>1. at(u, i) \in DOMAIN o[u] /\ o2[u][i] = o[u][at(u, i)] /\ ToIn(o[u], at(u, i))
      BY <1>5, <1>11, <2>4
    <3>2. o2[u][i].of \subseteq E \/ k \in DOMAIN table \/ FromIn(s, Len(s) + 1, k) \/ FromIn(o[u], at(u, i), k)
      BY <1>17, <3>1 DEF Preceded
    <3>3. ASSUME FromIn(o[u], at(u, i), k) PROVE FromIn(s2, Len(s2) + 1, k) \/ FromIn(o2[u], i, k)
      <4>1. PICK j \in DOMAIN o[u] : j < at(u, i) /\ o[u][j].act = "rename_from" /\ o[u][j].cookie = k
        BY <3>3 DEF FromIn
      <4>2. CASE u # t
        BY <1>2, <4>1, <4>2 DEF FromIn, at
      <4>3. CASE u = t /\ j = 1
        <5>1. s2[Len(s) + 1] = o[u][j] /\ Len(s) + 1 \in DOMAIN s2 /\ Len(s) + 1 < Len(s2) + 1
          BY <1>1, <1>4, <4>3
        <5> QED BY <4>1, <5>1 DEF FromIn
      <4>4. CASE u = t /\ j # 1
        <5>1. j - 1 \in DOMAIN o2[u] /\ o2[u][j - 1] = o[u][j] /\ j \in Nat /\ i \in Nat
          BY <1>1, <1>2, <4>4
        <5>2. j - 1 < i
          BY <4>1, <4>4, <5>1 DEF at
        <5> QED BY <4>1, <5>1, <5>2 DEF FromIn
      <4> QED BY <4>2, <4>3, <4>4
    <3> QED BY <2>2, <3>2, <3>3
  <2> QED BY <2>3, <2>4 DEF Preceded
<1> QED BY <1>4, <1>7, <1>16, <1>17 DEF o2, s2, m

(* When a message is lost the paths that its thread holds are excused.     *)
LEMMA PrecededLost ==
  ASSUME NEW o \in [Thread -> Seq(FileMsg)], NEW s \in Seq(Msgs), NEW t \in Thread, o[t] # <<>>,
         NEW table, NEW E, NEW E2, E \subseteq E2, Preceded(o, s, table, E),
         \A i \in DOMAIN o[t] : o[t][i].of \subseteq E2
  PROVE  Preceded([o EXCEPT ![t] = Tail(o[t])], s, table, E2)
<1> DEFINE o2 == [o EXCEPT ![t] = Tail(o[t])]
<1>1. \A i \in DOMAIN Tail(o[t]) : i + 1 \in DOMAIN o[t] /\ Tail(o[t])[i] = o[t][i + 1]
  BY TailFacts
<1>2. o2[t] = Tail(o[t]) /\ \A u \in Thread : u # t => o2[u] = o[u]
  OBVIOUS
<1> HIDE DEF o2
<1>3. \A x : x \subseteq E => x \subseteq E2
  OBVIOUS
<1>4. ASSUME NEW u \in Thread, NEW i \in DOMAIN o2[u], ToIn(o2[u], i)
      PROVE  \/ o2[u][i].of \subseteq E2
             \/ o2[u][i].cookie \in DOMAIN table
             \/ FromIn(s, Len(s) + 1, o2[u][i].cookie)
             \/ FromIn(o2[u], i, o2[u][i].cookie)
  <2>1. CASE u = t
    <3>1. i + 1 \in DOMAIN o[t] /\ o2[u][i] = o[t][i + 1]
      BY <1>1, <1>2, <2>1
    <3> QED BY <3>1
  <2>2. CASE u # t
    BY <1>2, <1>3, <1>4, <2>2 DEF Preceded
  <2> QED BY <2>1, <2>2
<1>5. \A i \in DOMAIN s : ToIn(s, i) =>
        s[i].of \subseteq E2 \/ s[i].cookie \in DOMAIN table \/ FromIn(s, i, s[i].cookie)
  BY <1>3 DEF Preceded
<1>6. Preceded(o2, s, table, E2)
  BY <1>4, <1>5 DEF Preceded
<1> QED BY <1>6 DEF o2

(* A thread unlocks its paths when its last message is gone.               *)
LEMMA LockedSent ==
  ASSUME NEW o \in [Thread -> Seq(FileMsg)], NEW h \in [Thread -> SUBSET Files], Locked(o, h),
         NEW t \in Thread, o[t] # <<>>
  PROVE  LET o2 == [o EXCEPT ![t] = Tail(o[t])]
             h2 == IF Len(o[t]) = 1 THEN [h EXCEPT ![t] = {}] ELSE h
         IN h2 \in [Thread -> SUBSET Files] /\ Locked(o2, h2)
<1> DEFINE o2 == [o EXCEPT ![t] = Tail(o[t])]
           h2 == IF Len(o[t]) = 1 THEN [h EXCEPT ![t] = {}] ELSE h
<1>1. \A i \in DOMAIN Tail(o[t]) : i + 1 \in DOMAIN o[t] /\ Tail(o[t])[i] = o[t][i + 1]
  BY TailFacts
<1>2. /\ Tail(o[t]) \in Seq(FileMsg) /\ Len(o[t]) \in Nat /\ Len(o[t]) # 0 /\ Len(Tail(o[t])) = Len(o[t]) - 1
      /\ DOMAIN Tail(o[t]) = 1 .. Len(Tail(o[t]))
  BY HeadTailProperties, EmptySeq, LenProperties
<1>3. o2[t] = Tail(o[t]) /\ \A u \in Thread : u # t => o2[u] = o[u]
  BY <1>2
<1>4. /\ h2 \in [Thread -> SUBSET Files] /\ \A u \in Thread : u # t => h2[u] = h[u]
      /\ h2[t] = IF Len(o[t]) = 1 THEN {} ELSE h[t]
  OBVIOUS
<1>5. Tail(o[t]) = <<>> <=> Len(o[t]) = 1
  <2>1. Tail(o[t]) = <<>> <=> Len(Tail(o[t])) = 0
    BY <1>2, EmptySeq
  <2> QED BY <1>2, <2>1
<1>6. Len(o[t]) = 1 => DOMAIN Tail(o[t]) = {}
  <2>1. Len(o[t]) = 1 => Len(Tail(o[t])) = 0
    BY <1>2
  <2>2. 1 .. 0 = {}
    OBVIOUS
  <2> QED BY <1>2, <2>1, <2>2
<1> HIDE DEF o2, h2
<1>7. \A u \in Thread : \A i \in DOMAIN o2[u] : o2[u][i].of = h2[u]
  <2> TAKE u \in Thread
  <2>1. CASE u = t
    <3>1. \A i \in DOMAIN o[t] : o[t][i].of = h[t]
      BY DEF Locked
    <3>2. \A i \in DOMAIN Tail(o[t]) : Tail(o[t])[i].of = h[t]
      BY <1>1, <3>1
    <3> QED BY <1>3, <1>4, <1>6, <2>1, <3>2
  <2>2. CASE u # t
    BY <1>3, <1>4, <2>2 DEF Locked
  <2> QED BY <2>1, <2>2
<1>8. \A u \in Thread : o2[u] = <<>> => h2[u] = {}
  BY <1>3, <1>4, <1>5 DEF Locked
<1>9. \A u, v \in Thread : u # v => h2[u] \cap h2[v] = {}
  <2>1. \A u \in Thread : h2[u] \subseteq h[u]
    BY <1>4
  <2> QED BY <2>1 DEF Locked
<1>10. Locked(o2, h2)
  BY <1>7, <1>8, <1>9 DEF Locked
<1> QED BY <1>4, <1>10 DEF o2, h2

LEMMA LockedOperated ==
  ASSUME NEW o \in [Thread -> Seq(FileMsg)], NEW h \in [Thread -> SUBSET Files], Locked(o, h),
         NEW t \in Thread, NEW n, NEW of \in SUBSET Files, NEW rep, NEW c, NEW k, Fresh(n, rep, c, k, of),
         \A u \in Thread : of \cap h[u] = {}
  PROVE  /\ [h EXCEPT ![t] = of] \in [Thread -> SUBSET Files]
         /\ Locked([o EXCEPT ![t] = n], [h EXCEPT ![t] = of])
<1> DEFINE o2 == [o EXCEPT ![t] = n]
           h2 == [h EXCEPT ![t] = of]
<1>1. n \in Seq(FileMsg) /\ n # <<>> /\ \A i \in DOMAIN n : n[i].of = of
  BY DEF Fresh
<1>2. o2[t] = n /\ \A u \in Thread : u # t => o2[u] = o[u]
  OBVIOUS
<1>3. h2 \in [Thread -> SUBSET Files] /\ h2[t] = of /\ \A u \in Thread : u # t => h2[u] = h[u]
  OBVIOUS
<1> HIDE DEF o2, h2
<1>4. \A u \in Thread : \A i \in DOMAIN o2[u] : o2[u][i].of = h2[u]
  <2> TAKE u \in Thread
  <2> QED BY <1>1, <1>2, <1>3 DEF Locked
<1>5. \A u \in Thread : o2[u] = <<>> => h2[u] = {}
  BY <1>1, <1>2, <1>3 DEF Locked
<1>6. \A u, v \in Thread : u # v => h2[u] \cap h2[v] = {}
  <2> TAKE u, v \in Thread
  <2> HAVE u # v
  <2> QED BY <1>3 DEF Locked
<1>7. Locked(o2, h2)
  BY <1>4, <1>5, <1>6 DEF Locked
<1> QED BY <1>3, <1>7 DEF o2, h2

LEMMA SourceKept ==
  ASSUME NEW S, NEW table, NEW rep, NEW c, Honest(S, table, rep, c),
         NEW m \in S, m.act = "rename_from"
  PROVE  Honest(S, Stored(table, m), rep, c)
<1> DEFINE t2 == Stored(table, m)
<1>1. /\ DOMAIN t2 = DOMAIN table \cup {m.cookie} /\ t2[m.cookie] = m.path
      /\ \A k \in DOMAIN table : k # m.cookie => t2[k] = table[k]
  BY DEF Stored
<1> HIDE DEF t2
<1>2. m \in FileMsg /\ m.cookie \in Nat /\ m.cookie <= c
  BY HonestCookies
<1>3. \A k \in DOMAIN t2 : k \in Nat /\ k <= c /\ t2[k] \in Seq(Name)
  BY <1>1, <1>2 DEF Honest, FileMsg
<1>4. ASSUME NEW x \in S, x.act = "rename_to", x.cookie \in DOMAIN t2
      PROVE  OneRename(x, t2[x.cookie], rep)
  <2>1. CASE x.cookie = m.cookie
    BY <1>1, <1>4, <2>1 DEF Honest
  <2>2. CASE x.cookie # m.cookie
    BY <1>1, <1>4, <2>2 DEF Honest
  <2> QED BY <2>1, <2>2
<1>5. Honest(S, t2, rep, c)
  BY <1>3, <1>4 DEF Honest
<1> QED BY <1>5 DEF t2

LEMMA SourceTaken ==
  ASSUME NEW S, NEW table, NEW rep, NEW c, Honest(S, table, rep, c), NEW m
  PROVE  Honest(S, Taken(table, m), rep, c)
<1> DEFINE t2 == Taken(table, m)
<1>1. DOMAIN t2 \subseteq DOMAIN table /\ \A k \in DOMAIN t2 : t2[k] = table[k]
  BY DEF Taken
<1> HIDE DEF t2
<1>2. Honest(S, t2, rep, c)
  BY <1>1 DEF Honest
<1> QED BY <1>2 DEF t2

(* The first message leaves the socket, and what the table of sources      *)
(* loses and gains by it is its own cookie.                                *)
LEMMA MessageReceived ==
  ASSUME NEW o \in [Thread -> Seq(FileMsg)], NEW s \in Seq(Msgs), s # <<>>,
         NEW table, NEW rep, NEW c, Honest(Sent(o, s), table, rep, c), Apart(o, s)
  PROVE  /\ Head(s) \in Sent(o, s)
         /\ Sent(o, Tail(s)) \subseteq Sent(o, s)
         /\ Apart(o, Tail(s))
<1> DEFINE s2 == Tail(s)
<1>1. /\ Head(s) \in Msgs /\ s2 \in Seq(Msgs) /\ 1 \in DOMAIN s /\ s[1] = Head(s)
      /\ \A i \in DOMAIN s2 : i \in Nat /\ i + 1 \in DOMAIN s /\ s2[i] = s[i + 1]
  BY TailFacts
<1> HIDE DEF s2
<1>2. Head(s) \in Sent(o, s)
  BY <1>1 DEF Sent, Range
<1>3. \A i \in DOMAIN s2 : \E j \in DOMAIN s : s2[i] = s[j]
  BY <1>1
<1>4. Range(s2) \subseteq Range(s)
  BY <1>3 DEF Range
<1>5. Sent(o, s2) \subseteq Sent(o, s)
  BY <1>4 DEF Sent
<1>6. \A i \in DOMAIN s2 : ToIn(s2, i) => ToIn(s, i + 1)
  BY <1>1 DEF ToIn
<1>7. ASSUME NEW i \in DOMAIN s2, NEW j \in DOMAIN s2, ToIn(s2, i), ToIn(s2, j), s2[i].cookie = s2[j].cookie
      PROVE  i = j
  <2>1. i + 1 = j + 1
    BY <1>1, <1>6, <1>7 DEF Apart
  <2>2. i \in Nat /\ j \in Nat
    BY <1>1
  <2> QED BY <2>1, <2>2
<1>8. \A t \in Thread : \A i \in DOMAIN o[t], j \in DOMAIN s2 :
        ToIn(o[t], i) /\ ToIn(s2, j) => o[t][i].cookie # s2[j].cookie
  BY <1>1, <1>6 DEF Apart
<1>9. Apart(o, s2)
  BY <1>7, <1>8 DEF Apart
<1> QED BY <1>2, <1>5, <1>9 DEF s2

LEMMA PrecededReceived ==
  ASSUME NEW o \in [Thread -> Seq(FileMsg)], NEW s \in Seq(Msgs), s # <<>>,
         NEW table, NEW t2, NEW E, NEW E2, E \subseteq E2, Apart(o, s), Preceded(o, s, table, E),
         \A k \in DOMAIN table : k \in DOMAIN t2 \/ (Head(s).act = "rename_to" /\ k = Head(s).cookie),
         Head(s).act = "rename_from" =>
           \/ Head(s).cookie \in DOMAIN t2
           \/ \A x \in Sent(o, s) : x.act = "rename_to" /\ x.cookie = Head(s).cookie => x.of \subseteq E2
  PROVE  Preceded(o, Tail(s), t2, E2)
<1> DEFINE s2 == Tail(s)
           m == Head(s)
<1>1. /\ 1 \in DOMAIN s /\ s[1] = m /\ s2 \in Seq(Msgs)
      /\ \A i \in DOMAIN s2 : i \in Nat /\ i + 1 \in DOMAIN s /\ s2[i] = s[i + 1]
      /\ \A j \in DOMAIN s : j # 1 => j \in Nat /\ j - 1 \in DOMAIN s2 /\ s2[j - 1] = s[j]
  BY TailFacts
<1>2. /\ Len(s) \in Nat /\ Len(s2) \in Nat /\ Len(s2) = Len(s) - 1
      /\ DOMAIN s = 1 .. Len(s) /\ DOMAIN s2 = 1 .. Len(s2)
  BY LenProperties, HeadTailProperties
<1> HIDE DEF s2, m
<1>3. \A k \in DOMAIN table : k \in DOMAIN t2 \/ (m.act = "rename_to" /\ k = m.cookie)
  BY DEF m
<1>4. ASSUME NEW x \in Sent(o, s), x.act = "rename_to", m.act = "rename_from", x.cookie = m.cookie
      PROVE  x.cookie \in DOMAIN t2 \/ x.of \subseteq E2
  BY <1>4 DEF m
<1>5. ASSUME NEW i \in Nat, NEW x \in Sent(o, s), x.act = "rename_to", NEW k, k = x.cookie, FromIn(s, i + 1, k)
      PROVE  x.of \subseteq E2 \/ k \in DOMAIN t2 \/ FromIn(s2, i, k)
  <2>1. PICK j \in DOMAIN s : j < i + 1 /\ s[j].act = "rename_from" /\ s[j].cookie = k
    BY <1>5 DEF FromIn
  <2>2. CASE j = 1
    BY <1>1, <1>4, <1>5, <2>1, <2>2
  <2>3. CASE j # 1
    <3>1. j \in Nat /\ j - 1 \in DOMAIN s2 /\ s2[j - 1] = s[j]
      BY <1>1, <2>3
    <3>2. j - 1 < i
      BY <2>1, <3>1
    <3> QED BY <2>1, <3>1, <3>2 DEF FromIn
  <2> QED BY <2>2, <2>3
<1>6. ASSUME NEW i \in DOMAIN s2, ToIn(s2, i)
      PROVE  s2[i].of \subseteq E2 \/ s2[i].cookie \in DOMAIN t2 \/ FromIn(s2, i, s2[i].cookie)
  <2>0. s2[i] \in Sent(o, s) /\ s2[i].act = "rename_to"
    <3>1. s2[i] = s[i + 1] /\ i + 1 \in DOMAIN s
      BY <1>1
    <3> QED BY <1>6, <3>1 DEF Sent, Range, ToIn
  <2>1. i \in Nat /\ i + 1 \in DOMAIN s /\ s2[i] = s[i + 1] /\ ToIn(s, i + 1)
    BY <1>1, <1>6 DEF ToIn
  <2>2. ~(m.act = "rename_to" /\ m.cookie = s[i + 1].cookie)
    <3>1. i + 1 # 1
      BY <1>2, <2>1
    <3>2. m.act = "rename_to" => ToIn(s, 1)
      BY <1>1 DEF ToIn
    <3> QED BY <1>1, <2>1, <3>1, <3>2 DEF Apart
  <2>3. s[i + 1].of \subseteq E \/ s[i + 1].cookie \in DOMAIN table \/ FromIn(s, i + 1, s[i + 1].cookie)
    BY <2>1 DEF Preceded
  <2>4. FromIn(s, i + 1, s[i + 1].cookie) =>
          s2[i].of \subseteq E2 \/ s2[i].cookie \in DOMAIN t2 \/ FromIn(s2, i, s2[i].cookie)
    BY <1>5, <2>0, <2>1
  <2>5. s[i + 1].of \subseteq E => s2[i].of \subseteq E2
    BY <2>1
  <2> QED BY <1>3, <2>1, <2>2, <2>3, <2>4, <2>5
<1>7. ASSUME NEW t \in Thread, NEW i \in DOMAIN o[t], ToIn(o[t], i)
      PROVE  \/ o[t][i].of \subseteq E2
             \/ o[t][i].cookie \in DOMAIN t2
             \/ FromIn(s2, Len(s2) + 1, o[t][i].cookie)
             \/ FromIn(o[t], i, o[t][i].cookie)
  <2> DEFINE k == o[t][i].cookie
             x == o[t][i]
  <2>0. x \in Sent(o, s) /\ x.act = "rename_to" /\ k = x.cookie
    BY <1>7 DEF Sent, Range, ToIn
  <2>1. ~(m.act = "rename_to" /\ m.cookie = k)
    <3>1. m.act = "rename_to" => ToIn(s, 1)
      BY <1>1 DEF ToIn
    <3> QED BY <1>1, <1>7, <3>1 DEF Apart
  <2>2. x.of \subseteq E \/ k \in DOMAIN table \/ FromIn(s, Len(s) + 1, k) \/ FromIn(o[t], i, k)
    BY <1>7 DEF Preceded
  <2> HIDE DEF k, x
  <2>3. FromIn(s, Len(s) + 1, k) => x.of \subseteq E2 \/ k \in DOMAIN t2 \/ FromIn(s2, Len(s2) + 1, k)
    <3>1. Len(s) \in Nat /\ Len(s) = Len(s2) + 1
      BY <1>2
    <3> QED BY <1>5, <2>0, <3>1
  <2>4. x.of \subseteq E => x.of \subseteq E2
    OBVIOUS
  <2>5. x.of \subseteq E2 \/ k \in DOMAIN t2 \/ FromIn(s2, Len(s2) + 1, k) \/ FromIn(o[t], i, k)
    BY <1>3, <2>1, <2>2, <2>3, <2>4
  <2> QED BY <2>5 DEF k, x
<1>8. Preceded(o, s2, t2, E2)
  BY <1>6, <1>7 DEF Preceded
<1> QED BY <1>8 DEF s2

-----------------------------------------------------------------------------
(* Edits and what they do to the index                                     *)

LEMMA EditFacts ==
  ASSUME NEW k, NEW a, NEW b, NEW w \in Twins
  PROVE  LET e == EditOf(k, a, b, w)
         IN /\ e.kind = k /\ e.src = a /\ e.dst = b /\ e.twin = w
            /\ Plain(e) = EditOf(k, a, b, "single")
            /\ EditOf(k, a, b, "single") \in AnyEdit => e \in Edits
<1> DEFINE e == EditOf(k, a, b, w)
           f == EditOf(k, a, b, "single")
<1>1. e.kind = k /\ e.src = a /\ e.dst = b /\ e.twin = w /\ Plain(e) = f
  BY DEF EditOf, Plain
<1>2. e = [f EXCEPT !.twin = w]
  BY DEF EditOf
<1>3. f \in AnyEdit => e \in Edits
  <2> HIDE DEF e, f
  <2> QED BY <1>2 DEF Edits
<1> QED BY <1>1, <1>3

LEMMA NoEditSound ==
  ASSUME NEW rep
  PROVE  Sound(NoEdit, rep) /\ NoEdit.twin = "single" /\ NoEdit \in Edits
<1>1. "single" \in Twins /\ NoEdit \in AnyEdit
  BY DEF Twins, AnyEdit
<1>2. NoEdit.twin = "single" /\ NoEdit \in Edits
  BY <1>1, EditFacts DEF NoEdit
<1> QED BY <1>2 DEF Sound

(* The edits have the form of AnyEdit.                                     *)
LEMMA EditForm ==
  ASSUME NEW e \in Edits
  PROVE  /\ e.twin \in Twins /\ Plain(e) \in AnyEdit /\ [e EXCEPT !.twin = "first"].twin = "first"
         /\ e.kind \in {"insert", "remove"} => e.src \in Files
         /\ e.kind = "rename" => e.src \in Files /\ e.dst \in Files
<1>1. PICK f \in AnyEdit, w \in Twins : e = [f EXCEPT !.twin = w]
  BY DEF Edits
<1>2. \E k, a, b : /\ f = EditOf(k, a, b, "single")
                   /\ k \in {"insert", "remove"} => a \in Files
                   /\ k = "rename" => a \in Files /\ b \in Files
  BY DEF AnyEdit, NoEdit
<1>3. PICK k, a, b : /\ f = EditOf(k, a, b, "single")
                     /\ k \in {"insert", "remove"} => a \in Files
                     /\ k = "rename" => a \in Files /\ b \in Files
  BY <1>2
<1>4. e = EditOf(k, a, b, w)
  BY <1>1, <1>3 DEF EditOf
<1>5. Plain(e) = f
  BY <1>3, <1>4, EditFacts
<1>6. e.kind = k /\ e.src = a /\ e.dst = b /\ e.twin = w
  BY <1>4, EditFacts
<1>7. [e EXCEPT !.twin = "first"].twin = "first"
  BY <1>4 DEF EditOf
<1> QED BY <1>3, <1>5, <1>6, <1>7

LEMMA ApplyInFiles ==
  ASSUME NEW e \in Edits, NEW s, s \subseteq Files
  PROVE  Apply(s, e) \subseteq Files
BY EditForm DEF Apply

(* The recursion of ApplyAll has a solution.                               *)
LEMMA ApplyAllSteps ==
  ASSUME NEW s, NEW S, NEW es \in Seq(S)
  PROVE  \E f : /\ f = [i \in 0 .. Len(es) |-> IF i = 0 THEN s ELSE Apply(f[i - 1], es[i])]
                /\ ApplyAll(s, es) = f[Len(es)]
<1> DEFINE Step(f, n) == f = [i \in 0 .. n |-> IF i = 0 THEN s ELSE Apply(f[i - 1], es[i])]
           stuck == {n \in Nat : ~ \E f : Step(f, n)}
<1>1. Len(es) \in Nat
  BY LenProperties
<1>2. stuck = {}
  <2>1. SUFFICES ASSUME stuck # {} PROVE FALSE
    OBVIOUS
  <2>2. PICK n \in stuck : \A k \in stuck : n <= k
    <3>1. stuck \subseteq Nat
      OBVIOUS
    <3> HIDE DEF stuck
    <3> QED BY <2>1, <3>1, SmallestNumber
  <2>3. CASE n = 0
    <3> DEFINE f == [i \in 0 .. 0 |-> s]
    <3>1. Step(f, 0)
      OBVIOUS
    <3> QED BY <2>2, <2>3, <3>1
  <2>4. CASE n # 0
    <3>1. n \in Nat /\ n - 1 \in Nat /\ n - 1 < n
      BY <2>4
    <3>2. PICK f : Step(f, n - 1)
      <4>1. n - 1 \notin stuck
        <5> HIDE DEF stuck
        <5>1. \A x \in Nat : x - 1 < x => ~(x <= x - 1)
          OBVIOUS
        <5>2. ~(n <= n - 1)
          BY <3>1, <5>1
        <5> QED BY <2>2, <5>2
      <4> QED BY <3>1, <4>1
    <3> DEFINE g == [i \in 0 .. n |-> IF i <= n - 1 THEN f[i] ELSE Apply(f[n - 1], es[n])]
    <3>3. \A i \in 0 .. n - 1 : f[i] = IF i = 0 THEN s ELSE Apply(f[i - 1], es[i])
      BY <3>2
    <3>4. \A i \in 0 .. n - 1 : g[i] = f[i]
      BY <3>1
    <3>5. g[n] = Apply(f[n - 1], es[n])
      BY <3>1
    <3>6. \A i \in 0 .. n : i # 0 => i - 1 \in 0 .. n - 1
      BY <3>1
    <3>7. \A i \in 0 .. n : g[i] = IF i = 0 THEN s ELSE Apply(g[i - 1], es[i])
      <4> TAKE i \in 0 .. n
      <4>1. CASE i = n
        <5>1. g[n - 1] = f[n - 1]
          BY <3>1, <3>4
        <5> HIDE DEF g
        <5> QED BY <2>4, <3>5, <4>1, <5>1
      <4>2. CASE i # n
        <5>1. i \in 0 .. n - 1
          BY <3>1, <4>2
        <5> HIDE DEF g
        <5> QED BY <3>3, <3>4, <3>6, <5>1
      <4> QED BY <4>1, <4>2
    <3>8. DOMAIN g = 0 .. n /\ g = [i \in DOMAIN g |-> g[i]]
      OBVIOUS
    <3> HIDE DEF g
    <3>9. Step(g, n)
      BY <3>7, <3>8
    <3> QED BY <2>2, <3>9
  <2> QED BY <2>3, <2>4
<1>3. \E f : Step(f, Len(es))
  BY <1>1, <1>2
<1> DEFINE h == CHOOSE f : Step(f, Len(es))
<1>4. Step(h, Len(es))
  BY <1>3
<1>5. ApplyAll(s, es) = h[Len(es)]
  BY DEF ApplyAll
<1> HIDE DEF h
<1> QED BY <1>4, <1>5

LEMMA ApplyAllInFiles ==
  ASSUME NEW s, s \subseteq Files, NEW es \in Seq(Edits)
  PROVE  ApplyAll(s, es) \subseteq Files
<1>1. PICK f : /\ f = [i \in 0 .. Len(es) |-> IF i = 0 THEN s ELSE Apply(f[i - 1], es[i])]
               /\ ApplyAll(s, es) = f[Len(es)]
  BY ApplyAllSteps
<1>2. Len(es) \in Nat
  BY LenProperties
<1>3. \A i \in 0 .. Len(es) : f[i] = IF i = 0 THEN s ELSE Apply(f[i - 1], es[i])
  BY <1>1
<1> DEFINE out == {n \in 0 .. Len(es) : ~(f[n] \subseteq Files)}
<1>4. out = {}
  <2>1. SUFFICES ASSUME out # {} PROVE FALSE
    OBVIOUS
  <2>2. PICK n \in out : \A k \in out : n <= k
    <3>1. out \subseteq Nat
      OBVIOUS
    <3> HIDE DEF out
    <3> QED BY <2>1, <3>1, SmallestNumber
  <2>3. CASE n = 0
    BY <1>3, <2>2, <2>3
  <2>4. CASE n # 0
    <3>1. n \in Nat /\ n - 1 \in 0 .. Len(es) /\ n - 1 < n /\ n \in 1 .. Len(es)
      BY <1>2, <2>4
    <3>2. f[n - 1] \subseteq Files
      BY <2>2, <3>1
    <3>3. es[n] \in Edits
      BY <3>1, ElementOfSeq
    <3>4. f[n] = Apply(f[n - 1], es[n])
      BY <1>3, <2>4
    <3> QED BY <2>2, <3>2, <3>3, <3>4, ApplyInFiles
  <2> QED BY <2>3, <2>4
<1>5. Len(es) \in 0 .. Len(es)
  BY <1>2
<1> QED BY <1>1, <1>4, <1>5

(* What is pushed for a message of a mounted device is an edit that was    *)
(* asked for.                                                              *)
LEMMA DataSound ==
  ASSUME NEW S, NEW rep, rep \subseteq AnyEdit, NEW c, Honest(S, rename_from, rep, c),
         NEW m \in S, m.act # "mount", m.act # "rename_from",
         partitions[m.dev] = Home[m.dev]
  PROVE  Sound(Pushed(Data(m)), rep)
<1>1. m \in FileMsg /\ Told(m, rep, c) /\ m.twin \in Twins
  BY HonestCookies DEF FileMsg
<1>2. Full(m, m.path) = Place(m)
  BY DEF Full, Place
<1>3. CASE Paired(m)
  <2> DEFINE src == Home[m.dev] \o rename_from[m.cookie]
             e == EditOf("rename", src, Place(m), m.twin)
  <2>1. Pushed(Data(m)) = e
    BY <1>2, <1>3 DEF Data, Full, Pushed
  <2>2. EditOf("rename", src, Place(m), "single") \in rep
    BY <1>3 DEF Honest, Paired, OneRename
  <2>3. e \in Edits /\ Plain(e) \in rep /\ e.twin = m.twin /\ e.kind = "rename" /\ e.dst = Place(m)
    BY <1>1, <2>2, EditFacts
  <2> HIDE DEF e
  <2> QED BY <1>1, <2>1, <2>3 DEF Sound, Second, Told
<1>4. CASE m.act = "new"
  <2> DEFINE e == EditOf("insert", Place(m), <<>>, m.twin)
  <2>1. Pushed(Data(m)) = e
    BY <1>2, <1>4 DEF Data, Pushed, Paired
  <2>2. EditOf("insert", Place(m), <<>>, "single") \in rep
    BY <1>1, <1>4 DEF Told
  <2>3. e \in Edits /\ Plain(e) \in rep /\ e.twin = m.twin /\ e.kind = "insert" /\ e.src = Place(m)
    BY <1>1, <2>2, EditFacts
  <2> HIDE DEF e
  <2> QED BY <1>1, <2>1, <2>3 DEF Sound, Second, Told
<1>5. CASE m.act = "delete"
  <2> DEFINE e == EditOf("remove", Place(m), <<>>, m.twin)
  <2>1. Pushed(Data(m)) = e
    BY <1>2, <1>5 DEF Data, Pushed, Paired
  <2>2. EditOf("remove", Place(m), <<>>, "single") \in rep
    BY <1>1, <1>5 DEF Told
  <2>3. e \in Edits /\ Plain(e) \in rep /\ e.twin = m.twin /\ e.kind = "remove" /\ e.src = Place(m)
    BY <1>1, <2>2, EditFacts
  <2> HIDE DEF e
  <2> QED BY <1>1, <2>1, <2>3 DEF Sound, Second, Told
<1>6. CASE m.act = "rename_to" /\ ~Paired(m)
  <2>1. Pushed(Data(m)) = NoEdit
    BY <1>6 DEF Data, Pushed
  <2> QED BY <2>1, NoEditSound
<1> QED BY <1>1, <1>3, <1>4, <1>5, <1>6 DEF FileMsg

LEMMA SoundMore ==
  ASSUME NEW rep, NEW rep2, rep \subseteq rep2, NEW e, Sound(e, rep)
  PROVE  Sound(e, rep2)
BY DEF Sound

-----------------------------------------------------------------------------
(* Every step keeps the invariant.                                         *)

AllSound(q, h, rep) == \A e \in Range(q) \cup Range(h.tmpActions) : Sound(e, rep)

LEMMA InitIInv == Init => IInv
<1> SUFFICES ASSUME Init PROVE IInv
  OBVIOUS
<1> USE DEF Init
<1>1. Resting \in HandlerState
  <2>1. NoEdit \in Edits /\ <<>> \in Seq(Edits) /\ 0 \in Nat
    BY NoEditSound
  <2> QED BY <2>1 DEF Resting, HandlerState
<1>2. Types
  <2>1. InitMounted \subseteq Device /\ InitFiles \subseteq Files
    BY PipelineAssumptions DEF Device
  <2>2. DOMAIN partitions \subseteq Device /\ \A d \in DOMAIN partitions : partitions[d] = Home[d]
    BY <2>1 DEF MountTable
  <2>3. outbox \in [Thread -> Seq(FileMsg)] /\ socket \in Seq(FileMsg \cup {MountMsg}) /\ queue \in Seq(Edits)
    OBVIOUS
  <2>4. /\ files \subseteq Files /\ index \subseteq Files /\ mounted \subseteq Device
        /\ unnamed \subseteq Dlnfs /\ cacher \subseteq Dlnfs /\ work \in Nat /\ cookie \in Nat
    BY <2>1
  <2>5. {overrun, new_msg, alive, recache, stale} \subseteq BOOLEAN
    OBVIOUS
  <2>6. handler \in HandlerState /\ reported \subseteq AnyEdit
    BY <1>1
  <2> QED BY <2>2, <2>3, <2>4, <2>5, <2>6 DEF Types
<1>3. Handling
  <2>1. Cap \in Nat /\ NoEdit.twin = "single" /\ Len(<<>>) = 0
    BY PipelineAssumptions, NoEditSound
  <2> QED BY <2>1 DEF Handling, Resting
<1>4. Sent(outbox, socket) = {}
  BY DEF Sent, Range
<1>5. Honest(Sent(outbox, socket), rename_from, reported, cookie)
  BY <1>4 DEF Honest
<1>6. Sound(Pushed(saved), reported)
  <2>1. saved.act = "none"
    OBVIOUS
  <2>2. Pushed(saved) = NoEdit
    BY <2>1 DEF Pushed
  <2> QED BY <2>2, NoEditSound
<1>7. \A e \in Range(queue) \cup Range(handler.tmpActions) : Sound(e, reported)
  BY DEF Range, Resting
<1>8. Apart(outbox, socket) /\ Preceded(outbox, socket, rename_from, excused)
  BY DEF Apart, Preceded
<1>9. held \in [Thread -> SUBSET Files] /\ Locked(outbox, held)
  BY DEF Locked
<1> QED BY <1>2, <1>3, <1>5, <1>6, <1>7, <1>8, <1>9 DEF IInv

(* The paths that an operation reports.                                    *)
Paths(evs) == {evs[i][2] : i \in DOMAIN evs}

LEMMA PathsOfOne ==
  ASSUME NEW a, NEW p \in Files
  PROVE  {p} = Paths(<< <<a, p>> >>) /\ {p} \in SUBSET Files
<1> DEFINE evs == << <<a, p>> >>
<1>1. DOMAIN evs = {1} /\ evs[1][2] = p
  OBVIOUS
<1> HIDE DEF evs
<1>2. {p} = Paths(evs)
  BY <1>1 DEF Paths
<1> QED BY <1>2 DEF evs

LEMMA PathsOfTwo ==
  ASSUME NEW a, NEW b, NEW p \in Files, NEW q \in Files
  PROVE  {p, q} = Paths(<< <<a, p>>, <<b, q>> >>) /\ {p, q} \in SUBSET Files
<1> DEFINE evs == << <<a, p>>, <<b, q>> >>
<1>1. DOMAIN evs = {1, 2} /\ evs[1][2] = p /\ evs[2][2] = q
  OBVIOUS
<1> HIDE DEF evs
<1>2. {p, q} = Paths(evs)
  BY <1>1 DEF Paths
<1> QED BY <1>2 DEF evs

(* An operation on files.                                                  *)
LEMMA ReportIInv ==
  ASSUME IInv, NEW t \in Thread, NEW evs, NEW c, NEW edit \in AnyEdit, outbox[t] = <<>>,
         Report(t, evs, c, edit), files' \subseteq Files, cookie' \in Nat, cookie <= cookie',
         NEW of \in SUBSET Files, of = Paths(evs),
         \A u \in Thread : of \cap held[u] = {},
         Fresh(Messages(evs, c), reported \cup {edit}, cookie, cookie', of)
  PROVE  IInv'
<1> DEFINE n == Messages(evs, c)
<1>1. /\ outbox' = [outbox EXCEPT ![t] = n] /\ reported' = reported \cup {edit}
      /\ held' = [held EXCEPT ![t] = of]
      /\ UNCHANGED <<mounted, unnamed, work, netVars, sourceVars, mainVars, mounts, lost, stale, excused>>
  BY DEF Report, Paths
<1> HIDE DEF n
<1>2. reported \subseteq reported' /\ reported' \subseteq AnyEdit
  BY <1>1 DEF IInv, Types
<1>3. /\ outbox' \in [Thread -> Seq(FileMsg)] /\ Honest(Sent(outbox', socket), rename_from, reported', cookie')
      /\ Apart(outbox', socket) /\ Preceded(outbox', socket, rename_from, excused)
  <2>0. Preceded(outbox, socket, rename_from, excused)
    BY DEF IInv
  <2>1. Fresh(n, reported', cookie, cookie', of)
    BY <1>1 DEF n
  <2>2. cookie \in Nat /\ outbox \in [Thread -> Seq(FileMsg)] /\ socket \in Seq(FileMsg \cup {MountMsg})
    BY DEF IInv, Types
  <2>3. Honest(Sent(outbox, socket), rename_from, reported, cookie) /\ Apart(outbox, socket)
    BY DEF IInv
  <2> QED BY <1>1, <1>2, <2>0, <2>1, <2>2, <2>3, Operated
<1>10. held' \in [Thread -> SUBSET Files] /\ Locked(outbox', held')
  <2>1. outbox \in [Thread -> Seq(FileMsg)] /\ held \in [Thread -> SUBSET Files] /\ Locked(outbox, held)
    BY DEF IInv, Types
  <2>2. Fresh(n, reported', cookie, cookie', of)
    BY <1>1 DEF n
  <2> QED BY <1>1, <2>1, <2>2, LockedOperated
<1>4. Types'
  BY <1>1, <1>2, <1>3 DEF IInv, Types, netVars, sourceVars, mainVars
<1>5. Handling'
  BY <1>1 DEF IInv, Handling, mainVars
<1>6. Sound(Pushed(saved), reported')
  BY <1>2, SoundMore DEF IInv
<1>7. \A e \in Range(queue) \cup Range(handler.tmpActions) : Sound(e, reported')
  BY <1>2, SoundMore DEF IInv
<1>8. Sound(Pushed(saved), reported)' /\ (\A e \in Range(queue) \cup Range(handler.tmpActions) : Sound(e, reported))'
  BY <1>1, <1>6, <1>7 DEF sourceVars, mainVars
<1>9. UNCHANGED <<socket, rename_from, excused, alive>>
  BY <1>1 DEF netVars, sourceVars
<1> QED BY <1>3, <1>4, <1>5, <1>8, <1>9, <1>10 DEF IInv

LEMMA OperateIInv ==
  ASSUME IInv, NEW t \in Thread, Operate(t)
  PROVE  IInv'
<1>1. cookie \in Nat /\ files \subseteq Files
  BY DEF IInv, Types
<1>2. ASSUME NEW p \in Files, Create(t, p) PROVE IInv'
  <2> DEFINE edit == EditOf("insert", p, <<>>, "single")
  <2>1. edit \in AnyEdit
    BY DEF AnyEdit
  <2>2. /\ outbox[t] = <<>> /\ files' = files \cup {p} /\ cookie' = cookie /\ Report(t, << <<"new", p>> >>, 0, edit)
        /\ \A u \in Thread : {p} \cap held[u] = {}
    BY <1>2 DEF Create, Usable
  <2> HIDE DEF edit
  <2>3. Fresh(Messages(<< <<"new", p>> >>, 0), reported \cup {edit}, cookie, cookie, {p})
    BY <1>1, FreshOne DEF edit
  <2>4. {p} = Paths(<< <<"new", p>> >>) /\ {p} \in SUBSET Files
    BY PathsOfOne
  <2>5. files' \subseteq Files /\ cookie' \in Nat /\ cookie <= cookie'
    BY <1>1, <2>2
  <2>6. Fresh(Messages(<< <<"new", p>> >>, 0), reported \cup {edit}, cookie, cookie', {p})
    BY <2>2, <2>3
  <2> QED BY <2>1, <2>2, <2>4, <2>5, <2>6, ReportIInv
<1>3. ASSUME NEW p \in Files, Delete(t, p) PROVE IInv'
  <2> DEFINE edit == EditOf("remove", p, <<>>, "single")
  <2>1. edit \in AnyEdit
    BY DEF AnyEdit
  <2>2. /\ outbox[t] = <<>> /\ files' = files \ {p} /\ cookie' = cookie /\ Report(t, << <<"delete", p>> >>, 0, edit)
        /\ \A u \in Thread : {p} \cap held[u] = {}
    BY <1>3 DEF Delete, Usable
  <2> HIDE DEF edit
  <2>3. Fresh(Messages(<< <<"delete", p>> >>, 0), reported \cup {edit}, cookie, cookie, {p})
    BY <1>1, FreshOne DEF edit
  <2>4. {p} = Paths(<< <<"delete", p>> >>) /\ {p} \in SUBSET Files
    BY PathsOfOne
  <2>5. files' \subseteq Files /\ cookie' \in Nat /\ cookie <= cookie'
    BY <1>1, <2>2
  <2>6. Fresh(Messages(<< <<"delete", p>> >>, 0), reported \cup {edit}, cookie, cookie', {p})
    BY <2>2, <2>3
  <2> QED BY <2>1, <2>2, <2>4, <2>5, <2>6, ReportIInv
<1>4. ASSUME NEW p \in Files, NEW q \in Files, Rename(t, p, q) PROVE IInv'
  <2> DEFINE edit == EditOf("rename", p, q, "single")
             evs == << <<"rename_from", p>>, <<"rename_to", q>> >>
  <2>1. edit \in AnyEdit
    BY DEF AnyEdit
  <2>2. /\ outbox[t] = <<>> /\ files' = (files \ {p}) \cup {q}
        /\ cookie' = cookie + 1 + Cardinality(Shown(p)) /\ Report(t, evs, cookie + 1, edit)
        /\ p \notin Record /\ q \notin Record /\ Owner(p) = Owner(q) /\ Cover(p) = Cover(q)
        /\ p # q /\ \A u \in Thread : {p, q} \cap held[u] = {}
    BY <1>4 DEF Rename, Usable
  <2> HIDE DEF edit
  <2>3. Cardinality(Shown(p)) \in Nat
    <3>1. Shown(p) \subseteq Dlnfs
      BY DEF Shown, Cover
    <3> QED BY <3>1, PipelineAssumptions, FS_Subset, FS_CardinalityType
  <2>4. cookie' \in Nat /\ cookie <= cookie'
    BY <1>1, <2>2, <2>3
  <2>5. Fresh(Messages(evs, cookie + 1), reported \cup {edit}, cookie, cookie', {p, q})
    BY <1>1, <2>2, <2>4, FreshRename DEF edit
  <2>6. {p, q} = Paths(evs) /\ {p, q} \in SUBSET Files
    BY PathsOfTwo
  <2> HIDE DEF evs
  <2>7. files' \subseteq Files
    BY <1>1, <2>2
  <2>8. outbox[t] = <<>> /\ Report(t, evs, cookie + 1, edit) /\ \A u \in Thread : {p, q} \cap held[u] = {}
    BY <2>2
  <2> QED BY <2>1, <2>4, <2>5, <2>6, <2>7, <2>8, ReportIInv
<1> QED BY <1>2, <1>3, <1>4 DEF Operate

LEMMA MountIInv ==
  ASSUME IInv, NEW d \in Device, Mount(d)
  PROVE  IInv'
<1>1. /\ mounted' = IF d \in mounted THEN mounted \ {d} ELSE mounted \cup {d}
      /\ work' = work + 1
      /\ UNCHANGED <<files, unnamed, outbox, held, cookie, netVars, sourceVars, mainVars, ops, lost, history>>
  BY DEF Mount
<1>2. work' \in Nat /\ mounted' \subseteq Device
  BY <1>1 DEF IInv, Types
<1>3. Types'
  BY <1>1, <1>2 DEF IInv, Types, netVars, sourceVars, mainVars, history
<1>4. Handling'
  BY <1>1 DEF IInv, Handling, mainVars
<1> QED BY <1>1, <1>3, <1>4 DEF IInv, netVars, sourceVars, mainVars, history

(* What follows if a thread of a state of IInv sends.                      *)
LEMMA SendIInv ==
  ASSUME IInv, NEW t \in Thread, SendEvent(t)
  PROVE  IInv'
<1> DEFINE m == Head(outbox[t])
           o2 == [outbox EXCEPT ![t] = Tail(outbox[t])]
<1>1. /\ outbox[t] # <<>> /\ Multicast(m) /\ outbox' = o2
      /\ held' = IF Len(outbox[t]) = 1 THEN [held EXCEPT ![t] = {}] ELSE held
      /\ UNCHANGED <<files, mounted, unnamed, work, cookie, sourceVars, mainVars, ops, mounts, reported>>
  BY DEF SendEvent
<1>2. /\ outbox \in [Thread -> Seq(FileMsg)] /\ socket \in Seq(Msgs)
      /\ Honest(Sent(outbox, socket), rename_from, reported, cookie) /\ Apart(outbox, socket)
      /\ Preceded(outbox, socket, rename_from, excused)
      /\ held \in [Thread -> SUBSET Files] /\ Locked(outbox, held)
  BY DEF IInv, Types, Msgs
<1>12. held' \in [Thread -> SUBSET Files] /\ Locked(o2, held')
  BY <1>1, <1>2, LockedSent
<1>13. \A i \in DOMAIN outbox[t] : outbox[t][i].of = m.of
  <2>1. 1 \in DOMAIN outbox[t] /\ outbox[t][1] = m
    BY <1>1, <1>2, TailFacts
  <2> QED BY <1>2, <2>1 DEF Locked
<1>14. ASSUME NEW E, E = excused \cup m.of PROVE Preceded(o2, socket, rename_from, E)
  <2>1. \A i \in DOMAIN outbox[t] : outbox[t][i].of \subseteq E
    BY <1>13, <1>14
  <2> QED BY <1>1, <1>2, <1>14, <2>1, PrecededLost
<1>3. m \in FileMsg /\ m.of # {} /\ m.act # "mount"
  <2>1. m \in FileMsg /\ 1 \in DOMAIN outbox[t] /\ outbox[t][1] = m
    BY <1>1, <1>2, TailFacts
  <2>2. m \in Sent(outbox, socket) /\ m.act # "mount"
    BY <2>1 DEF Sent, Range, FileMsg
  <2> QED BY <1>2, <2>1, <2>2, HonestCookies DEF Told
<1>4. /\ o2 \in [Thread -> Seq(FileMsg)]
      /\ Honest(Sent(o2, socket), rename_from, reported, cookie) /\ Apart(o2, socket)
  BY <1>1, <1>2, MessageLost
<1>5. /\ Append(socket, m) \in Seq(Msgs) /\ Honest(Sent(o2, Append(socket, m)), rename_from, reported, cookie)
      /\ Apart(o2, Append(socket, m))
      /\ Preceded(o2, Append(socket, m), rename_from, excused)
  BY <1>1, <1>2, MessageSent
<1> HIDE DEF m, o2
<1>6. \/ socket' = Append(socket, m) /\ UNCHANGED <<overrun, stale, excused>>
      \/ socket' = socket /\ overrun' \in BOOLEAN /\ stale' \in BOOLEAN /\ excused' = excused \cup m.of
  <2>1. overrun \in BOOLEAN /\ stale \in BOOLEAN
    BY DEF IInv, Types
  <2> QED BY <1>1, <1>3, <2>1 DEF Multicast
<1>7. Types'
  <2>1. socket' \in Seq(FileMsg \cup {MountMsg}) /\ outbox' \in [Thread -> Seq(FileMsg)]
    BY <1>1, <1>2, <1>4, <1>5, <1>6 DEF Msgs
  <2>2. {overrun', stale'} \subseteq BOOLEAN
    BY <1>6 DEF IInv, Types
  <2> QED BY <1>1, <2>1, <2>2 DEF IInv, Types, sourceVars, mainVars
<1>8. Handling'
  BY <1>1 DEF IInv, Handling, mainVars
<1>9. Honest(Sent(outbox', socket'), rename_from', reported', cookie') /\ Apart(outbox', socket')
  BY <1>1, <1>4, <1>5, <1>6 DEF sourceVars
<1>10. Preceded(outbox', socket', rename_from', excused')
  <2>1. CASE socket' = Append(socket, m) /\ excused' = excused
    BY <1>1, <1>5, <2>1 DEF sourceVars
  <2>2. CASE socket' = socket /\ excused' = excused \cup m.of
    BY <1>1, <1>14, <2>2 DEF sourceVars
  <2> QED BY <1>6, <2>1, <2>2
<1>11. Sound(Pushed(saved), reported)' /\ (\A e \in Range(queue) \cup Range(handler.tmpActions) : Sound(e, reported))'
  BY <1>1 DEF IInv, sourceVars, mainVars
<1> QED BY <1>1, <1>7, <1>8, <1>9, <1>10, <1>11, <1>12 DEF IInv

LEMMA SendMountIInv ==
  ASSUME IInv, SendMount
  PROVE  IInv'
<1>1. /\ work > 0 /\ work' = work - 1 /\ Multicast(MountMsg)
      /\ UNCHANGED <<files, mounted, unnamed, outbox, held, cookie, sourceVars, mainVars, ops, mounts, reported>>
  BY DEF SendMount
<1>2. /\ outbox \in [Thread -> Seq(FileMsg)] /\ socket \in Seq(Msgs) /\ work \in Nat
      /\ Honest(Sent(outbox, socket), rename_from, reported, cookie) /\ Apart(outbox, socket)
  BY DEF IInv, Types, Msgs
<1>3. /\ Append(socket, MountMsg) \in Seq(Msgs)
      /\ Honest(Sent(outbox, Append(socket, MountMsg)), rename_from, reported, cookie)
      /\ Apart(outbox, Append(socket, MountMsg))
      /\ Preceded(outbox, socket, rename_from, excused) => Preceded(outbox, Append(socket, MountMsg), rename_from, excused)
  BY <1>2, MountAppended
<1>4. \/ socket' = Append(socket, MountMsg) /\ UNCHANGED <<overrun, stale, excused>>
      \/ socket' = socket /\ overrun' \in BOOLEAN /\ stale' \in BOOLEAN /\ excused' = excused
  <2>1. overrun \in BOOLEAN /\ stale \in BOOLEAN
    BY DEF IInv, Types
  <2>2. MountMsg.of = {} /\ MountMsg.act = "mount"
    BY DEF MountMsg
  <2> QED BY <1>1, <2>1, <2>2 DEF Multicast
<1>5. Types'
  <2>1. socket' \in Seq(FileMsg \cup {MountMsg}) /\ outbox' \in [Thread -> Seq(FileMsg)]
    BY <1>1, <1>2, <1>3, <1>4 DEF Msgs
  <2>2. {overrun', stale'} \subseteq BOOLEAN
    BY <1>4 DEF IInv, Types
  <2>3. work' \in Nat
    BY <1>1, <1>2
  <2> QED BY <1>1, <2>1, <2>2, <2>3 DEF IInv, Types, sourceVars, mainVars
<1>6. Handling'
  BY <1>1 DEF IInv, Handling, mainVars
<1>7. Honest(Sent(outbox', socket'), rename_from', reported', cookie') /\ Apart(outbox', socket')
  BY <1>1, <1>2, <1>3, <1>4 DEF sourceVars
<1>8. Preceded(outbox', socket', rename_from', excused')
  BY <1>1, <1>3, <1>4 DEF IInv, sourceVars
<1>9. Sound(Pushed(saved), reported)' /\ (\A e \in Range(queue) \cup Range(handler.tmpActions) : Sound(e, reported))'
  BY <1>1 DEF IInv, sourceVars, mainVars
<1> QED BY <1>1, <1>5, <1>6, <1>7, <1>8, <1>9 DEF IInv

LEMMA PushedIInv ==
  ASSUME IInv, NEW n \in BOOLEAN, NEW d, Sound(Pushed(d), reported), PushEvent(n, d)
  PROVE  queue' \in Seq(Edits) /\ \A e \in Range(queue') : Sound(e, reported)
<1>1. queue \in Seq(Edits) /\ \A e \in Range(queue) : Sound(e, reported)
  BY DEF IInv, Types
<1>2. CASE n
  <2>1. queue' = Append(queue, Pushed(d)) /\ Pushed(d) \in Edits
    BY <1>2 DEF PushEvent, Sound
  <2>2. queue' \in Seq(Edits) /\ Range(queue') = Range(queue) \cup {Pushed(d)}
    BY <1>1, <2>1, AppendFacts
  <2> QED BY <1>1, <2>2
<1>3. CASE ~n
  BY <1>1, <1>3 DEF PushEvent
<1> QED BY <1>2, <1>3

LEMMA ReceiveErrorIInv ==
  ASSUME IInv, ReceiveError
  PROVE  IInv'
<1>1. /\ overrun' = FALSE /\ PushEvent(new_msg, saved)
      /\ UNCHANGED <<kernelVars, socket, sourceVars, recache, cacher, handler, index, bounds, history>>
  BY DEF ReceiveError
<1>2. queue' \in Seq(Edits) /\ \A e \in Range(queue') : Sound(e, reported)
  <2>1. new_msg \in BOOLEAN /\ Sound(Pushed(saved), reported)
    BY DEF IInv, Types
  <2> QED BY <1>1, <2>1, PushedIInv
<1>3. Types'
  BY <1>1, <1>2 DEF IInv, Types, kernelVars, sourceVars, history
<1>4. Handling'
  BY <1>1 DEF IInv, Handling
<1>5. (\A e \in Range(queue) \cup Range(handler.tmpActions) : Sound(e, reported))'
  BY <1>1, <1>2 DEF IInv, history
<1>6. Sound(Pushed(saved), reported)'
  BY <1>1 DEF IInv, sourceVars, history
<1> QED BY <1>1, <1>3, <1>4, <1>5, <1>6 DEF IInv, kernelVars, sourceVars, history

LEMMA ReceiveMountIInv ==
  ASSUME IInv, ReceiveMount
  PROVE  IInv'
<1>1. /\ socket # <<>> /\ Head(socket).act = "mount" /\ socket' = Tail(socket)
      /\ new_msg' = FALSE /\ partitions' = MountTable /\ unnamed' = Updated(unnamed, Dlnfs \cap mounted)
      /\ recache' = TRUE /\ stale' = FALSE
      /\ UNCHANGED <<files, mounted, outbox, held, work, cookie, overrun, rename_from,
                     saved, alive, cacher, queue, handler, index, bounds, reported, excused>>
  BY DEF ReceiveMount
<1>2. /\ outbox \in [Thread -> Seq(FileMsg)] /\ socket \in Seq(Msgs)
      /\ Honest(Sent(outbox, socket), rename_from, reported, cookie) /\ Apart(outbox, socket)
  BY DEF IInv, Types, Msgs
<1>3. Sent(outbox, Tail(socket)) \subseteq Sent(outbox, socket) /\ Apart(outbox, Tail(socket))
  BY <1>1, <1>2, MessageReceived
<1>4. Honest(Sent(outbox, Tail(socket)), rename_from, reported, cookie)
  BY <1>2, <1>3, HonestFewer
<1>5. Preceded(outbox, Tail(socket), rename_from, excused)
  <2>1. Head(socket).act # "rename_to" /\ Head(socket).act # "rename_from"
    BY <1>1
  <2>2. Preceded(outbox, socket, rename_from, excused)
    BY DEF IInv
  <2> QED BY <1>1, <1>2, <2>1, <2>2, PrecededReceived
<1>6. Types'
  <2>1. Tail(socket) \in Seq(FileMsg \cup {MountMsg})
    BY <1>1, <1>2, TailFacts DEF Msgs
  <2>2. unnamed' \subseteq Dlnfs
    BY <1>1 DEF IInv, Types, Updated, Store
  <2>3. DOMAIN MountTable \subseteq Device /\ \A d \in DOMAIN MountTable : MountTable[d] = Home[d]
    BY DEF IInv, Types, MountTable
  <2> HIDE DEF MountTable
  <2> QED BY <1>1, <2>1, <2>2, <2>3 DEF IInv, Types
<1>7. Handling'
  BY <1>1 DEF IInv, Handling
<1> QED BY <1>1, <1>3, <1>4, <1>5, <1>6, <1>7 DEF IInv

LEMMA ReceiveMountUnreadIInv ==
  ASSUME IInv, ReceiveMountUnread
  PROVE  IInv'
<1>1. /\ socket # <<>> /\ Head(socket).act = "mount" /\ socket' = Tail(socket)
      /\ new_msg' = FALSE /\ recache' = TRUE /\ stale' = TRUE
      /\ UNCHANGED <<kernelVars, overrun, rename_from, partitions, saved, alive, cacher, queue,
                     handler, index, bounds, reported, excused>>
  BY DEF ReceiveMountUnread
<1>2. /\ outbox \in [Thread -> Seq(FileMsg)] /\ socket \in Seq(Msgs)
      /\ Honest(Sent(outbox, socket), rename_from, reported, cookie) /\ Apart(outbox, socket)
  BY DEF IInv, Types, Msgs
<1>3. Sent(outbox, Tail(socket)) \subseteq Sent(outbox, socket) /\ Apart(outbox, Tail(socket))
  BY <1>1, <1>2, MessageReceived
<1>4. Honest(Sent(outbox, Tail(socket)), rename_from, reported, cookie)
  BY <1>2, <1>3, HonestFewer
<1>5. Preceded(outbox, Tail(socket), rename_from, excused)
  <2>1. Head(socket).act # "rename_to" /\ Head(socket).act # "rename_from"
    BY <1>1
  <2>2. Preceded(outbox, socket, rename_from, excused)
    BY DEF IInv
  <2> QED BY <1>1, <1>2, <2>1, <2>2, PrecededReceived
<1>6. Types'
  <2>1. Tail(socket) \in Seq(FileMsg \cup {MountMsg})
    BY <1>1, <1>2, TailFacts DEF Msgs
  <2> QED BY <1>1, <2>1 DEF IInv, Types, kernelVars
<1>7. Handling'
  BY <1>1 DEF IInv, Handling
<1> QED BY <1>1, <1>3, <1>4, <1>5, <1>6, <1>7 DEF IInv, kernelVars

LEMMA ReceiveEventIInv ==
  ASSUME IInv, ReceiveEvent
  PROVE  IInv'
<1> DEFINE m == Head(socket)
           known == m.dev \in DOMAIN partitions
<1>1. /\ socket # <<>> /\ m.act # "mount" /\ socket' = Tail(socket)
      /\ new_msg' = (known /\ m.act # "rename_from")
      /\ saved' = IF new_msg' THEN Data(m) ELSE saved
      /\ PushEvent(new_msg', saved')
      /\ rename_from' =
           IF ~known THEN rename_from
           ELSE IF m.act = "rename_from" THEN Stored(rename_from, m)
           ELSE IF Paired(m) THEN Taken(rename_from, m)
           ELSE rename_from
      /\ alive' \in (IF known /\ m.act = "rename_to" /\ ~Paired(m) THEN BOOLEAN ELSE {TRUE})
      /\ excused' = IF known THEN excused ELSE excused \cup m.of
      /\ UNCHANGED <<kernelVars, overrun, partitions, recache, cacher, handler, index, bounds, reported, stale>>
  BY DEF ReceiveEvent
<1>2. /\ outbox \in [Thread -> Seq(FileMsg)] /\ socket \in Seq(Msgs)
      /\ Honest(Sent(outbox, socket), rename_from, reported, cookie) /\ Apart(outbox, socket)
  BY DEF IInv, Types, Msgs
<1>3. m \in Sent(outbox, socket) /\ Sent(outbox, Tail(socket)) \subseteq Sent(outbox, socket) /\ Apart(outbox, Tail(socket))
  BY <1>1, <1>2, MessageReceived
<1>4. m \in FileMsg /\ m.of # {}
  BY <1>1, <1>2, <1>3, HonestCookies DEF Told
<1>15. excused \subseteq excused' /\ Preceded(outbox, socket, rename_from, excused)
  BY <1>1 DEF IInv
<1>5. 1 \in DOMAIN socket /\ socket[1] = m /\ Tail(socket) \in Seq(Msgs)
  BY <1>1, <1>2, TailFacts
<1> HIDE DEF m
<1>6. Sound(Pushed(saved'), reported)
  <2>1. CASE new_msg'
    <3>1. partitions[m.dev] = Home[m.dev] /\ m.act # "rename_from" /\ saved' = Data(m) /\ reported \subseteq AnyEdit
      BY <1>1, <2>1 DEF IInv, Types
    <3> QED BY <1>1, <1>2, <1>3, <3>1, DataSound
  <2>2. CASE ~new_msg'
    BY <1>1, <2>2 DEF IInv
  <2> QED BY <2>1, <2>2
<1>7. queue' \in Seq(Edits) /\ \A e \in Range(queue') : Sound(e, reported)
  <2>1. new_msg' \in BOOLEAN
    BY <1>1
  <2> QED BY <1>1, <1>6, <2>1, PushedIInv
<1>8. Honest(Sent(outbox, socket), rename_from', reported, cookie)
  <2>1. CASE rename_from' = rename_from
    BY <1>2, <2>1
  <2>2. CASE m.act = "rename_from" /\ rename_from' = Stored(rename_from, m)
    BY <1>2, <1>3, <2>2, SourceKept
  <2>3. CASE rename_from' = Taken(rename_from, m)
    BY <1>2, <2>3, SourceTaken
  <2> QED BY <1>1, <2>1, <2>2, <2>3
<1>9. Honest(Sent(outbox, Tail(socket)), rename_from', reported, cookie)
  BY <1>3, <1>8, HonestFewer
<1>16. Preceded(outbox, Tail(socket), rename_from', excused')
  <2>5. \A k \in DOMAIN rename_from :
          k \in DOMAIN rename_from' \/ (m.act = "rename_to" /\ k = m.cookie)
    <3>1. CASE known /\ m.act = "rename_from"
      BY <1>1, <3>1 DEF Stored
    <3>2. CASE known /\ m.act # "rename_from" /\ Paired(m)
      BY <1>1, <3>2 DEF Paired, Taken
    <3>3. CASE ~known \/ (m.act # "rename_from" /\ ~Paired(m))
      BY <1>1, <3>3
    <3> QED BY <3>1, <3>2, <3>3
  <2>6. m.act = "rename_from" =>
          \/ m.cookie \in DOMAIN rename_from'
          \/ \A x \in Sent(outbox, socket) : x.act = "rename_to" /\ x.cookie = m.cookie => x.of \subseteq excused'
    <3> SUFFICES ASSUME m.act = "rename_from" PROVE
          \/ m.cookie \in DOMAIN rename_from'
          \/ \A x \in Sent(outbox, socket) : x.act = "rename_to" /\ x.cookie = m.cookie => x.of \subseteq excused'
      OBVIOUS
    <3>1. CASE known
      BY <1>1, <3>1 DEF Stored
    <3>2. CASE ~known
      <4>1. \A x \in Sent(outbox, socket) : x.act = "rename_to" /\ x.cookie = m.cookie => m.of = x.of
        BY <1>2, <1>3 DEF Honest
      <4> QED BY <1>1, <3>2, <4>1
    <3> QED BY <3>1, <3>2
  <2> QED BY <1>1, <1>2, <1>15, <2>5, <2>6, PrecededReceived DEF m
<1>11. Types'
  <2>1. socket' \in Seq(FileMsg \cup {MountMsg})
    BY <1>1, <1>5 DEF Msgs
  <2>2. alive' \in BOOLEAN /\ new_msg' \in BOOLEAN
    BY <1>1
  <2> QED BY <1>1, <1>7, <2>1, <2>2 DEF IInv, Types, kernelVars
<1>12. Handling'
  BY <1>1 DEF IInv, Handling
<1>13. (\A e \in Range(queue) \cup Range(handler.tmpActions) : Sound(e, reported))'
  BY <1>1, <1>7 DEF IInv
<1>14. Sound(Pushed(saved), reported)'
  BY <1>1, <1>6
<1> QED BY <1>1, <1>3, <1>9, <1>11, <1>12, <1>13, <1>14, <1>16 DEF IInv, kernelVars

LEMMA UpdateIInv ==
  ASSUME IInv, UpdateMountPoints
  PROVE  IInv'
<1>1. /\ recache' = FALSE /\ cacher' = Dlnfs \cap mounted
      /\ UNCHANGED <<kernelVars, netVars, sourceVars, queue, handler, index, bounds, history>>
  BY DEF UpdateMountPoints
<1>2. Types'
  BY <1>1 DEF IInv, Types, kernelVars, netVars, sourceVars, history
<1>3. Handling'
  BY <1>1 DEF IInv, Handling
<1> QED BY <1>1, <1>2, <1>3 DEF IInv, kernelVars, netVars, sourceVars, history

LEMMA RestingFacts ==
  /\ Resting \in HandlerState /\ ~Resting.runs /\ Resting.tmpActions = <<>>
  /\ Resting.event_count = 0 /\ Resting.more /\ Resting.last = NoEdit
<1>1. NoEdit \in Edits /\ <<>> \in Seq(Edits) /\ 0 \in Nat
  BY NoEditSound
<1> QED BY <1>1 DEF Resting, HandlerState

LEMMA StartIInv ==
  ASSUME IInv, HandlerStart
  PROVE  IInv'
<1>1. /\ handler' = [Resting EXCEPT !.runs = TRUE]
      /\ UNCHANGED <<kernelVars, netVars, sourceVars, recache, cacher, queue, index, bounds, history>>
  BY DEF HandlerStart
<1>2. /\ handler' \in HandlerState /\ handler'.runs /\ handler'.tmpActions = <<>>
      /\ handler'.event_count = 0 /\ handler'.last = NoEdit
  <2> DEFINE h == Resting
  <2>1. h \in HandlerState /\ h.tmpActions = <<>> /\ h.event_count = 0 /\ h.last = NoEdit
    BY RestingFacts
  <2> HIDE DEF h
  <2>2. handler' = [h EXCEPT !.runs = TRUE]
    BY <1>1 DEF h
  <2> QED BY <2>1, <2>2 DEF HandlerState
<1>3. Types'
  BY <1>1, <1>2 DEF IInv, Types, kernelVars, netVars, sourceVars, history
<1>4. Handling'
  <2>1. Cap \in Nat /\ Len(<<>>) = 0 /\ NoEdit.twin = "single"
    BY PipelineAssumptions, NoEditSound
  <2> QED BY <1>2, <2>1 DEF Handling
<1>5. Range(handler'.tmpActions) = {}
  BY <1>2 DEF Range
<1>6. (\A e \in Range(queue) \cup Range(handler.tmpActions) : Sound(e, reported))'
  BY <1>1, <1>5 DEF IInv, history
<1> QED BY <1>1, <1>3, <1>4, <1>6 DEF IInv, kernelVars, netVars, sourceVars, history

LEMMA EndIInv ==
  ASSUME IInv, HandlerEnd
  PROVE  IInv'
<1>1. /\ index' = ApplyAll(index, handler.tmpActions) /\ handler' = Resting
      /\ UNCHANGED <<kernelVars, netVars, sourceVars, recache, cacher, queue, bounds, history>>
  BY DEF HandlerEnd
<1>2. index' \subseteq Files
  <2>1. index \subseteq Files /\ handler.tmpActions \in Seq(Edits)
    BY DEF IInv, Types, HandlerState
  <2> QED BY <1>1, <2>1, ApplyAllInFiles
<1>3. Types'
  BY <1>1, <1>2, RestingFacts DEF IInv, Types, kernelVars, netVars, sourceVars, history
<1>4. Handling'
  <2>1. Cap \in Nat /\ Len(<<>>) = 0 /\ NoEdit.twin = "single"
    BY PipelineAssumptions, NoEditSound
  <2> QED BY <1>1, <2>1, RestingFacts DEF Handling
<1>5. Range(handler'.tmpActions) = {}
  BY <1>1, RestingFacts DEF Range
<1>6. (\A e \in Range(queue) \cup Range(handler.tmpActions) : Sound(e, reported))'
  BY <1>1, <1>5 DEF IInv, history
<1> QED BY <1>1, <1>3, <1>4, <1>6 DEF IInv, kernelVars, netVars, sourceVars, history

LEMMA PopFacts ==
  ASSUME IInv, HandlerPop
  PROVE  LET e == Head(queue)
             ignored == IgnoreAction(Second(e), handler.ignored)
         IN /\ e \in Edits /\ Sound(e, reported) /\ queue' = Tail(queue) /\ queue' \in Seq(Edits)
            /\ Range(queue') \subseteq Range(queue)
            /\ handler.runs /\ handler.more /\ ignored \in BOOLEAN
            /\ handler'.runs /\ handler'.ignored = ignored /\ handler'.event_count = handler.event_count + 1
            /\ handler'.more = More(handler.event_count + 1) /\ handler'.last = e
            /\ handler'.tmpActions = IF ignored THEN handler.tmpActions ELSE Append(handler.tmpActions, e)
            /\ handler' \in HandlerState
<1> DEFINE e == Head(queue)
           ignored == IgnoreAction(Second(e), handler.ignored)
           count == handler.event_count + 1
           acts == IF ignored THEN handler.tmpActions ELSE Append(handler.tmpActions, e)
<1>1. /\ queue # <<>> /\ queue' = Tail(queue) /\ handler.runs /\ handler.more
      /\ handler' = [handler EXCEPT !.ignored = ignored, !.event_count = count, !.more = More(count),
                       !.last = e, !.tmpActions = acts]
  BY DEF HandlerPop, Kept
<1>2. queue \in Seq(Edits) /\ handler \in HandlerState
  BY DEF IInv, Types
<1>3. /\ e \in Edits /\ Tail(queue) \in Seq(Edits) /\ 1 \in DOMAIN queue /\ queue[1] = e
      /\ \A i \in DOMAIN Tail(queue) : i + 1 \in DOMAIN queue /\ Tail(queue)[i] = queue[i + 1]
  BY <1>1, <1>2, TailFacts
<1>4. e \in Range(queue) /\ Range(Tail(queue)) \subseteq Range(queue)
  BY <1>3 DEF Range
<1>5. Sound(e, reported)
  BY <1>4 DEF IInv
<1>6. ignored \in BOOLEAN
  BY DEF IgnoreAction
<1>7. acts \in Seq(Edits)
  BY <1>2, <1>3, AppendFacts DEF HandlerState
<1>8. count \in Nat /\ More(count) \in BOOLEAN
  BY <1>2 DEF HandlerState, More
<1> HIDE DEF e, ignored, count, acts
<1>9. /\ handler'.runs = handler.runs /\ handler'.ignored = ignored /\ handler'.event_count = count
      /\ handler'.more = More(count) /\ handler'.last = e /\ handler'.tmpActions = acts
      /\ handler' \in HandlerState
  BY <1>1, <1>2, <1>3, <1>6, <1>7, <1>8 DEF HandlerState
<1> QED BY <1>1, <1>3, <1>4, <1>5, <1>6, <1>9 DEF e, ignored, count, acts

LEMMA PopIInv ==
  ASSUME IInv, HandlerPop
  PROVE  IInv'
<1> DEFINE e == Head(queue)
           ignored == IgnoreAction(Second(e), handler.ignored)
<1>1. /\ e \in Edits /\ Sound(e, reported) /\ queue' \in Seq(Edits)
      /\ Range(queue') \subseteq Range(queue) /\ handler.runs /\ handler.more /\ ignored \in BOOLEAN
      /\ handler'.runs /\ handler'.ignored = ignored /\ handler'.event_count = handler.event_count + 1
      /\ handler'.more = More(handler.event_count + 1) /\ handler'.last = e
      /\ handler'.tmpActions = IF ignored THEN handler.tmpActions ELSE Append(handler.tmpActions, e)
      /\ handler' \in HandlerState
  BY PopFacts
<1>2. /\ excused \subseteq excused'
      /\ UNCHANGED <<kernelVars, netVars, sourceVars, recache, cacher, index, bounds, reported, stale>>
  BY DEF HandlerPop
<1> HIDE DEF e, ignored
<1>3. handler \in HandlerState /\ handler.tmpActions \in Seq(Edits)
  BY DEF IInv, Types, HandlerState
<1>4. /\ Append(handler.tmpActions, e) \in Seq(Edits)
      /\ Len(Append(handler.tmpActions, e)) = Len(handler.tmpActions) + 1 /\ Len(handler.tmpActions) \in Nat
      /\ Range(Append(handler.tmpActions, e)) = Range(handler.tmpActions) \cup {e}
  BY <1>1, <1>3, AppendFacts
<1>5. Types'
  BY <1>1, <1>2 DEF IInv, Types, kernelVars, netVars, sourceVars
<1>6. Handling'
  <2>1. handler.event_count \in Nat /\ Cap \in Nat
    BY <1>3, PipelineAssumptions DEF HandlerState
  <2>2. handler.event_count <= Cap /\ Len(handler.tmpActions) <= handler.event_count
    BY <1>1 DEF IInv, Handling
  <2>3. handler'.more => handler'.event_count <= Cap
    BY <1>1 DEF More
  <2>4. handler'.event_count <= Cap + 1
    BY <1>1, <2>1, <2>2
  <2>5. Len(handler'.tmpActions) <= handler'.event_count
    BY <1>1, <1>4, <2>1, <2>2
  <2>6. ~handler'.ignored => handler'.last \in Range(handler'.tmpActions)
    BY <1>1, <1>4
  <2> QED BY <1>1, <2>3, <2>4, <2>5, <2>6 DEF Handling
<1>7. (\A x \in Range(queue) \cup Range(handler.tmpActions) : Sound(x, reported))'
  <2>1. Range(handler'.tmpActions) \subseteq Range(handler.tmpActions) \cup {e}
    BY <1>1, <1>4
  <2> QED BY <1>1, <1>2, <2>1 DEF IInv
<1>9. Preceded(outbox, socket, rename_from, excused')
  <2>1. Preceded(outbox, socket, rename_from, excused)
    BY DEF IInv
  <2>2. \A x : x \subseteq excused => x \subseteq excused'
    BY <1>2
  <2> QED BY <2>1, <2>2 DEF Preceded
<1> QED BY <1>2, <1>5, <1>6, <1>7, <1>9 DEF IInv, kernelVars, netVars, sourceVars

LEMMA NextIInv ==
  ASSUME IInv, [Next]_vars
  PROVE  IInv'
<1>1. ASSUME NEW t \in Thread, Operate(t) PROVE IInv'
  BY <1>1, OperateIInv
<1>2. ASSUME NEW d \in Dev \cup Dlnfs, Mount(d) PROVE IInv'
  BY <1>2, MountIInv DEF Device
<1>3. CASE SendMount
  BY <1>3, SendMountIInv
<1>4. ASSUME NEW t \in Thread, SendEvent(t) PROVE IInv'
  BY <1>4, SendIInv
<1>5. CASE ReceiveError
  BY <1>5, ReceiveErrorIInv
<1>6. CASE ReceiveMount
  BY <1>6, ReceiveMountIInv
<1>13. CASE ReceiveMountUnread
  BY <1>13, ReceiveMountUnreadIInv
<1>7. CASE ReceiveEvent
  BY <1>7, ReceiveEventIInv
<1>8. CASE UpdateMountPoints
  BY <1>8, UpdateIInv
<1>9. CASE HandlerStart
  BY <1>9, StartIInv
<1>10. CASE HandlerPop
  BY <1>10, PopIInv
<1>11. CASE HandlerEnd
  BY <1>11, EndIInv
<1>12. CASE UNCHANGED vars
  <2>1. UNCHANGED <<kernelVars, netVars, sourceVars, mainVars, bounds, history>>
    BY <1>12 DEF vars
  <2>2. Types'
    BY <2>1 DEF IInv, Types, kernelVars, netVars, sourceVars, mainVars, history
  <2>3. Handling'
    BY <2>1 DEF IInv, Handling, mainVars
  <2> QED BY <2>1, <2>2, <2>3 DEF IInv, kernelVars, netVars, sourceVars, mainVars, history
<1> QED
  BY <1>1, <1>2, <1>3, <1>4, <1>5, <1>6, <1>7, <1>8, <1>9, <1>10, <1>11, <1>12, <1>13
  DEF Next, Kernel, Receive, Handle

(* What is on its way from the kernel to the index, at every stage at      *)
(* once: the messages not sent, those in the socket, the sources waiting   *)
(* for their destinations, the data saved last, the queue and the batch.   *)
THEOREM PipelineInvariance == Spec => []IInv
<1>1. Init => IInv
  BY InitIInv
<1>2. IInv /\ [Next]_vars => IInv'
  BY NextIInv
<1> QED BY <1>1, <1>2, PTL DEF Spec

(* The variables of the code keep their types; in particular the batch of  *)
(* onHandleEvent stays within its cap, and only files of the disk get into *)
(* the index.                                                              *)
THEOREM PipelineTypes == Spec => []TypeOK
<1>1. IInv => TypeOK
  <2> SUFFICES ASSUME IInv PROVE TypeOK
    OBVIOUS
  <2>1. \A i \in DOMAIN queue : Plain(queue[i]) \in AnyEdit
    <3>1. \A i \in DOMAIN queue : queue[i] \in Edits
      BY LenProperties, ElementOfSeq DEF IInv, Types
    <3> QED BY <3>1, EditForm
  <2> QED BY <2>1 DEF IInv, Types, Handling, TypeOK, Device
<1> QED BY <1>1, PipelineInvariance, PTL

(* Messages lost, events filtered or delivered twice, a table of mounts    *)
(* out of date: no edit reaches the index that no operation asked for.     *)
THEOREM NothingForged == Spec => []NoForgery
<1>1. IInv => NoForgery
  BY DEF IInv, NoForgery, Sound
<1> QED BY <1>1, PipelineInvariance, PTL

(* Of two events of one operation in a dlnfs that are popped one after the *)
(* other, ignoreAction lets one pass.                                      *)
THEOREM OnePasses == Spec => OneOfTwo
<1> DEFINE e == Head(queue)
           OneKept == HandlerPop /\ e.twin = "second" /\ handler.last = [e EXCEPT !.twin = "first"]
             => e \in Range(handler'.tmpActions) \/ handler.last \in Range(handler.tmpActions)
<1>1. ASSUME IInv, HandlerPop, e.twin = "second", handler.last = [e EXCEPT !.twin = "first"]
      PROVE  e \in Range(handler'.tmpActions) \/ handler.last \in Range(handler.tmpActions)
  <2> DEFINE ignored == IgnoreAction(Second(e), handler.ignored)
  <2>1. /\ e \in Edits /\ Sound(e, reported)
        /\ handler'.tmpActions = IF ignored THEN handler.tmpActions ELSE Append(handler.tmpActions, e)
    BY <1>1, PopFacts
  <2>2. CASE ~ignored
    <3>1. handler.tmpActions \in Seq(Edits)
      BY <1>1 DEF IInv, Types, HandlerState
    <3>2. Range(Append(handler.tmpActions, e)) = Range(handler.tmpActions) \cup {e}
      BY <2>1, <3>1, AppendFacts
    <3> QED BY <2>1, <2>2, <3>2
  <2>3. CASE ignored
    <3>1. Second(e) \notin Record
      BY <1>1, <2>1 DEF Sound
    <3>2. ~handler.ignored
      BY <2>3, <3>1 DEF IgnoreAction
    <3>3. handler.last.twin = "first"
      <4>1. [e EXCEPT !.twin = "first"].twin = "first"
        BY <2>1, EditForm
      <4> QED BY <1>1, <4>1
    <3> QED BY <1>1, <3>2, <3>3 DEF IInv, Handling
  <2> QED BY <2>2, <2>3
<1>2. IInv => [OneKept]_vars
  BY <1>1
<1> QED BY <1>2, PipelineInvariance, PTL DEF OneOfTwo

-----------------------------------------------------------------------------
(* The three copies of the table of mounts                                 *)

LEMMA TablesUnchanged ==
  ASSUME TablesCurrent, UNCHANGED <<mounted, unnamed, partitions, recache, cacher>>,
         work' = 0 /\ MountMsg \notin Range(socket') /\ ~stale' =>
           work = 0 /\ MountMsg \notin Range(socket) /\ ~stale
  PROVE  TablesCurrent'
BY DEF TablesCurrent, MountTable

LEMMA TablesSent ==
  ASSUME IInv, TablesCurrent, NEW m \in Msgs, Multicast(m), work \in Nat,
         UNCHANGED <<mounted, unnamed, partitions, recache, cacher>>,
         \/ m.act # "mount" /\ work' = work
         \/ m = MountMsg /\ work > 0 /\ work' = work - 1
  PROVE  TablesCurrent'
<1>1. socket \in Seq(Msgs) /\ MountMsg.act = "mount"
  BY DEF IInv, Types, Msgs, MountMsg
<1>2. Range(Append(socket, m)) = Range(socket) \cup {m}
  BY <1>1, AppendFacts
<1>3. CASE socket' = Append(socket, m) /\ stale' = stale
  <2>1. work' = 0 /\ MountMsg \notin Range(socket') => work = 0 /\ MountMsg \notin Range(socket)
    BY <1>1, <1>2, <1>3
  <2> QED BY <1>3, <2>1, TablesUnchanged
<1>4. CASE socket' = socket /\ stale' = (stale \/ m.act = "mount")
  <2>1. ~stale' => ~stale /\ work' = work
    BY <1>1, <1>4
  <2> QED BY <1>4, <2>1, TablesUnchanged
<1> QED BY <1>3, <1>4 DEF Multicast

LEMMA TablesReceived ==
  ASSUME IInv, TablesCurrent, ReceiveEvent
  PROVE  TablesCurrent'
<1>1. /\ socket # <<>> /\ Head(socket).act # "mount" /\ socket' = Tail(socket)
      /\ UNCHANGED <<kernelVars, partitions, recache, cacher, stale>>
  BY DEF ReceiveEvent
<1>2. socket \in Seq(Msgs) /\ MountMsg.act = "mount"
  BY DEF IInv, Types, Msgs, MountMsg
<1>3. /\ 1 \in DOMAIN socket /\ socket[1] = Head(socket)
      /\ \A j \in DOMAIN socket : j # 1 => j - 1 \in DOMAIN Tail(socket) /\ Tail(socket)[j - 1] = socket[j]
  BY <1>1, <1>2, TailFacts
<1>4. Range(socket) \subseteq Range(Tail(socket)) \cup {Head(socket)}
  BY <1>3 DEF Range
<1>5. MountMsg \notin Range(socket') => MountMsg \notin Range(socket)
  BY <1>1, <1>2, <1>4
<1>6. UNCHANGED <<work, mounted, unnamed, partitions, recache, cacher, stale>>
  BY <1>1 DEF kernelVars
<1> QED BY <1>5, <1>6, TablesUnchanged

LEMMA NextTables ==
  ASSUME IInv, TablesCurrent, [Next]_vars
  PROVE  TablesCurrent'
<1>1. work \in Nat
  BY DEF IInv, Types
<1>2. ASSUME NEW t \in Thread, Operate(t) PROVE TablesCurrent'
  <2>1. UNCHANGED <<mounted, unnamed, partitions, recache, cacher, work, socket, stale>>
    BY <1>2 DEF Operate, Create, Delete, Rename, Report, netVars, sourceVars, mainVars
  <2> QED BY <2>1, TablesUnchanged
<1>3. ASSUME NEW d \in Dev \cup Dlnfs, Mount(d) PROVE TablesCurrent'
  <2>1. work' # 0
    BY <1>1, <1>3 DEF Mount
  <2> QED BY <2>1 DEF TablesCurrent
<1>4. CASE SendMount
  <2>1. MountMsg \in Msgs
    BY DEF Msgs
  <2>2. /\ Multicast(MountMsg) /\ work > 0 /\ work' = work - 1
        /\ UNCHANGED <<mounted, unnamed, partitions, recache, cacher>>
    BY <1>4 DEF SendMount, sourceVars, mainVars
  <2> QED BY <1>1, <2>1, <2>2, TablesSent
<1>5. ASSUME NEW t \in Thread, SendEvent(t) PROVE TablesCurrent'
  <2> DEFINE m == Head(outbox[t])
  <2>1. m \in FileMsg
    <3>1. outbox[t] \in Seq(FileMsg) /\ outbox[t] # <<>>
      BY <1>5 DEF SendEvent, IInv, Types
    <3> QED BY <3>1, TailFacts
  <2>2. /\ Multicast(m) /\ work' = work
        /\ UNCHANGED <<mounted, unnamed, partitions, recache, cacher>>
    BY <1>5 DEF SendEvent, sourceVars, mainVars
  <2> HIDE DEF m
  <2>3. m \in Msgs /\ m.act # "mount"
    BY <2>1 DEF Msgs, FileMsg
  <2> QED BY <1>1, <2>2, <2>3, TablesSent
<1>6. CASE ReceiveError
  BY <1>6, TablesUnchanged DEF ReceiveError, kernelVars, sourceVars, history
<1>7. CASE ReceiveMount
  <2>1. partitions' = MountTable /\ mounted' = mounted /\ recache' = TRUE /\ unnamed' = Updated(unnamed, Dlnfs \cap mounted)
    BY <1>7 DEF ReceiveMount
  <2>2. Updated(unnamed, Dlnfs \cap mounted) = Dlnfs \cap mounted
    BY DEF Updated, Store
  <2> QED BY <2>1, <2>2 DEF TablesCurrent, MountTable
<1>8. CASE ReceiveEvent
  BY <1>8, TablesReceived
<1>9. CASE UpdateMountPoints
  <2>1. cacher' = Dlnfs \cap mounted' /\ UNCHANGED <<mounted, unnamed, partitions, work, socket, stale>>
    BY <1>9 DEF UpdateMountPoints, kernelVars, netVars, sourceVars, history
  <2> QED BY <2>1 DEF TablesCurrent, MountTable
<1>10. CASE HandlerStart \/ HandlerEnd
  <2>1. UNCHANGED <<mounted, unnamed, partitions, recache, cacher, work, socket, stale>>
    BY <1>10 DEF HandlerStart, HandlerEnd, kernelVars, netVars, sourceVars, history
  <2> QED BY <2>1, TablesUnchanged
<1>11. CASE HandlerPop
  <2>1. UNCHANGED <<mounted, unnamed, partitions, recache, cacher, work, socket, stale>>
    BY <1>11 DEF HandlerPop, kernelVars, netVars, sourceVars
  <2> QED BY <2>1, TablesUnchanged
<1>12. CASE UNCHANGED vars
  BY <1>12, TablesUnchanged DEF vars, kernelVars, netVars, sourceVars, mainVars, history
<1>13. CASE ReceiveMountUnread
  BY <1>13 DEF ReceiveMountUnread, TablesCurrent
<1> QED
  BY <1>2, <1>3, <1>4, <1>5, <1>6, <1>7, <1>8, <1>9, <1>10, <1>11, <1>12, <1>13
  DEF Next, Kernel, Receive, Handle

(* updatePartitions, update_vfs_unnamed_device and updateMountPoints read  *)
(* the mounts at three times; after the message of the last mount all of   *)
(* them have what is mounted.                                              *)
THEOREM TablesAgree == Spec => []TablesCurrent
<1>1. Init => TablesCurrent
  BY DEF Init, TablesCurrent
<1>2. IInv /\ TablesCurrent /\ [Next]_vars => TablesCurrent'
  BY NextTables
<1> QED BY <1>1, <1>2, PipelineInvariance, PTL DEF Spec

-----------------------------------------------------------------------------
(* The queue and its handler implement Feed                                *)

LEMMA AppendRight ==
  ASSUME NEW S, NEW s \in Seq(S), NEW q \in Seq(S), NEW e \in S
  PROVE  s \o Append(q, e) = Append(s \o q, e)
<1>1. Append(q, e) = q \o <<e>> /\ <<e>> \in Seq(S)
  BY AppendIsConcat
<1>2. s \o (q \o <<e>>) = (s \o q) \o <<e>>
  BY <1>1, ConcatAssociative
<1>3. s \o q \in Seq(S)
  BY ConcatProperties
<1>4. Append(s \o q, e) = (s \o q) \o <<e>>
  BY <1>3, AppendIsConcat
<1> QED BY <1>1, <1>2, <1>4

LEMMA PushIsPublish ==
  ASSUME IInv, NEW n \in BOOLEAN, NEW d, Sound(Pushed(d), reported), PushEvent(n, d),
         UNCHANGED <<handler, index>>
  PROVE  [F!Next]_(F!vars)
<1>1. queue \in Seq(Edits) /\ handler.tmpActions \in Seq(Edits)
  BY DEF IInv, Types, HandlerState
<1>2. CASE n
  <2> DEFINE e == Pushed(d)
  <2>1. e \in Edits /\ queue' = Append(queue, e)
    BY <1>2 DEF Sound, PushEvent
  <2> HIDE DEF e
  <2>2. Waiting' = Append(Waiting, e)
    <3>1. handler.tmpActions \o Append(queue, e) = Append(handler.tmpActions \o queue, e)
      <4>1. \A s, q \in Seq(Edits), x \in Edits : s \o Append(q, x) = Append(s \o q, x)
        BY AppendRight
      <4> QED BY <1>1, <2>1, <4>1
    <3>2. handler' = handler
      OBVIOUS
    <3> QED BY <2>1, <3>1, <3>2 DEF Waiting
  <2>3. F!Publish
    BY <2>1, <2>2 DEF F!Publish
  <2> QED BY <2>3 DEF F!Next
<1>3. CASE ~n
  <2>1. Waiting' = Waiting
    BY <1>3 DEF PushEvent, Waiting
  <2> QED BY <2>1 DEF F!vars
<1> QED BY <1>2, <1>3

LEMMA KeepFirst ==
  ASSUME NEW S, NEW s \in Seq(S), NEW q \in Seq(S), q # <<>>
  PROVE  Append(s, Head(q)) \o Tail(q) = s \o q
<1>1. Head(q) \in S /\ Tail(q) \in Seq(S)
  BY HeadTailProperties
<1>2. q = <<Head(q)>> \o Tail(q)
  <2>1. Len(q) \in Nat /\ Len(q) # 0
    BY EmptySeq, LenProperties
  <2>2. 1 \in 1 .. Len(q) /\ Len(q) \in 1 .. Len(q) /\ q[1] = Head(q)
    BY <2>1
  <2>3. SubSeq(q, 1, Len(q)) = <<q[1]>> \o SubSeq(q, 1 + 1, Len(q))
    BY <2>1, <2>2, SubSeqRecursiveFirst
  <2>4. SubSeq(q, 1, Len(q)) = q /\ Tail(q) = SubSeq(q, 2, Len(q)) /\ 1 + 1 = 2
    BY SubSeqFull, TailIsSubSeq
  <2> QED BY <2>2, <2>3, <2>4
<1>3. <<Head(q)>> \in Seq(S) /\ Append(s, Head(q)) = s \o <<Head(q)>>
  BY <1>1, AppendIsConcat
<1>4. (s \o <<Head(q)>>) \o Tail(q) = s \o (<<Head(q)>> \o Tail(q))
  BY <1>1, <1>3, ConcatAssociative
<1> QED BY <1>2, <1>3, <1>4

LEMMA DropFirst ==
  ASSUME NEW S, NEW s \in Seq(S), NEW q \in Seq(S), q # <<>>
  PROVE  /\ Len(s) + 1 \in DOMAIN (s \o q) /\ (s \o q)[Len(s) + 1] = Head(q)
         /\ RemoveAt(s \o q, Len(s) + 1) = s \o Tail(q)
<1> DEFINE i == Len(s) + 1
           w == s \o q
<1>1. Len(s) \in Nat /\ Len(q) \in Nat /\ Len(q) # 0
  BY EmptySeq, LenProperties
<1>2. w \in Seq(S) /\ Len(w) = Len(s) + Len(q) /\ DOMAIN w = 1 .. Len(s) + Len(q)
  BY ConcatProperties, LenProperties
<1>3. \A j \in 1 .. Len(s) + Len(q) : w[j] = IF j <= Len(s) THEN s[j] ELSE q[j - Len(s)]
  BY ConcatProperties
<1>4. i \in DOMAIN w /\ w[i] = Head(q)
  <2>1. i \in 1 .. Len(s) + Len(q) /\ ~(i <= Len(s)) /\ i - Len(s) = 1
    BY <1>1
  <2>2. w[i] = q[1]
    BY <1>3, <2>1
  <2> HIDE DEF w, i
  <2> QED BY <1>2, <2>1, <2>2
<1>5. SubSeq(w, 1, i - 1) = s
  <2>1. i - 1 = Len(s)
    BY <1>1
  <2>2. CASE s = <<>>
    <3>1. Len(s) = 0
      BY <2>2
    <3> HIDE DEF w
    <3>2. SubSeq(w, 1, 0) = <<>>
      BY SubSeqEmpty
    <3> QED BY <2>1, <2>2, <3>1, <3>2
  <2>3. CASE s # <<>>
    <3>1. 1 \in 1 .. Len(s) /\ Len(s) \in 1 .. Len(s)
      <4>1. Len(s) \in Nat \ {0}
        BY <2>3, EmptySeq
      <4> HIDE DEF w, i
      <4> QED BY <4>1
    <3>2. SubSeq(w, 1, Len(s)) = SubSeq(s, 1, Len(s))
      BY <3>1, SubSeqOfConcat1
    <3> QED BY <2>1, <3>2, SubSeqFull
  <2> QED BY <2>2, <2>3
<1>6. SubSeq(w, i + 1, Len(w)) = Tail(q)
  <2>1. Tail(q) = SubSeq(q, 2, Len(q))
    BY TailIsSubSeq
  <2>2. CASE Len(q) = 1
    <3>1. SubSeq(q, 2, Len(q)) = <<>>
      BY <2>2, SubSeqEmpty
    <3>2. i + 1 \in Int /\ Len(w) \in Int /\ Len(w) < i + 1
      BY <1>1, <1>2, <2>2
    <3> HIDE DEF w, i
    <3>3. SubSeq(w, i + 1, Len(w)) = <<>>
      BY <3>2, SubSeqEmpty
    <3> QED BY <2>1, <3>1, <3>3
  <2>3. CASE Len(q) # 1
    <3> DEFINE a == i + 1
               b == Len(w)
    <3>1. /\ a \in Len(s) + 1 .. Len(s) + Len(q) /\ b \in Len(s) + 1 .. Len(s) + Len(q)
          /\ a - Len(s) = 2 /\ b - Len(s) = Len(q)
      <4>1. b = Len(s) + Len(q) /\ a = Len(s) + 1 + 1
        BY <1>2
      <4> HIDE DEF a, b
      <4>2. \A x, y \in Nat : y # 0 /\ y # 1 => x + 1 + 1 \in x + 1 .. x + y
        OBVIOUS
      <4>3. \A x, y \in Nat : y # 0 => x + y \in x + 1 .. x + y
        OBVIOUS
      <4>4. \A x, y \in Nat : x + 1 + 1 - x = 2 /\ x + y - x = y
        OBVIOUS
      <4>5. Len(s) + 1 + 1 \in Len(s) + 1 .. Len(s) + Len(q)
        BY <1>1, <2>3, <4>2
      <4>6. Len(s) + Len(q) \in Len(s) + 1 .. Len(s) + Len(q)
        BY <1>1, <4>3
      <4>7. Len(s) + 1 + 1 - Len(s) = 2 /\ Len(s) + Len(q) - Len(s) = Len(q)
        BY <1>1, <4>4
      <4> QED BY <4>1, <4>5, <4>6, <4>7
    <3> HIDE DEF a, b
    <3>2. SubSeq(w, a, b) = SubSeq(q, a - Len(s), b - Len(s))
      BY <3>1, SubSeqOfConcat2
    <3> QED BY <2>1, <3>1, <3>2 DEF a, b
  <2> QED BY <2>2, <2>3
<1> HIDE DEF w, i
<1>7. RemoveAt(w, i) = s \o Tail(q)
  BY <1>5, <1>6 DEF RemoveAt
<1> QED BY <1>4, <1>7 DEF w, i

LEMMA SplitAt ==
  ASSUME NEW S, NEW s \in Seq(S), NEW q \in Seq(S), s # <<>>
  PROVE  LET w == s \o q
         IN /\ Len(s) \in 1 .. Len(w) /\ SubSeq(w, 1, Len(s)) = s
            /\ SubSeq(w, Len(s) + 1, Len(w)) = q
<1> DEFINE w == s \o q
<1>1. Len(s) \in Nat /\ Len(q) \in Nat /\ Len(s) # 0
  BY EmptySeq, LenProperties
<1>2. Len(w) = Len(s) + Len(q)
  BY ConcatProperties
<1>3. SubSeq(w, 1, Len(s)) = s
  <2>1. 1 \in 1 .. Len(s) /\ Len(s) \in 1 .. Len(s)
    BY <1>1
  <2>2. SubSeq(w, 1, Len(s)) = SubSeq(s, 1, Len(s))
    BY <2>1, SubSeqOfConcat1
  <2> QED BY <2>2, SubSeqFull
<1>4. SubSeq(w, Len(s) + 1, Len(w)) = q
  <2>1. CASE q = <<>>
    <3>1. Len(q) = 0 /\ Len(w) < Len(s) + 1
      BY <1>1, <1>2, <2>1
    <3>2. Len(w) \in Int /\ Len(s) + 1 \in Int
      BY <1>1, <1>2
    <3> HIDE DEF w
    <3>3. SubSeq(w, Len(s) + 1, Len(w)) = <<>>
      BY <3>1, <3>2, SubSeqEmpty
    <3> QED BY <2>1, <3>3
  <2>2. CASE q # <<>>
    <3>1. Len(q) # 0
      BY <2>2, EmptySeq
    <3>2. /\ Len(s) + 1 \in Len(s) + 1 .. Len(s) + Len(q) /\ Len(w) \in Len(s) + 1 .. Len(s) + Len(q)
          /\ Len(s) + 1 - Len(s) = 1 /\ Len(w) - Len(s) = Len(q)
      BY <1>1, <1>2, <3>1
    <3>3. SubSeq(w, Len(s) + 1, Len(w)) = SubSeq(q, Len(s) + 1 - Len(s), Len(w) - Len(s))
      BY <3>2, SubSeqOfConcat2
    <3> QED BY <3>2, <3>3, SubSeqFull
  <2> QED BY <2>1, <2>2
<1> QED BY <1>1, <1>2, <1>3, <1>4

(* An event of a dlnfs or of its records is left out.                      *)
LEMMA IgnoredIsLongName ==
  ASSUME IInv, HandlerPop, IgnoreAction(Second(Head(queue)), handler.ignored)
  PROVE  Head(queue) \in LongNames
<1> DEFINE e == Head(queue)
<1>1. e \in Edits
  BY PopFacts
<1>2. cacher \subseteq Dlnfs
  BY DEF IInv, Types
<1>3. Second(e) \in Record \/ \E d \in Dlnfs : Below(d, Second(e))
  BY <1>2 DEF IgnoreAction, PathMatchType, Cover
<1> HIDE DEF e
<1>4. e \in LongNames
  BY <1>1, <1>3 DEF LongNames
<1> QED BY <1>4 DEF e

LEMMA PopImplements ==
  ASSUME IInv, HandlerPop
  PROVE  [F!Next]_(F!vars)
<1> DEFINE e == Head(queue)
           ignored == IgnoreAction(Second(e), handler.ignored)
           acts == handler.tmpActions
<1>1. /\ e \in Edits /\ queue' = Tail(queue)
      /\ handler'.tmpActions = IF ignored THEN acts ELSE Append(acts, e)
  BY PopFacts
<1>2. queue # <<>> /\ index' = index
  BY DEF HandlerPop
<1>3. queue \in Seq(Edits) /\ acts \in Seq(Edits)
  BY DEF IInv, Types, HandlerState
<1>4. ignored => e \in LongNames
  BY IgnoredIsLongName
<1>5. Waiting = acts \o queue /\ Waiting' = handler'.tmpActions \o queue'
  BY DEF Waiting
<1> HIDE DEF acts, ignored
<1>6. CASE ignored
  <2>0. \A s, q \in Seq(Edits) : q # <<>> =>
          /\ Len(s) + 1 \in DOMAIN (s \o q) /\ (s \o q)[Len(s) + 1] = Head(q)
          /\ RemoveAt(s \o q, Len(s) + 1) = s \o Tail(q)
    BY DropFirst
  <2>1. /\ Len(acts) + 1 \in DOMAIN (acts \o queue) /\ (acts \o queue)[Len(acts) + 1] = e
        /\ RemoveAt(acts \o queue, Len(acts) + 1) = acts \o Tail(queue)
    BY <1>2, <1>3, <2>0
  <2>2. Waiting' = acts \o Tail(queue)
    BY <1>1, <1>5, <1>6
  <2> HIDE DEF e
  <2>3. F!Skip
    BY <1>2, <1>4, <1>5, <1>6, <2>1, <2>2 DEF F!Skip, F!RemoveAt, RemoveAt
  <2> QED BY <2>3 DEF F!Next
<1>7. CASE ~ignored
  <2>1. Append(acts, Head(queue)) \o Tail(queue) = acts \o queue
    BY <1>2, <1>3, KeepFirst
  <2>2. Waiting' = Waiting
    BY <1>1, <1>5, <1>7, <2>1
  <2> QED BY <1>2, <2>2 DEF F!vars
<1> QED BY <1>6, <1>7

LEMMA EffectsAreApplyAll ==
  ASSUME NEW s, NEW es
  PROVE  F!Effects(s, es) = ApplyAll(s, es)
BY DEF F!Effects, ApplyAll

LEMMA EndImplements ==
  ASSUME IInv, HandlerEnd
  PROVE  [F!Next]_(F!vars)
<1> DEFINE acts == handler.tmpActions
<1>1. index' = ApplyAll(index, acts) /\ handler' = Resting /\ queue' = queue
  BY DEF HandlerEnd
<1>2. queue \in Seq(Edits) /\ acts \in Seq(Edits)
  BY DEF IInv, Types, HandlerState
<1>3. Waiting = acts \o queue /\ Waiting' = queue
  <2>1. handler'.tmpActions = <<>>
    BY <1>1, RestingFacts
  <2>2. <<>> \o queue = queue
    BY <1>2, ConcatEmptySeq
  <2> QED BY <1>1, <2>1, <2>2 DEF Waiting
<1> HIDE DEF acts
<1>4. CASE acts = <<>>
  <2>1. ApplyAll(index, acts) = index
    <3>1. PICK f : /\ f = [i \in 0 .. Len(acts) |-> IF i = 0 THEN index ELSE Apply(f[i - 1], acts[i])]
                   /\ ApplyAll(index, acts) = f[Len(acts)]
      BY <1>2, ApplyAllSteps
    <3>2. Len(acts) = 0
      BY <1>4
    <3>3. f[0] = index
      BY <3>1, <3>2
    <3> QED BY <3>1, <3>2, <3>3
  <2>2. acts \o queue = queue
    BY <1>2, <1>4, ConcatEmptySeq
  <2> QED BY <1>1, <1>3, <2>1, <2>2 DEF F!vars
<1>5. CASE acts # <<>>
  <2>1. /\ Len(acts) \in 1 .. Len(Waiting) /\ SubSeq(Waiting, 1, Len(acts)) = acts
        /\ SubSeq(Waiting, Len(acts) + 1, Len(Waiting)) = queue
    BY <1>2, <1>3, <1>5, SplitAt
  <2>2. index' = F!Effects(index, SubSeq(Waiting, 1, Len(acts)))
    BY <1>1, <2>1, EffectsAreApplyAll
  <2>3. F!Consume
    BY <1>3, <2>1, <2>2 DEF F!Consume
  <2> QED BY <2>3 DEF F!Next
<1> QED BY <1>4, <1>5

LEMMA NextImplements ==
  ASSUME IInv, [Next]_vars
  PROVE  [F!Next]_(F!vars)
<1>1. ASSUME UNCHANGED <<handler, queue, index>> PROVE UNCHANGED F!vars
  BY <1>1 DEF F!vars, Waiting
<1>2. ASSUME NEW t \in Thread, Operate(t) PROVE UNCHANGED F!vars
  BY <1>1, <1>2 DEF Operate, Create, Delete, Rename, Report, mainVars
<1>3. ASSUME NEW d \in Dev \cup Dlnfs, Mount(d) PROVE UNCHANGED F!vars
  BY <1>1, <1>3 DEF Mount, mainVars
<1>4. ASSUME NEW t \in Thread, SendEvent(t) PROVE UNCHANGED F!vars
  BY <1>1, <1>4 DEF SendEvent, mainVars
<1>5. CASE SendMount
  BY <1>1, <1>5 DEF SendMount, mainVars
<1>6. CASE ReceiveError
  <2>1. PushEvent(new_msg, saved) /\ UNCHANGED <<handler, index>>
    BY <1>6 DEF ReceiveError
  <2>2. new_msg \in BOOLEAN /\ Sound(Pushed(saved), reported)
    BY DEF IInv, Types
  <2> QED BY <2>1, <2>2, PushIsPublish
<1>7. CASE ReceiveMount \/ ReceiveMountUnread
  BY <1>1, <1>7 DEF ReceiveMount, ReceiveMountUnread
<1>8. CASE ReceiveEvent
  <2>1. PushEvent(new_msg', saved') /\ UNCHANGED <<handler, index, reported>>
    BY <1>8 DEF ReceiveEvent
  <2>2. new_msg' \in BOOLEAN /\ Sound(Pushed(saved'), reported)
    <3>1. IInv'
      BY <1>8, ReceiveEventIInv
    <3> QED BY <2>1, <3>1 DEF IInv, Types
  <2> QED BY <2>1, <2>2, PushIsPublish
<1>9. CASE UpdateMountPoints
  BY <1>1, <1>9 DEF UpdateMountPoints
<1>10. CASE HandlerStart
  <2>1. handler.tmpActions = <<>> /\ handler'.tmpActions = <<>>
    <3>1. handler = Resting /\ handler' = [Resting EXCEPT !.runs = TRUE]
      BY <1>10 DEF HandlerStart, IInv, Handling
    <3> QED BY <3>1 DEF Resting
  <2> QED BY <1>10, <2>1 DEF HandlerStart, F!vars, Waiting
<1>11. CASE HandlerPop
  BY <1>11, PopImplements
<1>12. CASE HandlerEnd
  BY <1>12, EndImplements
<1>13. CASE UNCHANGED vars
  BY <1>1, <1>13 DEF vars, mainVars
<1> QED
  BY <1>2, <1>3, <1>4, <1>5, <1>6, <1>7, <1>8, <1>9, <1>10, <1>11, <1>12, <1>13
  DEF Next, Kernel, Receive, Handle

(* From the push of Server::run to onFileChanged, edits take effect in the *)
(* order of their receipt, each once; only ignoreAction leaves any out.    *)
THEOREM QueueImplementsFeed == Spec => F!Init /\ [][F!Next]_(F!vars)
<1>1. Init => F!Init
  <2> SUFFICES ASSUME Init PROVE F!Init
    OBVIOUS
  <2>1. handler = Resting /\ queue = <<>> /\ index = InitFiles
    BY DEF Init
  <2>2. Waiting = <<>>
    <3>1. <<>> \o <<>> = <<>>
      <4>1. <<>> \in Seq(Edits)
        OBVIOUS
      <4> QED BY <4>1, ConcatEmptySeq
    <3> QED BY <2>1, <3>1, RestingFacts DEF Waiting
  <2> QED BY <2>1, <2>2 DEF F!Init
<1>2. IInv /\ [Next]_vars => [F!Next]_(F!vars)
  BY NextImplements
<1> QED BY <1>1, <1>2, PipelineInvariance, PTL DEF Spec

-----------------------------------------------------------------------------
(* What is still to come for a file                                        *)

(* What an edit names, and what exists after it.                           *)
Names(e, p) == p \in {e.src, e.dst}
Makes(e, p) == (e.kind = "insert" /\ p = e.src) \/ (e.kind = "rename" /\ p = e.dst)

(* Whether the first n edits of w, applied to the files in d, leave p      *)
(* there.  A rename counts as if its source were there.                    *)
Has(d, w, n, p) ==
  \/ p \in d /\ \A k \in 1 .. n : ~ Names(w[k], p)
  \/ \E k \in 1 .. n : Makes(w[k], p) /\ \A l \in 1 .. n : k < l => ~ Names(w[l], p)

(* The edits of w bring the index d in line with the files in f at p.      *)
Leads(d, w, p, f) == p \in f <=> Has(d, w, Len(w), p)

(* When a rename in w comes to be handled its source is there, or it is    *)
(* handled for the second time.                                            *)
Sources(d, w, i) == Has(d, w, i - 1, w[i].src) \/ Has(d, w, i - 1, w[i].dst)

(* A rename of p that must find its source.                                *)
Renames(e, p, E) == e.kind = "rename" /\ Names(e, p) /\ e.src \notin E /\ e.dst \notin E

Sourced(d, w, p, E) == \A i \in DOMAIN w : Renames(w[i], p, E) => Sources(d, w, i)

(* The first of the two events of an operation in a dlnfs is followed by   *)
(* the second, with nothing else of this path between them.                *)
Follows(w, i, j, p) ==
  /\ i < j /\ w[j].twin = "second"
  /\ Plain(w[j]) = Plain(w[i])
  /\ \A k \in i .. j : Names(w[k], p) => Plain(w[k]) = Plain(w[i])

Seconded(w, p) ==
  \A i \in DOMAIN w : w[i].twin = "first" /\ Names(w[i], p) =>
    \E j \in DOMAIN w : Follows(w, i, j, p)

Fine(d, w, p, E, f) == Leads(d, w, p, f) /\ Sourced(d, w, p, E) /\ Seconded(w, p)

(* The edit that will come of a message if nothing is lost.                *)
Meaning(m) ==
  CASE m.act = "new"       -> EditOf("insert", Place(m), <<>>, m.twin)
    [] m.act = "delete"    -> EditOf("remove", Place(m), <<>>, m.twin)
    [] m.act = "rename_to" -> EditOf("rename", CHOOSE p \in m.of : p # Place(m), Place(m), m.twin)
    [] OTHER               -> NoEdit

Meanings(s) == [i \in 1 .. Len(s) |-> Meaning(s[i])]

(* The messages still to be sent that may name p.                          *)
Unsent(o, h, p) == IF \E t \in Thread : p \in h[t] THEN o[CHOOSE t \in Thread : p \in h[t]] ELSE <<>>

Way(q, s, r) == (q \o Meanings(s)) \o Meanings(r)

(* The queue, and the queue as an overrun may make it.                     *)
Queues(q, isNew, d) == {q} \cup IF isNew THEN {Append(q, Pushed(d))} ELSE {}

Known == ApplyAll(index, handler.tmpActions)

Ways ==
  \A q \in Queues(queue, new_msg, saved), p \in Files \ excused :
    Fine(Known, Way(q, socket, Unsent(outbox, held, p)), p, excused, files)

(* w is v with one more item, at c.                                        *)
Without(w, v, c) ==
  /\ c \in Nat /\ 1 <= c /\ c <= Len(v) + 1 /\ Len(w) = Len(v) + 1
  /\ \A k \in 1 .. c - 1 : w[k] = v[k]
  /\ \A k \in c .. Len(v) : w[k + 1] = v[k]

(* The item at c says nothing about r that the one before it does not say. *)
Idle(w, c, r) == ~ Names(w[c], r) \/ (1 < c /\ w[c] = w[c - 1])

LEMMA WithoutItems ==
  ASSUME NEW w \in Seq(Edits), NEW v \in Seq(Edits), NEW c, Without(w, v, c)
  PROVE  /\ Len(v) \in Nat /\ Len(w) = Len(v) + 1 /\ c \in 1 .. Len(w)
         /\ DOMAIN v = 1 .. Len(v) /\ DOMAIN w = 1 .. Len(v) + 1
         /\ \A k \in Nat : 1 <= k /\ k < c => w[k] = v[k]
         /\ \A k \in Nat : c <= k /\ k <= Len(v) => w[k + 1] = v[k]
         /\ \A k \in Nat : c < k /\ k <= Len(w) => k - 1 \in Nat /\ w[k] = v[k - 1]
<1>1. Len(v) \in Nat /\ Len(w) \in Nat /\ DOMAIN v = 1 .. Len(v) /\ DOMAIN w = 1 .. Len(w)
  BY LenProperties
<1>2. c \in Nat /\ 1 <= c /\ c <= Len(v) + 1 /\ Len(w) = Len(v) + 1
  BY DEF Without
<1>3. \A k \in Nat : 1 <= k /\ k < c => w[k] = v[k]
  BY <1>1, <1>2 DEF Without
<1>4. \A k \in Nat : c <= k /\ k <= Len(v) => w[k + 1] = v[k]
  BY <1>1, <1>2 DEF Without
<1>5. ASSUME NEW k \in Nat, c < k, k <= Len(w) PROVE k - 1 \in Nat /\ w[k] = v[k - 1]
  <2>1. k - 1 \in Nat /\ c <= k - 1 /\ k - 1 <= Len(v) /\ (k - 1) + 1 = k
    BY <1>1, <1>2, <1>5
  <2> QED BY <1>4, <2>1
<1> QED BY <1>1, <1>2, <1>3, <1>4, <1>5

(* Such an item changes nothing for r.                                     *)
LEMMA HasWithout ==
  ASSUME NEW w \in Seq(Edits), NEW v \in Seq(Edits), NEW c, Without(w, v, c), NEW r, Idle(w, c, r),
         NEW d, NEW n \in Nat, n <= Len(v), NEW m \in Nat, (m = n /\ n < c) \/ (m = n + 1 /\ c <= n + 1)
  PROVE  Has(d, v, n, r) <=> Has(d, w, m, r)
<1>0. Names(w[c], r) => 1 < c /\ w[c] = w[c - 1]
  BY DEF Idle
<1>1. /\ Len(v) \in Nat /\ Len(w) = Len(v) + 1 /\ c \in 1 .. Len(w) /\ c \in Nat
      /\ \A k \in Nat : 1 <= k /\ k < c => w[k] = v[k]
      /\ \A k \in Nat : c <= k /\ k <= Len(v) => w[k + 1] = v[k]
      /\ \A k \in Nat : c < k /\ k <= Len(w) => k - 1 \in Nat /\ w[k] = v[k - 1]
  BY WithoutItems
<1>2. CASE m = n /\ n < c
  <2>1. \A k \in 1 .. n : w[k] = v[k]
    BY <1>1, <1>2
  <2> QED BY <1>2, <2>1 DEF Has
<1>3. CASE m = n + 1 /\ c <= n + 1
  <2>1. ASSUME Names(w[c], r) PROVE 1 < c /\ w[c] = v[c - 1]
    <3>1. 1 < c /\ w[c] = w[c - 1]
      BY <1>0, <2>1
    <3>2. c - 1 \in Nat /\ 1 <= c - 1 /\ c - 1 < c
      BY <1>1, <3>1
    <3> QED BY <1>1, <3>1, <3>2
  <2>2. (\A k \in 1 .. n : ~ Names(v[k], r)) <=> (\A k \in 1 .. m : ~ Names(w[k], r))
    <3>1. ASSUME \A k \in 1 .. n : ~ Names(v[k], r), NEW k \in 1 .. m PROVE ~ Names(w[k], r)
      <4>1. CASE k < c
        BY <1>1, <1>3, <3>1, <4>1
      <4>2. CASE k = c
        BY <1>1, <1>3, <2>1, <3>1, <4>2
      <4>3. CASE c < k
        BY <1>1, <1>3, <3>1, <4>3
      <4> QED BY <1>1, <4>1, <4>2, <4>3
    <3>2. ASSUME \A k \in 1 .. m : ~ Names(w[k], r), NEW k \in 1 .. n PROVE ~ Names(v[k], r)
      <4>1. CASE k < c
        BY <1>1, <1>3, <3>2, <4>1
      <4>2. CASE c <= k
        <5>1. w[k + 1] = v[k] /\ k + 1 \in 1 .. m
          BY <1>1, <1>3, <4>2
        <5> QED BY <3>2, <5>1
      <4> QED BY <1>1, <4>1, <4>2
    <3> QED BY <3>1, <3>2
  <2>3. ASSUME NEW k \in 1 .. n, Makes(v[k], r), \A l \in 1 .. n : k < l => ~ Names(v[l], r)
        PROVE  \E x \in 1 .. m : Makes(w[x], r) /\ \A l \in 1 .. m : x < l => ~ Names(w[l], r)
    <3>1. ASSUME NEW l \in 1 .. m, c < l, k < l - 1 PROVE ~ Names(w[l], r)
      BY <1>1, <1>3, <2>3, <3>1
    <3>2. CASE c <= k
      <4>1. k + 1 \in 1 .. m /\ Makes(w[k + 1], r)
        BY <1>1, <1>3, <2>3, <3>2
      <4>2. ASSUME NEW l \in 1 .. m, k + 1 < l PROVE ~ Names(w[l], r)
        <5>1. c < l /\ k < l - 1
          BY <1>1, <3>2, <4>2
        <5> QED BY <3>1, <5>1
      <4> QED BY <4>1, <4>2
    <3>3. CASE k < c /\ Names(w[c], r)
      <4>1. c - 1 \in 1 .. n /\ Names(v[c - 1], r) /\ w[c] = v[c - 1]
        BY <1>1, <1>3, <2>1, <3>3
      <4>2. k = c - 1
        BY <1>1, <2>3, <3>3, <4>1
      <4>3. c \in 1 .. m /\ Makes(w[c], r)
        BY <1>1, <1>3, <2>3, <4>1, <4>2
      <4>4. \A l \in 1 .. m : c < l => ~ Names(w[l], r)
        BY <1>1, <3>1, <4>2
      <4> QED BY <4>3, <4>4
    <3>4. CASE k < c /\ ~ Names(w[c], r)
      <4>1. k \in 1 .. m /\ Makes(w[k], r)
        BY <1>1, <1>3, <2>3, <3>4
      <4>2. ASSUME NEW l \in 1 .. m, k < l PROVE ~ Names(w[l], r)
        <5>1. CASE l < c
          BY <1>1, <1>3, <2>3, <4>2, <5>1
        <5>2. CASE l = c
          BY <3>4, <5>2
        <5>3. CASE c < l
          BY <1>1, <3>1, <3>4, <5>3
        <5> QED BY <1>1, <5>1, <5>2, <5>3
      <4> QED BY <4>1, <4>2
    <3> QED BY <1>1, <3>2, <3>3, <3>4
  <2>4. ASSUME NEW k \in 1 .. m, Makes(w[k], r), \A l \in 1 .. m : k < l => ~ Names(w[l], r)
        PROVE  \E x \in 1 .. n : Makes(v[x], r) /\ \A l \in 1 .. n : x < l => ~ Names(v[l], r)
    <3>1. ASSUME NEW l \in 1 .. n, c <= l, k < l + 1 PROVE ~ Names(v[l], r)
      <4>1. l + 1 \in 1 .. m /\ w[l + 1] = v[l]
        BY <1>1, <1>3, <3>1
      <4> QED BY <2>4, <3>1, <4>1
    <3>2. CASE k < c
      <4>1. k \in 1 .. n /\ Makes(v[k], r)
        BY <1>1, <1>3, <2>4, <3>2
      <4>2. ASSUME NEW l \in 1 .. n, k < l PROVE ~ Names(v[l], r)
        <5>1. CASE l < c
          BY <1>1, <1>3, <2>4, <4>2, <5>1
        <5>2. CASE c <= l
          BY <1>1, <3>1, <3>2, <5>2
        <5> QED BY <1>1, <5>1, <5>2
      <4> QED BY <4>1, <4>2
    <3>3. CASE k = c
      <4>1. Names(w[c], r)
        BY <2>4, <3>3 DEF Makes, Names
      <4>2. c - 1 \in 1 .. n /\ Makes(v[c - 1], r)
        BY <1>1, <1>3, <2>1, <2>4, <3>3, <4>1
      <4>3. \A l \in 1 .. n : c - 1 < l => ~ Names(v[l], r)
        BY <1>1, <3>1, <3>3
      <4> QED BY <4>2, <4>3
    <3>4. CASE c < k
      <4>1. k - 1 \in 1 .. n /\ Makes(v[k - 1], r)
        BY <1>1, <1>3, <2>4, <3>4
      <4>2. ASSUME NEW l \in 1 .. n, k - 1 < l PROVE ~ Names(v[l], r)
        <5>1. c <= l /\ k < l + 1
          BY <1>1, <3>4, <4>2
        <5> QED BY <3>1, <5>1
      <4> QED BY <4>1, <4>2
    <3> QED BY <1>1, <3>2, <3>3, <3>4
  <2>5. (\E k \in 1 .. n : Makes(v[k], r) /\ \A l \in 1 .. n : k < l => ~ Names(v[l], r)) <=>
        (\E k \in 1 .. m : Makes(w[k], r) /\ \A l \in 1 .. m : k < l => ~ Names(w[l], r))
    BY <2>3, <2>4
  <2> QED BY <2>2, <2>5 DEF Has
<1> QED BY <1>2, <1>3

(* Such an item may come or go without harm if no rename of p that is yet  *)
(* to come depends on what it says.                                        *)
LEMMA LeadsWithout ==
  ASSUME NEW w \in Seq(Edits), NEW v \in Seq(Edits), NEW c, Without(w, v, c), NEW p, Idle(w, c, p),
         NEW d, NEW f
  PROVE  Leads(d, w, p, f) <=> Leads(d, v, p, f)
<1>1. Len(v) \in Nat /\ Len(w) = Len(v) + 1 /\ c \in 1 .. Len(w)
  BY WithoutItems
<1>2. Len(v) <= Len(v) /\ Len(w) \in Nat /\ Len(w) = Len(v) + 1 /\ c <= Len(v) + 1
  BY <1>1
<1>3. Has(d, v, Len(v), p) <=> Has(d, w, Len(w), p)
  BY <1>1, <1>2, HasWithout
<1> QED BY <1>3 DEF Leads

LEMMA SourcesWithout ==
  ASSUME NEW w \in Seq(Edits), NEW v \in Seq(Edits), NEW c, Without(w, v, c), NEW d,
         NEW i \in DOMAIN v, NEW k \in DOMAIN w, (k = i /\ i < c) \/ (k = i + 1 /\ c <= i),
         c < k => Idle(w, c, w[k].src) /\ Idle(w, c, w[k].dst)
  PROVE  w[k] = v[i] /\ (Sources(d, v, i) <=> Sources(d, w, k))
<1>1. /\ Len(v) \in Nat /\ Len(w) = Len(v) + 1 /\ c \in 1 .. Len(w) /\ c \in Nat
      /\ DOMAIN v = 1 .. Len(v) /\ DOMAIN w = 1 .. Len(v) + 1
      /\ \A j \in Nat : 1 <= j /\ j < c => w[j] = v[j]
      /\ \A j \in Nat : c <= j /\ j <= Len(v) => w[j + 1] = v[j]
  BY WithoutItems
<1>2. i \in Nat /\ k \in Nat /\ 1 <= i /\ i <= Len(v) /\ i - 1 \in Nat /\ i - 1 <= Len(v) /\ k - 1 \in Nat
  BY <1>1
<1>3. CASE k = i /\ i < c
  <2>1. w[k] = v[i] /\ \A j \in 1 .. i - 1 : w[j] = v[j]
    BY <1>1, <1>2, <1>3
  <2> QED BY <1>3, <2>1 DEF Sources, Has
<1>4. CASE k = i + 1 /\ c <= i
  <2>1. w[k] = v[i] /\ c < k
    BY <1>1, <1>2, <1>4
  <2>2. k - 1 = (i - 1) + 1 /\ c <= (i - 1) + 1
    BY <1>1, <1>2, <1>4
  <2>3. \A r : Idle(w, c, r) => (Has(d, v, i - 1, r) <=> Has(d, w, k - 1, r))
    BY <1>2, <2>2, HasWithout
  <2> QED BY <2>1, <2>3 DEF Sources
<1> QED BY <1>3, <1>4

LEMMA FineWith ==
  ASSUME NEW w \in Seq(Edits), NEW v \in Seq(Edits), NEW c, Without(w, v, c), NEW p, Idle(w, c, p),
         NEW d, NEW f, NEW E, Fine(d, v, p, E, f),
         \A k \in DOMAIN w : c < k /\ Renames(w[k], p, E) => Idle(w, c, w[k].src) /\ Idle(w, c, w[k].dst)
  PROVE  Fine(d, w, p, E, f)
<1>1. /\ Len(v) \in Nat /\ Len(w) = Len(v) + 1 /\ c \in 1 .. Len(w) /\ c \in Nat
      /\ DOMAIN v = 1 .. Len(v) /\ DOMAIN w = 1 .. Len(v) + 1
      /\ \A k \in Nat : 1 <= k /\ k < c => w[k] = v[k]
      /\ \A k \in Nat : c <= k /\ k <= Len(v) => w[k + 1] = v[k]
      /\ \A k \in Nat : c < k /\ k <= Len(w) => k - 1 \in Nat /\ w[k] = v[k - 1]
  BY WithoutItems
<1>2. Leads(d, w, p, f)
  BY LeadsWithout DEF Fine
<1>3. Names(w[c], p) => 1 < c /\ w[c] = w[c - 1] /\ c - 1 \in Nat /\ c - 1 \in DOMAIN v /\ w[c] = v[c - 1]
  BY <1>1 DEF Idle
<1>4. ASSUME NEW k \in DOMAIN w, Renames(w[k], p, E) PROVE Sources(d, w, k)
  <2>1. CASE k < c
    <3>1. k \in DOMAIN v /\ w[k] = v[k]
      BY <1>1, <2>1
    <3>2. Sources(d, v, k)
      BY <1>4, <3>1 DEF Fine, Sourced
    <3> QED BY <1>1, <2>1, <3>1, <3>2, SourcesWithout
  <2>2. CASE k = c
    <3>1. Names(w[c], p) /\ w[c].kind = "rename"
      BY <1>4, <2>2 DEF Renames
    <3>2. c - 1 \in 1 .. c - 1 /\ Makes(w[c - 1], w[c].dst)
      BY <1>1, <1>3, <3>1 DEF Makes
    <3>3. Has(d, w, c - 1, w[c].dst)
      BY <1>1, <3>2 DEF Has
    <3> QED BY <2>2, <3>3 DEF Sources
  <2>3. CASE c < k
    <3>1. k - 1 \in DOMAIN v /\ w[k] = v[k - 1] /\ c <= k - 1 /\ k = (k - 1) + 1
      BY <1>1, <2>3
    <3>2. Sources(d, v, k - 1)
      BY <1>4, <3>1 DEF Fine, Sourced
    <3>3. Idle(w, c, w[k].src) /\ Idle(w, c, w[k].dst)
      BY <1>4, <2>3
    <3> QED BY <3>1, <3>2, <3>3, SourcesWithout
  <2> QED BY <1>1, <2>1, <2>2, <2>3
<1>5. ASSUME NEW i \in DOMAIN v, NEW j \in DOMAIN v, Follows(v, i, j, p),
             NEW a \in DOMAIN w, NEW b \in DOMAIN w, w[a] = v[i], w[b] = v[j], a < b,
             (i < c /\ a = i) \/ (i = c - 1 /\ a = c) \/ (c <= i /\ a = i + 1),
             (j < c /\ b = j) \/ (c <= j /\ b = j + 1)
      PROVE  Follows(w, a, b, p)
  <2>1. ASSUME NEW k \in a .. b, Names(w[k], p) PROVE Plain(w[k]) = Plain(w[a])
    <3>1. \A l \in i .. j : Names(v[l], p) => Plain(v[l]) = Plain(v[i])
      BY <1>5 DEF Follows
    <3>2. CASE k < c
      <4>1. k \in i .. j /\ w[k] = v[k]
        BY <1>1, <1>5, <2>1, <3>2
      <4> QED BY <1>5, <2>1, <3>1, <4>1
    <3>3. CASE k = c
      <4>1. w[c] = v[c - 1]
        BY <1>3, <2>1, <3>3
      <4>2. c - 1 \in i .. j
        BY <1>1, <1>3, <1>5, <2>1, <3>3
      <4> QED BY <1>5, <2>1, <3>1, <3>3, <4>1, <4>2
    <3>4. CASE c < k
      <4>1. k - 1 \in i .. j /\ w[k] = v[k - 1]
        BY <1>1, <1>5, <2>1, <3>4
      <4> QED BY <1>5, <2>1, <3>1, <4>1
    <3> QED BY <1>1, <3>2, <3>3, <3>4
  <2> QED BY <1>5, <2>1 DEF Follows
<1>6. ASSUME NEW a \in DOMAIN w, w[a].twin = "first", Names(w[a], p)
      PROVE  \E b \in DOMAIN w : Follows(w, a, b, p)
  <2>1. PICK i \in DOMAIN v : w[a] = v[i] /\ ((i < c /\ a = i) \/ (i = c - 1 /\ a = c) \/ (c <= i /\ a = i + 1))
    <3>1. CASE a < c
      BY <1>1, <3>1
    <3>2. CASE a = c
      BY <1>1, <1>3, <1>6, <3>2
    <3>3. CASE c < a
      <4>1. a - 1 \in DOMAIN v /\ w[a] = v[a - 1] /\ c <= a - 1 /\ a = (a - 1) + 1
        BY <1>1, <3>3
      <4> QED BY <4>1
    <3> QED BY <1>1, <3>1, <3>2, <3>3
  <2>2. PICK j \in DOMAIN v : Follows(v, i, j, p)
    BY <1>6, <2>1 DEF Fine, Seconded
  <2>3. PICK b \in DOMAIN w : w[b] = v[j] /\ ((j < c /\ b = j) \/ (c <= j /\ b = j + 1))
    <3>1. CASE j < c
      BY <1>1, <3>1
    <3>2. CASE c <= j
      <4>1. j + 1 \in DOMAIN w /\ w[j + 1] = v[j]
        BY <1>1, <3>2
      <4> QED BY <3>2, <4>1
    <3> QED BY <1>1, <3>1, <3>2
  <2>4. a < b
    <3>1. i < j
      BY <2>2 DEF Follows
    <3> QED BY <1>1, <2>1, <2>3, <3>1
  <2> QED BY <1>5, <2>1, <2>2, <2>3, <2>4
<1> QED BY <1>2, <1>4, <1>6 DEF Fine, Sourced, Seconded

LEMMA FineWithout ==
  ASSUME NEW w \in Seq(Edits), NEW v \in Seq(Edits), NEW c, Without(w, v, c), NEW p, ~ Names(w[c], p),
         NEW d, NEW f, NEW E, Fine(d, w, p, E, f),
         \A k \in DOMAIN w : c < k /\ Renames(w[k], p, E) => Idle(w, c, w[k].src) /\ Idle(w, c, w[k].dst)
  PROVE  Fine(d, v, p, E, f)
<1>1. /\ Len(v) \in Nat /\ Len(w) = Len(v) + 1 /\ c \in 1 .. Len(w) /\ c \in Nat
      /\ DOMAIN v = 1 .. Len(v) /\ DOMAIN w = 1 .. Len(v) + 1
      /\ \A k \in Nat : 1 <= k /\ k < c => w[k] = v[k]
      /\ \A k \in Nat : c <= k /\ k <= Len(v) => w[k + 1] = v[k]
      /\ \A k \in Nat : c < k /\ k <= Len(w) => k - 1 \in Nat /\ w[k] = v[k - 1]
  BY WithoutItems
<1>2. Leads(d, v, p, f)
  BY LeadsWithout DEF Fine, Idle
<1>3. ASSUME NEW i \in DOMAIN v
      PROVE  \E k \in DOMAIN w : w[k] = v[i] /\ ((k = i /\ i < c) \/ (k = i + 1 /\ c <= i))
  <2>1. CASE i < c
    BY <1>1, <2>1
  <2>2. CASE c <= i
    <3>1. i + 1 \in DOMAIN w /\ w[i + 1] = v[i]
      BY <1>1, <2>2
    <3> QED BY <2>2, <3>1
  <2> QED BY <1>1, <2>1, <2>2
<1>4. ASSUME NEW i \in DOMAIN v, Renames(v[i], p, E) PROVE Sources(d, v, i)
  <2>1. PICK k \in DOMAIN w : w[k] = v[i] /\ ((k = i /\ i < c) \/ (k = i + 1 /\ c <= i))
    BY <1>3
  <2>2. Renames(w[k], p, E)
    BY <1>4, <2>1
  <2>3. Sources(d, w, k)
    BY <2>2 DEF Fine, Sourced
  <2>4. c < k => Idle(w, c, w[k].src) /\ Idle(w, c, w[k].dst)
    BY <2>2
  <2>5. Sources(d, v, i) <=> Sources(d, w, k)
    BY <2>1, <2>4, SourcesWithout
  <2> QED BY <2>3, <2>5
<1>5. ASSUME NEW i \in DOMAIN v, v[i].twin = "first", Names(v[i], p)
      PROVE  \E j \in DOMAIN v : Follows(v, i, j, p)
  <2>1. PICK a \in DOMAIN w : w[a] = v[i] /\ ((a = i /\ i < c) \/ (a = i + 1 /\ c <= i))
    BY <1>3
  <2>2. PICK b \in DOMAIN w : Follows(w, a, b, p)
    BY <1>5, <2>1 DEF Fine, Seconded
  <2>3. a < b /\ w[b].twin = "second" /\ Plain(w[b]) = Plain(w[a])
        /\ \A l \in a .. b : Names(w[l], p) => Plain(w[l]) = Plain(w[a])
    BY <2>2 DEF Follows
  <2>4. b # c
    <3>1. w[b] \in Edits /\ w[a] \in Edits
      BY <1>1, ElementOfSeq
    <3>2. Names(w[b], p)
      BY <1>5, <2>1, <2>3, <3>1 DEF Names, Plain, Edits, AnyEdit, EditOf, NoEdit, Twins
    <3> QED BY <3>2
  <2>5. PICK j \in DOMAIN v : w[b] = v[j] /\ ((b = j /\ j < c) \/ (b = j + 1 /\ c <= j))
    <3>1. CASE b < c
      BY <1>1, <3>1
    <3>2. CASE c < b
      <4>1. b - 1 \in DOMAIN v /\ w[b] = v[b - 1] /\ c <= b - 1 /\ b = (b - 1) + 1
        BY <1>1, <3>2
      <4> QED BY <4>1
    <3> QED BY <1>1, <2>4, <3>1, <3>2
  <2>6. i < j
    BY <1>1, <2>1, <2>3, <2>5
  <2>7. ASSUME NEW k \in i .. j, Names(v[k], p) PROVE Plain(v[k]) = Plain(v[i])
    <3>1. PICK l \in DOMAIN w : w[l] = v[k] /\ ((l = k /\ k < c) \/ (l = k + 1 /\ c <= k))
      <4>1. k \in DOMAIN v
        BY <1>1, <2>7
      <4> QED BY <1>3, <4>1
    <3>2. l \in a .. b
      BY <1>1, <2>1, <2>5, <2>7, <3>1
    <3> QED BY <2>1, <2>3, <2>7, <3>1, <3>2
  <2> QED BY <2>1, <2>3, <2>5, <2>6, <2>7 DEF Follows
<1> QED BY <1>2, <1>4, <1>5 DEF Fine, Sourced, Seconded

LEMMA FineElsewhere ==
  ASSUME NEW d, NEW w, NEW p, NEW E, NEW E2, E \subseteq E2, NEW f, NEW f2, p \in f <=> p \in f2,
         Fine(d, w, p, E, f)
  PROVE  Fine(d, w, p, E2, f2)
<1>1. \A i \in DOMAIN w : Renames(w[i], p, E2) => Renames(w[i], p, E)
  BY DEF Renames
<1> QED BY <1>1 DEF Fine, Leads, Sourced

LEMMA TailItems ==
  ASSUME NEW w \in Seq(Edits), w # <<>>
  PROVE  /\ Tail(w) \in Seq(Edits) /\ Len(w) \in Nat /\ 1 <= Len(w) /\ Len(Tail(w)) = Len(w) - 1
         /\ DOMAIN w = 1 .. Len(w) /\ DOMAIN Tail(w) = 1 .. Len(w) - 1
         /\ w[1] = Head(w)
         /\ \A k \in Nat : 1 <= k /\ k < Len(w) => Tail(w)[k] = w[k + 1]
         /\ \A k \in Nat : 1 < k /\ k <= Len(w) => k - 1 \in Nat /\ Tail(w)[k - 1] = w[k]
<1>1. /\ Len(w) \in Nat /\ Len(w) # 0 /\ DOMAIN w = 1 .. Len(w)
      /\ Tail(w) \in Seq(Edits) /\ Len(Tail(w)) = Len(w) - 1
      /\ \A i \in 1 .. Len(Tail(w)) : Tail(w)[i] = w[i + 1]
  BY HeadTailProperties, LenProperties, EmptySeq
<1>2. DOMAIN Tail(w) = 1 .. Len(w) - 1
  BY <1>1, LenProperties
<1>3. w[1] = Head(w)
  BY <1>1
<1>4. \A k \in Nat : 1 <= k /\ k < Len(w) => Tail(w)[k] = w[k + 1]
  BY <1>1
<1>5. ASSUME NEW k \in Nat, 1 < k, k <= Len(w) PROVE k - 1 \in Nat /\ Tail(w)[k - 1] = w[k]
  <2>1. k - 1 \in Nat /\ 1 <= k - 1 /\ k - 1 < Len(w) /\ (k - 1) + 1 = k
    BY <1>1, <1>5
  <2> QED BY <1>4, <2>1
<1> QED BY <1>1, <1>2, <1>3, <1>4, <1>5

(* What the first edit does may be done to the files or be still to come.  *)
LEMMA HasTail ==
  ASSUME NEW w \in Seq(Edits), w # <<>>, NEW d, NEW d2, NEW r, NEW n \in Nat, n < Len(w),
         \/ r \in d2 <=> IF Names(w[1], r) THEN Makes(w[1], r) ELSE r \in d
         \/ \E k \in 2 .. n + 1 : Names(w[k], r)
  PROVE  Has(d2, Tail(w), n, r) <=> Has(d, w, n + 1, r)
<1> DEFINE v == Tail(w)
<1>1. /\ Len(w) \in Nat /\ 1 <= Len(w)
      /\ \A k \in Nat : 1 <= k /\ k < Len(w) => v[k] = w[k + 1]
      /\ \A k \in Nat : 1 < k /\ k <= Len(w) => k - 1 \in Nat /\ v[k - 1] = w[k]
  BY TailItems
<1> HIDE DEF v
<1>2. ASSUME NEW k \in 1 .. n PROVE k + 1 \in 2 .. n + 1 /\ k + 1 \in 1 .. n + 1 /\ v[k] = w[k + 1]
  BY <1>1
<1>3. ASSUME NEW k \in 1 .. n + 1, k # 1 PROVE k - 1 \in 1 .. n /\ v[k - 1] = w[k]
  BY <1>1, <1>3
<1>4. ASSUME NEW k \in 1 .. n
      PROVE  (\A l \in 1 .. n : k < l => ~ Names(v[l], r)) <=> (\A l \in 1 .. n + 1 : k + 1 < l => ~ Names(w[l], r))
  <2>1. ASSUME \A l \in 1 .. n : k < l => ~ Names(v[l], r), NEW l \in 1 .. n + 1, k + 1 < l
        PROVE  ~ Names(w[l], r)
    <3>1. l - 1 \in 1 .. n /\ v[l - 1] = w[l] /\ k < l - 1
      BY <1>3, <2>1
    <3> QED BY <2>1, <3>1
  <2>2. ASSUME \A l \in 1 .. n + 1 : k + 1 < l => ~ Names(w[l], r), NEW l \in 1 .. n, k < l
        PROVE  ~ Names(v[l], r)
    <3>1. l + 1 \in 1 .. n + 1 /\ v[l] = w[l + 1] /\ k + 1 < l + 1
      BY <1>2, <2>2
    <3> QED BY <2>2, <3>1
  <2> QED BY <2>1, <2>2
<1>5. (\A k \in 1 .. n : ~ Names(v[k], r)) <=> (\A k \in 2 .. n + 1 : ~ Names(w[k], r))
  <2>1. ASSUME NEW k \in 2 .. n + 1 PROVE k - 1 \in 1 .. n /\ v[k - 1] = w[k]
    BY <1>3
  <2> QED BY <1>2, <2>1
<1>6. Has(d2, v, n, r) <=>
        \/ r \in d2 /\ \A k \in 2 .. n + 1 : ~ Names(w[k], r)
        \/ \E k \in 1 .. n : Makes(w[k + 1], r) /\ \A l \in 1 .. n + 1 : k + 1 < l => ~ Names(w[l], r)
  <2>1. (\E k \in 1 .. n : Makes(v[k], r) /\ \A l \in 1 .. n : k < l => ~ Names(v[l], r)) <=>
        (\E k \in 1 .. n : Makes(w[k + 1], r) /\ \A l \in 1 .. n + 1 : k + 1 < l => ~ Names(w[l], r))
    BY <1>2, <1>4
  <2> QED BY <1>5, <2>1 DEF Has
<1>7. Has(d, w, n + 1, r) <=>
        \/ r \in d /\ ~ Names(w[1], r) /\ \A k \in 2 .. n + 1 : ~ Names(w[k], r)
        \/ Makes(w[1], r) /\ \A k \in 2 .. n + 1 : ~ Names(w[k], r)
        \/ \E k \in 1 .. n : Makes(w[k + 1], r) /\ \A l \in 1 .. n + 1 : k + 1 < l => ~ Names(w[l], r)
  <2>1. \A k \in 1 .. n + 1 : k = 1 \/ k \in 2 .. n + 1
    OBVIOUS
  <2>2. 1 \in 1 .. n + 1 /\ \A k \in 2 .. n + 1 : k \in 1 .. n + 1 /\ 1 < k
    OBVIOUS
  <2>3. (\A k \in 1 .. n + 1 : ~ Names(w[k], r)) <=> ~ Names(w[1], r) /\ \A k \in 2 .. n + 1 : ~ Names(w[k], r)
    BY <2>1, <2>2
  <2>4. (\A k \in 1 .. n + 1 : 1 < k => ~ Names(w[k], r)) <=> \A k \in 2 .. n + 1 : ~ Names(w[k], r)
    BY <2>1, <2>2
  <2>5. ASSUME NEW k \in 1 .. n + 1, Makes(w[k], r), \A l \in 1 .. n + 1 : k < l => ~ Names(w[l], r)
        PROVE  \/ Makes(w[1], r) /\ \A l \in 2 .. n + 1 : ~ Names(w[l], r)
               \/ \E x \in 1 .. n : Makes(w[x + 1], r) /\ \A l \in 1 .. n + 1 : x + 1 < l => ~ Names(w[l], r)
    <3>1. CASE k = 1
      BY <2>4, <2>5, <3>1
    <3>2. CASE k # 1
      <4>1. k - 1 \in 1 .. n /\ (k - 1) + 1 = k
        BY <1>3, <3>2
      <4> QED BY <2>5, <4>1
    <3> QED BY <3>1, <3>2
  <2>6. (\E k \in 1 .. n : Makes(w[k + 1], r) /\ \A l \in 1 .. n + 1 : k + 1 < l => ~ Names(w[l], r)) =>
        (\E k \in 1 .. n + 1 : Makes(w[k], r) /\ \A l \in 1 .. n + 1 : k < l => ~ Names(w[l], r))
    BY <1>2
  <2>7. Makes(w[1], r) /\ (\A k \in 2 .. n + 1 : ~ Names(w[k], r)) =>
        (\E k \in 1 .. n + 1 : Makes(w[k], r) /\ \A l \in 1 .. n + 1 : k < l => ~ Names(w[l], r))
    BY <2>2, <2>4
  <2> QED BY <2>3, <2>5, <2>6, <2>7 DEF Has
<1>8. Makes(w[1], r) => Names(w[1], r)
  BY DEF Makes, Names
<1> QED BY <1>6, <1>7, <1>8 DEF v

LEMMA RenameOfFiles ==
  ASSUME NEW e \in Edits, e.kind = "rename"
  PROVE  e.src \in Files /\ e.dst \in Files
BY DEF Edits, AnyEdit, EditOf, NoEdit, Twins

LEMMA SameNames ==
  ASSUME NEW e \in Edits, NEW g \in Edits, Plain(e) = Plain(g)
  PROVE  e.kind = g.kind /\ e.src = g.src /\ e.dst = g.dst
<1>1. ASSUME NEW x \in Edits PROVE Plain(x).kind = x.kind /\ Plain(x).src = x.src /\ Plain(x).dst = x.dst
  BY DEF Plain, Edits, AnyEdit, EditOf, NoEdit, Twins
<1> QED BY <1>1

LEMMA FineTail ==
  ASSUME NEW w \in Seq(Edits), w # <<>>, NEW d, NEW d2, NEW p, NEW E, NEW E2, E \subseteq E2, NEW f,
         Fine(d, w, p, E, f),
         Has(d2, Tail(w), Len(w) - 1, p) <=> Has(d, w, Len(w), p),
         \A i \in DOMAIN w : 1 < i /\ Renames(w[i], p, E2) /\ Sources(d, w, i) => Sources(d2, Tail(w), i - 1)
  PROVE  Fine(d2, Tail(w), p, E2, f)
<1> DEFINE v == Tail(w)
<1>1. /\ Len(w) \in Nat /\ 1 <= Len(w) /\ Len(v) = Len(w) - 1
      /\ DOMAIN w = 1 .. Len(w) /\ DOMAIN v = 1 .. Len(w) - 1
      /\ \A k \in Nat : 1 <= k /\ k < Len(w) => v[k] = w[k + 1]
      /\ \A k \in Nat : 1 < k /\ k <= Len(w) => k - 1 \in Nat /\ v[k - 1] = w[k]
  BY TailItems
<1>2. Leads(d2, v, p, f)
  BY <1>1 DEF Fine, Leads
<1> HIDE DEF v
<1>3. \A i \in DOMAIN v : i \in Nat /\ i + 1 \in DOMAIN w /\ 1 < i + 1 /\ (i + 1) - 1 = i /\ v[i] = w[i + 1]
  BY <1>1
<1>4. ASSUME NEW i \in DOMAIN v, Renames(v[i], p, E2) PROVE Sources(d2, v, i)
  <2>1. Renames(w[i + 1], p, E2) /\ Renames(w[i + 1], p, E)
    BY <1>3, <1>4 DEF Renames
  <2>2. Sources(d, w, i + 1)
    BY <1>3, <2>1 DEF Fine, Sourced
  <2>3. Sources(d2, v, (i + 1) - 1)
    BY <1>3, <2>1, <2>2 DEF v
  <2> QED BY <1>3, <2>3
<1>5. ASSUME NEW i \in DOMAIN v, v[i].twin = "first", Names(v[i], p)
      PROVE  \E j \in DOMAIN v : Follows(v, i, j, p)
  <2>1. PICK b \in DOMAIN w : Follows(w, i + 1, b, p)
    BY <1>3, <1>5 DEF Fine, Seconded
  <2>2. /\ i + 1 < b /\ w[b].twin = "second" /\ Plain(w[b]) = Plain(w[i + 1])
        /\ \A k \in i + 1 .. b : Names(w[k], p) => Plain(w[k]) = Plain(w[i + 1])
    BY <2>1 DEF Follows
  <2>3. b - 1 \in DOMAIN v /\ v[b - 1] = w[b] /\ i < b - 1
    BY <1>1, <1>3, <2>2
  <2>4. ASSUME NEW k \in i .. b - 1, Names(v[k], p) PROVE Plain(v[k]) = Plain(v[i])
    <3>1. k + 1 \in i + 1 .. b /\ v[k] = w[k + 1]
      BY <1>1, <1>3, <2>3, <2>4
    <3> QED BY <1>3, <2>2, <2>4, <3>1
  <2>5. Follows(v, i, b - 1, p)
    BY <1>3, <2>2, <2>3, <2>4 DEF Follows
  <2> QED BY <2>3, <2>5
<1> QED BY <1>2, <1>4, <1>5 DEF Fine, Sourced, Seconded, v

(* The first edit is done, or is about files that need no longer be right. *)
LEMMA FineDone ==
  ASSUME NEW w \in Seq(Edits), w # <<>>, NEW d, NEW d2, NEW E, NEW E2, E \subseteq E2,
         \A r \in Files \ E2 : r \in d2 <=> IF Names(w[1], r) THEN Makes(w[1], r) ELSE r \in d,
         NEW p \in Files \ E2, NEW f, Fine(d, w, p, E, f)
  PROVE  Fine(d2, Tail(w), p, E2, f)
<1>1. Len(w) \in Nat /\ 1 <= Len(w) /\ DOMAIN w = 1 .. Len(w)
  BY TailItems
<1>2. Has(d2, Tail(w), Len(w) - 1, p) <=> Has(d, w, Len(w), p)
  <2>1. Len(w) - 1 \in Nat /\ Len(w) - 1 < Len(w) /\ (Len(w) - 1) + 1 = Len(w)
    BY <1>1
  <2>2. Has(d2, Tail(w), Len(w) - 1, p) <=> Has(d, w, (Len(w) - 1) + 1, p)
    BY <2>1, HasTail
  <2> QED BY <2>1, <2>2
<1>3. ASSUME NEW i \in DOMAIN w, 1 < i, Renames(w[i], p, E2), Sources(d, w, i)
      PROVE  Sources(d2, Tail(w), i - 1)
  <2>1. i - 1 \in Nat /\ i - 2 \in Nat /\ i - 2 < Len(w) /\ (i - 2) + 1 = i - 1 /\ (i - 1) - 1 = i - 2
    BY <1>1, <1>3
  <2>2. \A r \in Files \ E2 : Has(d2, Tail(w), i - 2, r) <=> Has(d, w, (i - 2) + 1, r)
    BY <2>1, HasTail
  <2>3. w[i].src \in Files \ E2 /\ w[i].dst \in Files \ E2
    <3>1. w[i] \in Edits
      BY <1>1, ElementOfSeq
    <3> QED BY <1>3, <3>1, RenameOfFiles DEF Renames
  <2>4. Tail(w)[i - 1] = w[i]
    BY <1>1, <1>3, TailItems
  <2> QED BY <1>3, <2>1, <2>2, <2>3, <2>4 DEF Sources
<1> QED BY <1>2, <1>3, FineTail

(* The ways of two files agree up to an edit of both.                      *)
Alike(W, E) ==
  \A p, r \in Files \ E : \A i \in DOMAIN W[p] :
    Names(W[p][i], p) /\ Names(W[p][i], r) =>
      i \in DOMAIN W[r] /\ \A k \in 1 .. i : W[r][k] = W[p][k]

(* The first of two events is ignored: the second, which is still to come, *)
(* says the same.                                                          *)
LEMMA FineIgnored ==
  ASSUME NEW W \in [Files -> Seq(Edits)], NEW d, NEW E, NEW f, NEW e \in Edits,
         \A r \in Files \ E : Fine(d, W[r], r, E, f) /\ W[r] # <<>> /\ W[r][1] = e,
         Alike(W, E), e.twin = "first", NEW p \in Files \ E
  PROVE  Fine(d, Tail(W[p]), p, E, f)
<1> DEFINE w == W[p]
<1>1. w \in Seq(Edits) /\ w # <<>> /\ w[1] = e /\ Fine(d, w, p, E, f)
  OBVIOUS
<1>2. \A r \in Files \ E : W[r] \in Seq(Edits) /\ Len(W[r]) \in Nat /\ 1 \in DOMAIN W[r] /\ DOMAIN W[r] = 1 .. Len(W[r])
  <2> TAKE r \in Files \ E
  <2>1. W[r] \in Seq(Edits) /\ W[r] # <<>>
    OBVIOUS
  <2>2. Len(W[r]) \in Nat /\ 1 <= Len(W[r]) /\ DOMAIN W[r] = 1 .. Len(W[r])
    BY <2>1, TailItems
  <2> QED BY <2>1, <2>2
<1>3. /\ Len(w) \in Nat /\ 1 <= Len(w) /\ DOMAIN w = 1 .. Len(w)
  BY <1>1, TailItems
(* The second event of a file that the first one names.                    *)
<1>4. ASSUME NEW r \in Files \ E, Names(e, r)
      PROVE  \E j \in DOMAIN W[r] : /\ 1 < j /\ Plain(W[r][j]) = Plain(e) /\ W[r][j] \in Edits
                                    /\ \A k \in 1 .. j : Names(W[r][k], r) => Plain(W[r][k]) = Plain(e)
  <2>1. PICK j \in DOMAIN W[r] : Follows(W[r], 1, j, r)
    <3>1. W[r][1].twin = "first" /\ Names(W[r][1], r) /\ Seconded(W[r], r) /\ 1 \in DOMAIN W[r]
      BY <1>2, <1>4 DEF Fine
    <3> QED BY <3>1 DEF Seconded
  <2>2. W[r][j] \in Edits
    BY <1>2, ElementOfSeq
  <2> QED BY <2>1, <2>2 DEF Follows
<1>5. \A x \in Edits : Plain(x) = Plain(e) => x.kind = e.kind /\ x.src = e.src /\ x.dst = e.dst
  BY SameNames
<1>6. \A r : \A x \in Edits : Plain(x) = Plain(e) => (Names(x, r) <=> Names(e, r))
  BY <1>5 DEF Names
<1>7. \A i \in DOMAIN w : w[i] \in Edits
  BY <1>1, <1>3, ElementOfSeq
<1> HIDE DEF w
<1>8. Has(d, Tail(w), Len(w) - 1, p) <=> Has(d, w, Len(w), p)
  <2>1. Len(w) - 1 \in Nat /\ Len(w) - 1 < Len(w) /\ (Len(w) - 1) + 1 = Len(w)
    BY <1>3
  <2>2. CASE Names(e, p)
    <3>1. PICK j \in DOMAIN w : 1 < j /\ Plain(w[j]) = Plain(e)
      BY <1>4, <2>2 DEF w
    <3>2. j \in 2 .. (Len(w) - 1) + 1 /\ Names(w[j], p)
      BY <1>3, <1>6, <1>7, <2>2, <3>1
    <3>3. Has(d, Tail(w), Len(w) - 1, p) <=> Has(d, w, (Len(w) - 1) + 1, p)
      BY <1>1, <2>1, <3>2, HasTail
    <3> QED BY <2>1, <3>3
  <2>3. CASE ~ Names(e, p)
    <3>1. Has(d, Tail(w), Len(w) - 1, p) <=> Has(d, w, (Len(w) - 1) + 1, p)
      BY <1>1, <2>1, <2>3, HasTail
    <3> QED BY <2>1, <3>1
  <2> QED BY <2>2, <2>3
<1>9. ASSUME NEW i \in DOMAIN w, 1 < i, Renames(w[i], p, E), Sources(d, w, i)
      PROVE  Sources(d, Tail(w), i - 1)
  <2> DEFINE n == i - 2
  <2>1. n \in Nat /\ n < Len(w) /\ n + 1 = i - 1 /\ (i - 1) - 1 = n /\ i \in Nat /\ i <= Len(w)
    BY <1>3, <1>9
  <2>2. Tail(w)[i - 1] = w[i]
    BY <1>1, <1>3, <1>9, TailItems
  <2>3. w[i] \in Edits /\ w[i].src \in Files \ E /\ w[i].dst \in Files \ E
    BY <1>7, <1>9, RenameOfFiles DEF Renames
  <2>4. Sources(d, Tail(w), i - 1) <=> Has(d, Tail(w), n, w[i].src) \/ Has(d, Tail(w), n, w[i].dst)
    BY <2>1, <2>2 DEF Sources
  <2>5. PICK x \in {w[i].src, w[i].dst} : Has(d, w, n + 1, x)
    BY <1>9, <2>1 DEF Sources
  <2> HIDE DEF n
  <2>6. Names(w[i], p) /\ Names(w[i], x) /\ x \in Files \ E
    BY <1>9, <2>3, <2>5 DEF Renames, Names
  <2>7. CASE ~ Names(e, x) \/ \E k \in 2 .. n + 1 : Names(w[k], x)
    <3>1. Has(d, Tail(w), n, x)
      BY <1>1, <2>1, <2>5, <2>7, HasTail
    <3> QED BY <2>4, <2>5, <3>1
  <2>8. CASE Names(e, x) /\ \A k \in 2 .. n + 1 : ~ Names(w[k], x)
    <3>1. PICK j \in DOMAIN W[x] :
            /\ 1 < j /\ Plain(W[x][j]) = Plain(e) /\ W[x][j] \in Edits
            /\ \A k \in 1 .. j : Names(W[x][k], x) => Plain(W[x][k]) = Plain(e)
      BY <1>4, <2>6, <2>8
    <3>2. i \in DOMAIN W[x] /\ \A k \in 1 .. i : W[x][k] = w[k]
      BY <1>9, <2>6 DEF Alike, w
    <3>3. j \in Nat /\ i <= j
      <4>1. j \in Nat
        BY <1>2, <2>6, <3>1
      <4>2. ASSUME j < i PROVE FALSE
        <5>1. j \in 1 .. i /\ j \in 2 .. n + 1
          BY <2>1, <3>1, <4>1, <4>2
        <5>2. Names(W[x][j], x)
          BY <1>6, <2>8, <3>1
        <5> QED BY <2>8, <3>2, <5>1, <5>2
      <4> QED BY <2>1, <4>1, <4>2
    <3>4. Plain(w[i]) = Plain(e)
      <4>1. i \in 1 .. j /\ i \in 1 .. i /\ W[x][i] = w[i]
        BY <1>9, <2>1, <3>2, <3>3
      <4> QED BY <2>6, <3>1, <4>1
    <3>5. w[i].kind = e.kind /\ w[i].src = e.src /\ w[i].dst = e.dst
      BY <1>5, <2>3, <3>4
    <3>6. Renames(w[1], p, E)
      BY <1>1, <1>9, <3>5 DEF Renames, Names
    <3>7. Sources(d, w, 1)
      <4>1. 1 \in DOMAIN w
        BY <1>3
      <4> QED BY <1>1, <3>6, <4>1 DEF Fine, Sourced
    <3>8. w[i].src \in d \/ w[i].dst \in d
      <4>1. \A r : Has(d, w, 1 - 1, r) <=> r \in d
        BY DEF Has
      <4> QED BY <1>1, <3>5, <3>7, <4>1 DEF Sources
    <3>9. PICK v \in {w[i].src, w[i].dst} : v \in d
      BY <3>8
    <3>10. v \in Files \ E /\ Names(e, v) /\ Names(w[i], v)
      BY <2>3, <3>5 DEF Names
    <3>11. \A k \in 2 .. n + 1 : ~ Names(w[k], v)
      <4>1. PICK l \in DOMAIN W[v] :
              /\ 1 < l /\ Plain(W[v][l]) = Plain(e) /\ W[v][l] \in Edits
              /\ \A k \in 1 .. l : Names(W[v][k], v) => Plain(W[v][k]) = Plain(e)
        BY <1>4, <3>10
      <4>2. i \in DOMAIN W[v] /\ \A k \in 1 .. i : W[v][k] = w[k]
        BY <1>9, <2>6, <3>10 DEF Alike, w
      <4>3. l \in Nat
        BY <1>2, <3>10, <4>1
      <4>4. \A k \in 2 .. n + 1 : k \in Nat /\ 1 <= k /\ k \in 1 .. i /\ k \in DOMAIN w
        BY <1>3, <2>1
      <4>5. ASSUME l \in 2 .. n + 1 PROVE FALSE
        <5>1. Names(W[v][l], x)
          BY <1>6, <2>8, <4>1
        <5> QED BY <2>8, <4>2, <4>4, <4>5, <5>1
      <4>6. n + 1 < l
        BY <2>1, <4>1, <4>3, <4>5
      <4>7. ASSUME NEW k \in 2 .. n + 1, Names(w[k], v) PROVE FALSE
        <5>1. k \in 1 .. l /\ W[v][k] = w[k] /\ w[k] \in Edits
          BY <1>7, <2>1, <4>2, <4>3, <4>4, <4>6
        <5>2. Plain(w[k]) = Plain(e)
          BY <4>1, <4>7, <5>1
        <5> QED BY <1>6, <2>8, <5>1, <5>2
      <4> QED BY <4>7
    <3>12. Has(d, Tail(w), n, v)
      <4>1. \A k \in 1 .. n : k + 1 \in 2 .. n + 1 /\ Tail(w)[k] = w[k + 1]
        BY <1>1, <2>1, TailItems
      <4> QED BY <3>9, <3>11, <4>1 DEF Has
    <3> QED BY <2>4, <3>9, <3>12
  <2> QED BY <2>7, <2>8
<1>10. Fine(d, Tail(w), p, E, f)
  BY <1>1, <1>8, <1>9, FineTail
<1> QED BY <1>10 DEF w

LEMMA EditShape ==
  ASSUME NEW e \in Edits
  PROVE  \/ e.kind \in {"insert", "remove"} /\ e.src \in Files /\ e.dst = <<>>
         \/ e.kind = "rename" /\ e.src \in Files /\ e.dst \in Files
         \/ e.kind = "none" /\ e.src = <<>> /\ e.dst = <<>>
BY DEF Edits, AnyEdit, EditOf, NoEdit, Twins

LEMMA FilesAreNamed == <<>> \notin Files
BY PipelineAssumptions

(* What the index does with an edit, if the source of a rename is there or *)
(* the rename has been done before.                                        *)
LEMMA AppliedAsMeant ==
  ASSUME NEW d, NEW e \in Edits, NEW r \in Files,
         e.kind = "rename" /\ Names(e, r) => r = e.src \/ e.src \in d \/ e.dst \in d,
         e.kind = "rename" /\ e.src = e.dst => e.src \in d \/ ~ Names(e, r)
  PROVE  r \in Apply(d, e) <=> IF Names(e, r) THEN Makes(e, r) ELSE r \in d
<1>1. r # <<>>
  BY FilesAreNamed
<1>2. CASE e.kind = "insert" /\ e.dst = <<>>
  BY <1>1, <1>2 DEF Apply, Names, Makes
<1>3. CASE e.kind = "remove" /\ e.dst = <<>>
  BY <1>1, <1>3 DEF Apply, Names, Makes
<1>4. CASE e.kind = "rename"
  BY <1>1, <1>4 DEF Apply, Names, Makes
<1>5. CASE e.kind = "none" /\ e.src = <<>> /\ e.dst = <<>>
  BY <1>1, <1>5 DEF Apply, Names, Makes
<1> QED BY <1>2, <1>3, <1>4, <1>5, EditShape

LEMMA FinePopped ==
  ASSUME NEW W \in [Files -> Seq(Edits)], NEW d, NEW E, NEW f, NEW e \in Edits,
         \A r \in Files \ E : Fine(d, W[r], r, E, f) /\ W[r] # <<>> /\ W[r][1] = e,
         Alike(W, E), NEW ignored \in BOOLEAN, NEW d2, d2 = IF ignored THEN d ELSE Apply(d, e),
         NEW E2, E2 = E \cup (IF (ignored /\ e.twin # "first") \/ e.src \in E THEN {e.src, e.dst} ELSE {}),
         NEW p \in Files \ E2
  PROVE  Fine(d2, Tail(W[p]), p, E2, f)
<1>1. E \subseteq E2 /\ p \in Files \ E /\ W[p] \in Seq(Edits)
  OBVIOUS
<1>2. CASE ignored /\ e.twin = "first" /\ e.src \notin E
  <2>1. d2 = d /\ E2 = E
    BY <1>2
  <2> QED BY <1>1, <1>2, <2>1, FineIgnored, ZenonT(60)
<1>3. CASE ignored /\ (e.twin # "first" \/ e.src \in E)
  <2>1. d2 = d /\ e.src \in E2 /\ e.dst \in E2
    BY <1>3
  <2>2. \A r \in Files \ E2 : r \in d2 <=> IF Names(e, r) THEN Makes(e, r) ELSE r \in d
    BY <2>1 DEF Names
  <2> QED BY <1>1, <2>2, FineDone
<1>4. CASE ~ ignored
  <2>1. d2 = Apply(d, e) /\ (e.src \in E => e.src \in E2 /\ e.dst \in E2)
    BY <1>4
  <2>2. ASSUME NEW r \in Files \ E2 PROVE r \in d2 <=> IF Names(e, r) THEN Makes(e, r) ELSE r \in d
    <3>1. r \in Files \ E /\ W[r] \in Seq(Edits) /\ W[r] # <<>> /\ W[r][1] = e /\ Fine(d, W[r], r, E, f)
      BY <2>2
    <3>2. ASSUME e.kind = "rename", Names(e, r), e.dst \notin E PROVE e.src \in d \/ e.dst \in d
      <4>1. e.src \notin E
        BY <2>1, <2>2, <3>2 DEF Names
      <4>2. 1 \in DOMAIN W[r]
        <5>1. Len(W[r]) \in Nat /\ 1 <= Len(W[r]) /\ DOMAIN W[r] = 1 .. Len(W[r])
          BY <3>1, TailItems
        <5> QED BY <5>1
      <4>3. Renames(W[r][1], r, E)
        BY <3>1, <3>2, <4>1 DEF Renames
      <4>4. Sources(d, W[r], 1)
        BY <3>1, <4>2, <4>3 DEF Fine, Sourced
      <4>5. \A x : Has(d, W[r], 1 - 1, x) <=> x \in d
        BY DEF Has
      <4> QED BY <3>1, <4>4, <4>5 DEF Sources
    <3>3. Names(e, r) => r = e.src \/ r = e.dst
      BY DEF Names
    <3> QED BY <2>1, <3>1, <3>2, <3>3, AppliedAsMeant
  <2> QED BY <1>1, <2>2, FineDone
<1> QED BY <1>2, <1>3, <1>4

LEMMA AppendItems ==
  ASSUME NEW w \in Seq(Edits), NEW x \in Edits
  PROVE  /\ Append(w, x) \in Seq(Edits) /\ Len(w) \in Nat /\ Len(Append(w, x)) = Len(w) + 1
         /\ DOMAIN w = 1 .. Len(w) /\ DOMAIN Append(w, x) = 1 .. Len(w) + 1
         /\ \A k \in 1 .. Len(w) : Append(w, x)[k] = w[k]
         /\ Append(w, x)[Len(w) + 1] = x
<1>1. /\ Append(w, x) \in Seq(Edits) /\ Len(Append(w, x)) = Len(w) + 1
      /\ \A k \in 1 .. Len(w) : Append(w, x)[k] = w[k]
      /\ Append(w, x)[Len(w) + 1] = x
  BY AppendProperties
<1>2. Len(w) \in Nat /\ DOMAIN w = 1 .. Len(w) /\ DOMAIN Append(w, x) = 1 .. Len(Append(w, x))
  BY <1>1, LenProperties
<1> QED BY <1>1, <1>2

(* What another edit at the end changes.                                   *)
LEMMA HasAppend ==
  ASSUME NEW w \in Seq(Edits), NEW x \in Edits, NEW d, NEW r
  PROVE  /\ \A n \in 0 .. Len(w) : Has(d, Append(w, x), n, r) <=> Has(d, w, n, r)
         /\ Has(d, Append(w, x), Len(w) + 1, r) <=> IF Names(x, r) THEN Makes(x, r) ELSE Has(d, w, Len(w), r)
<1> DEFINE v == Append(w, x)
           N == Len(w)
<1>1. N \in Nat /\ v[N + 1] = x /\ \A k \in 1 .. N : v[k] = w[k]
  BY AppendItems
<1> HIDE DEF v, N
<1>2. ASSUME NEW n \in 0 .. N PROVE Has(d, v, n, r) <=> Has(d, w, n, r)
  <2>1. \A k \in 1 .. n : v[k] = w[k]
    BY <1>1
  <2> QED BY <2>1 DEF Has
<1>3. \A k \in 1 .. N + 1 : k \in 1 .. N \/ k = N + 1
  BY <1>1
<1>4. N + 1 \in 1 .. N + 1 /\ \A k \in 1 .. N : k \in 1 .. N + 1 /\ k < N + 1 /\ ~ (N + 1 < k)
  BY <1>1
<1>5. CASE Names(x, r)
  <2>1. \A l \in 1 .. N + 1 : N + 1 < l => ~ Names(v[l], r)
    BY <1>1
  <2> QED BY <1>1, <1>3, <1>4, <1>5, <2>1 DEF Has
<1>6. CASE ~ Names(x, r)
  <2>1. ~ Makes(x, r)
    BY <1>6 DEF Makes, Names
  <2> QED BY <1>1, <1>3, <1>4, <1>6, <2>1, SMTT(30) DEF Has
<1> QED BY <1>2, <1>5, <1>6 DEF v, N

LEMMA LeadsAppend ==
  ASSUME NEW w \in Seq(Edits), NEW x \in Edits, NEW d, NEW p, NEW f,
         IF Names(x, p) THEN p \in f <=> Makes(x, p) ELSE Leads(d, w, p, f)
  PROVE  Leads(d, Append(w, x), p, f)
<1>1. Len(Append(w, x)) = Len(w) + 1
  BY AppendItems
<1>2. Has(d, Append(w, x), Len(w) + 1, p) <=> IF Names(x, p) THEN Makes(x, p) ELSE Has(d, w, Len(w), p)
  BY HasAppend
<1> QED BY <1>1, <1>2 DEF Leads

(* The files are there that a rename at the end of w needs.                *)
Ready(d, w, x, p, E) ==
  Renames(x, p, E) => Has(d, w, Len(w), x.src) \/ Has(d, w, Len(w), x.dst)

LEMMA SourcedAppend ==
  ASSUME NEW w \in Seq(Edits), NEW x \in Edits, NEW d, NEW p, NEW E, Sourced(d, w, p, E), Ready(d, w, x, p, E)
  PROVE  Sourced(d, Append(w, x), p, E)
<1> DEFINE v == Append(w, x)
           N == Len(w)
<1>1. /\ N \in Nat /\ v[N + 1] = x /\ \A k \in 1 .. N : v[k] = w[k]
      /\ DOMAIN w = 1 .. N /\ DOMAIN v = 1 .. N + 1
  BY AppendItems
<1>2. \A n \in 0 .. N : \A r : Has(d, v, n, r) <=> Has(d, w, n, r)
  BY HasAppend
<1> HIDE DEF v, N
<1>3. ASSUME NEW i \in DOMAIN v, Renames(v[i], p, E) PROVE Sources(d, v, i)
  <2>1. CASE i \in 1 .. N
    <3>1. Sources(d, w, i)
      BY <1>1, <1>3, <2>1 DEF Sourced
    <3>2. i - 1 \in 0 .. N /\ v[i] = w[i]
      BY <1>1, <2>1
    <3> QED BY <1>2, <3>1, <3>2 DEF Sources
  <2>2. CASE i = N + 1
    <3>1. i - 1 = N /\ N \in 0 .. N /\ v[i] = x
      BY <1>1, <2>2
    <3> QED BY <1>2, <1>3, <3>1 DEF Sources, Ready, N
  <2> QED BY <1>1, <2>1, <2>2
<1> QED BY <1>3 DEF Sourced, v

LEMMA SecondedMore ==
  ASSUME NEW w \in Seq(Edits), NEW v \in Seq(Edits), NEW p, Seconded(w, p), Len(w) <= Len(v),
         \A k \in 1 .. Len(w) : v[k] = w[k],
         \A i \in Len(w) + 1 .. Len(v) : v[i].twin = "first" /\ Names(v[i], p) => \E j \in DOMAIN v : Follows(v, i, j, p)
  PROVE  Seconded(v, p)
<1>1. Len(w) \in Nat /\ Len(v) \in Nat /\ DOMAIN w = 1 .. Len(w) /\ DOMAIN v = 1 .. Len(v)
  BY LenProperties
<1>2. ASSUME NEW i \in 1 .. Len(w), v[i].twin = "first", Names(v[i], p)
      PROVE  \E j \in DOMAIN v : Follows(v, i, j, p)
  <2>1. PICK j \in 1 .. Len(w) : Follows(w, i, j, p)
    BY <1>1, <1>2 DEF Seconded
  <2>2. \A k \in i .. j : k \in 1 .. Len(w)
    BY <1>1
  <2>3. Follows(v, i, j, p)
    BY <2>1, <2>2 DEF Follows
  <2> QED BY <1>1, <2>3
<1> QED BY <1>1, <1>2 DEF Seconded

LEMMA NoEditFacts ==
  /\ NoEdit \in Edits /\ NoEdit.twin = "single" /\ NoEdit.kind = "none"
  /\ \A p \in Files : ~ Names(NoEdit, p)
<1>1. NoEdit \in Edits /\ NoEdit.twin = "single" /\ NoEdit.kind = "none" /\ NoEdit.src = <<>> /\ NoEdit.dst = <<>>
  BY DEF Edits, AnyEdit, NoEdit, EditOf, Twins
<1> QED BY <1>1, FilesAreNamed DEF Names

(* A message that will not make an edit is reported.                       *)
LEMMA FineNoEdit ==
  ASSUME NEW w \in Seq(Edits), NEW d, NEW p \in Files, NEW E, NEW f, Fine(d, w, p, E, f)
  PROVE  /\ Fine(d, Append(w, NoEdit), p, E, f) /\ Append(w, NoEdit) \in Seq(Edits)
         /\ \A e \in Edits : Ready(d, w, e, p, E) => Ready(d, Append(w, NoEdit), e, p, E)
<1> DEFINE v == Append(w, NoEdit)
<1>1. v \in Seq(Edits) /\ Len(v) = Len(w) + 1 /\ Len(w) \in Nat /\ v[Len(w) + 1] = NoEdit
      /\ \A k \in 1 .. Len(w) : v[k] = w[k]
  BY AppendItems, NoEditFacts
<1>2. Leads(d, v, p, f)
  BY NoEditFacts, LeadsAppend DEF Fine
<1>3. Sourced(d, v, p, E)
  <2>1. Ready(d, w, NoEdit, p, E)
    BY NoEditFacts DEF Ready, Renames
  <2> QED BY <2>1, NoEditFacts, SourcedAppend DEF Fine
<1>4. Seconded(v, p)
  <2>1. \A i \in Len(w) + 1 .. Len(v) : v[i] = NoEdit
    BY <1>1
  <2>2. Len(w) <= Len(v)
    BY <1>1
  <2> HIDE DEF v
  <2> QED BY <1>1, <2>1, <2>2, NoEditFacts, SecondedMore DEF Fine
<1>5. ASSUME NEW e \in Edits, Ready(d, w, e, p, E) PROVE Ready(d, v, e, p, E)
  <2>1. ASSUME Renames(e, p, E) PROVE Has(d, v, Len(v), e.src) \/ Has(d, v, Len(v), e.dst)
    <3>1. e.src \in Files /\ e.dst \in Files
      BY <2>1, RenameOfFiles DEF Renames
    <3>2. Has(d, w, Len(w), e.src) \/ Has(d, w, Len(w), e.dst)
      BY <1>5, <2>1 DEF Ready
    <3>3. \A r \in Files : Has(d, v, Len(w) + 1, r) <=> Has(d, w, Len(w), r)
      <4> TAKE r \in Files
      <4> QED BY NoEditFacts, HasAppend
    <3> QED BY <1>1, <3>1, <3>2, <3>3
  <2> QED BY <2>1 DEF Ready
<1> QED BY <1>1, <1>2, <1>3, <1>4, <1>5 DEF Fine

(* An operation that is reported once.                                     *)
LEMMA FineOnce ==
  ASSUME NEW w \in Seq(Edits), NEW d, NEW p, NEW E, NEW f, NEW f2, Fine(d, w, p, E, f),
         NEW x \in Edits, x.twin # "first", Names(x, p), p \in f2 <=> Makes(x, p), Ready(d, w, x, p, E)
  PROVE  Fine(d, Append(w, x), p, E, f2)
<1> DEFINE v == Append(w, x)
<1>1. v \in Seq(Edits) /\ Len(v) = Len(w) + 1 /\ Len(w) \in Nat /\ v[Len(w) + 1] = x
      /\ \A k \in 1 .. Len(w) : v[k] = w[k]
  BY AppendItems
<1>2. Leads(d, v, p, f2)
  BY LeadsAppend
<1>3. Sourced(d, v, p, E)
  BY SourcedAppend DEF Fine
<1>4. Seconded(v, p)
  <2>1. \A i \in Len(w) + 1 .. Len(v) : v[i] = x
    BY <1>1
  <2>2. Len(w) <= Len(v)
    BY <1>1
  <2> HIDE DEF v
  <2> QED BY <1>1, <2>1, <2>2, SecondedMore DEF Fine
<1> QED BY <1>2, <1>3, <1>4 DEF Fine

LEMMA ReadyAgain ==
  ASSUME NEW w \in Seq(Edits), NEW d, NEW p, NEW E, NEW x \in Edits, NEW y \in Edits, Plain(x) = Plain(y)
  PROVE  Ready(d, Append(w, x), y, p, E)
<1>1. x.kind = y.kind /\ x.src = y.src /\ x.dst = y.dst
  BY SameNames
<1>2. ASSUME Renames(y, p, E) PROVE Has(d, Append(w, x), Len(Append(w, x)), y.dst)
  <2>1. Names(x, y.dst) /\ Makes(x, y.dst)
    BY <1>1, <1>2 DEF Names, Makes, Renames
  <2>2. Has(d, Append(w, x), Len(w) + 1, y.dst)
    BY <2>1, HasAppend
  <2>3. Len(Append(w, x)) = Len(w) + 1
    BY AppendItems
  <2> QED BY <2>2, <2>3
<1> QED BY <1>2 DEF Ready

(* An operation that is reported twice, with or without a message for the  *)
(* source of the second rename.                                            *)
LEMMA FineTwice ==
  ASSUME NEW w \in Seq(Edits), NEW d, NEW p \in Files, NEW E, NEW f, NEW f2, Fine(d, w, p, E, f),
         NEW x \in Edits, NEW y \in Edits, x.twin = "first", y.twin = "second", Plain(x) = Plain(y),
         Names(x, p), p \in f2 <=> Makes(x, p), Ready(d, w, x, p, E)
  PROVE  /\ Fine(d, Append(Append(w, x), y), p, E, f2)
         /\ Fine(d, Append(Append(Append(w, x), NoEdit), y), p, E, f2)
<1> DEFINE v1 == Append(w, x)
           v2 == Append(v1, y)
           u2 == Append(v1, NoEdit)
           u3 == Append(u2, y)
           N == Len(w)
<1>1. v1 \in Seq(Edits) /\ Len(v1) = N + 1 /\ N \in Nat /\ v1[N + 1] = x /\ \A k \in 1 .. N : v1[k] = w[k]
  BY AppendItems
<1>0. NoEdit \in Edits /\ ~ Names(NoEdit, p) /\ NoEdit.twin = "single"
  BY NoEditFacts
<1>2. Sourced(d, v1, p, E)
  BY SourcedAppend DEF Fine
<1>3. Names(y, p) /\ (p \in f2 <=> Makes(y, p))
  <2>1. x.kind = y.kind /\ x.src = y.src /\ x.dst = y.dst
    BY SameNames
  <2> QED BY <2>1 DEF Names, Makes
<1>4. Ready(d, v1, y, p, E)
  BY ReadyAgain
<1> HIDE DEF v1
<1>5. v2 \in Seq(Edits) /\ Len(v2) = N + 2 /\ v2[N + 2] = y /\ \A k \in 1 .. N + 1 : v2[k] = v1[k]
  <2>1. v2 \in Seq(Edits) /\ Len(v2) = Len(v1) + 1 /\ v2[Len(v1) + 1] = y /\ \A k \in 1 .. Len(v1) : v2[k] = v1[k]
    BY <1>1, AppendItems
  <2>2. Len(v1) + 1 = N + 2
    BY <1>1
  <2> HIDE DEF v2, N
  <2> QED BY <1>1, <2>1, <2>2
<1>6. u2 \in Seq(Edits) /\ Len(u2) = N + 2 /\ u2[N + 2] = NoEdit /\ \A k \in 1 .. N + 1 : u2[k] = v1[k]
  <2>1. u2 \in Seq(Edits) /\ Len(u2) = Len(v1) + 1 /\ u2[Len(v1) + 1] = NoEdit /\ \A k \in 1 .. Len(v1) : u2[k] = v1[k]
    BY <1>0, <1>1, AppendItems
  <2>2. Len(v1) + 1 = N + 2
    BY <1>1
  <2> HIDE DEF u2, N
  <2> QED BY <1>1, <2>1, <2>2
<1>7. Leads(d, v2, p, f2) /\ Sourced(d, v2, p, E)
  BY <1>1, <1>2, <1>3, <1>4, LeadsAppend, SourcedAppend
<1>8. Sourced(d, u2, p, E)
  <2>1. Ready(d, v1, NoEdit, p, E)
    BY NoEditFacts DEF Ready, Renames
  <2> QED BY <1>0, <1>1, <1>2, <2>1, SourcedAppend
<1>9. Ready(d, u2, y, p, E)
  <2>1. ASSUME Renames(y, p, E) PROVE Has(d, u2, Len(u2), y.src) \/ Has(d, u2, Len(u2), y.dst)
    <3>1. y.src \in Files /\ y.dst \in Files
      BY <2>1, RenameOfFiles DEF Renames
    <3>2. Has(d, v1, Len(v1), y.src) \/ Has(d, v1, Len(v1), y.dst)
      BY <1>4, <2>1 DEF Ready
    <3>3. \A r \in Files : Has(d, u2, Len(v1) + 1, r) <=> Has(d, v1, Len(v1), r)
      <4> TAKE r \in Files
      <4> QED BY <1>1, NoEditFacts, HasAppend
    <3>4. Len(u2) = Len(v1) + 1
      BY <1>0, <1>1, AppendItems
    <3> QED BY <3>1, <3>2, <3>3, <3>4
  <2> QED BY <2>1 DEF Ready
<1> HIDE DEF v2, u2
<1>10. u3 \in Seq(Edits) /\ Len(u3) = N + 3 /\ u3[N + 3] = y /\ \A k \in 1 .. N + 2 : u3[k] = u2[k]
  <2>1. u3 \in Seq(Edits) /\ Len(u3) = Len(u2) + 1 /\ u3[Len(u2) + 1] = y /\ \A k \in 1 .. Len(u2) : u3[k] = u2[k]
    BY <1>6, AppendItems
  <2>2. Len(u2) + 1 = N + 3
    BY <1>1, <1>6
  <2> HIDE DEF u3, N
  <2> QED BY <1>6, <2>1, <2>2
<1>11. Leads(d, u3, p, f2) /\ Sourced(d, u3, p, E)
  BY <1>3, <1>6, <1>8, <1>9, LeadsAppend, SourcedAppend
<1> HIDE DEF u3, N
<1>12. Seconded(v2, p)
  <2>1. \A k \in 1 .. N : v2[k] = w[k]
    BY <1>1, <1>5
  <2>2. v2[N + 1] = x /\ v2[N + 2] = y /\ DOMAIN v2 = 1 .. N + 2
    BY <1>1, <1>5, LenProperties
  <2>3. Follows(v2, N + 1, N + 2, p)
    <3>1. \A k \in N + 1 .. N + 2 : k = N + 1 \/ k = N + 2
      BY <1>1
    <3>2. N + 1 < N + 2
      BY <1>1
    <3> QED BY <2>2, <3>1, <3>2 DEF Follows
  <2>4. \A i \in N + 1 .. Len(v2) : v2[i].twin = "first" /\ Names(v2[i], p) => \E j \in DOMAIN v2 : Follows(v2, i, j, p)
    <3>1. \A i \in N + 1 .. Len(v2) : i = N + 1 \/ i = N + 2
      BY <1>1, <1>5
    <3>2. N + 2 \in DOMAIN v2
      BY <1>1, <2>2
    <3> QED BY <2>2, <2>3, <3>1, <3>2
  <2>5. N <= Len(v2)
    BY <1>1, <1>5
  <2> QED BY <1>5, <2>1, <2>4, <2>5, SecondedMore DEF Fine, N
<1>13. Seconded(u3, p)
  <2>1. \A k \in 1 .. N : u3[k] = w[k]
    BY <1>1, <1>6, <1>10
  <2>2. u3[N + 1] = x /\ u3[N + 2] = NoEdit /\ u3[N + 3] = y /\ DOMAIN u3 = 1 .. N + 3
    BY <1>1, <1>6, <1>10, LenProperties
  <2>3. Follows(u3, N + 1, N + 3, p)
    <3>1. \A k \in N + 1 .. N + 3 : k = N + 1 \/ k = N + 2 \/ k = N + 3
      BY <1>1
    <3>2. N + 1 < N + 3
      BY <1>1
    <3> QED BY <1>0, <2>2, <3>1, <3>2 DEF Follows
  <2>4. \A i \in N + 1 .. Len(u3) : u3[i].twin = "first" /\ Names(u3[i], p) => \E j \in DOMAIN u3 : Follows(u3, i, j, p)
    <3>1. \A i \in N + 1 .. Len(u3) : i = N + 1 \/ i = N + 2 \/ i = N + 3
      BY <1>1, <1>10
    <3>2. N + 3 \in DOMAIN u3
      BY <1>1, <2>2
    <3> QED BY <1>0, <2>2, <2>3, <3>1, <3>2
  <2>5. N <= Len(u3)
    BY <1>1, <1>10
  <2> QED BY <1>10, <2>1, <2>4, <2>5, SecondedMore DEF Fine, N
<1>14. Fine(d, v2, p, E, f2) /\ Fine(d, u3, p, E, f2)
  BY <1>7, <1>11, <1>12, <1>13 DEF Fine
<1> QED BY <1>14 DEF v1, v2, u2, u3

(* Messages that mean an edit of paths of their operation, or none.        *)
ClearMsg == {m \in Msgs : Meaning(m) \in Edits /\ \A p \in Files : Names(Meaning(m), p) => p \in m.of}

LEMMA MeaningOfTold ==
  ASSUME NEW m, NEW rep, NEW c, Told(m, rep, c)
  PROVE  /\ m \in ClearMsg /\ Meaning(m) \in Edits
         /\ m.act = "rename_from" => Meaning(m) = NoEdit
<1>1. m \in FileMsg /\ Place(m) \in m.of /\ (m.act = "rename_to" => \E p \in m.of : p # Place(m))
  BY DEF Told
<1>2. m.of \subseteq Files /\ m.twin \in Twins /\ m.act \in {"new", "delete", "rename_from", "rename_to"}
  BY <1>1 DEF FileMsg
<1>3. Meaning(m) \in Edits /\ \A p \in Files : Names(Meaning(m), p) => p \in m.of
  <2>1. CASE m.act = "new"
    <3>1. Meaning(m) = EditOf("insert", Place(m), <<>>, m.twin)
      BY <2>1 DEF Meaning
    <3>2. EditOf("insert", Place(m), <<>>, "single") \in AnyEdit
      BY <1>1, <1>2 DEF AnyEdit
    <3> QED BY <1>1, <1>2, <3>1, <3>2, EditFacts, FilesAreNamed DEF Names
  <2>2. CASE m.act = "delete"
    <3>1. Meaning(m) = EditOf("remove", Place(m), <<>>, m.twin)
      BY <2>2 DEF Meaning
    <3>2. EditOf("remove", Place(m), <<>>, "single") \in AnyEdit
      BY <1>1, <1>2 DEF AnyEdit
    <3> QED BY <1>1, <1>2, <3>1, <3>2, EditFacts, FilesAreNamed DEF Names
  <2>3. CASE m.act = "rename_to"
    <3> DEFINE x == CHOOSE p \in m.of : p # Place(m)
    <3>1. Meaning(m) = EditOf("rename", x, Place(m), m.twin)
      BY <2>3 DEF Meaning
    <3>2. x \in m.of
      BY <1>1, <2>3
    <3> HIDE DEF x
    <3>3. EditOf("rename", x, Place(m), "single") \in AnyEdit
      BY <1>1, <1>2, <3>2 DEF AnyEdit
    <3> QED BY <1>1, <1>2, <3>1, <3>2, <3>3, EditFacts DEF Names
  <2>4. CASE m.act = "rename_from"
    <3>1. Meaning(m) = NoEdit
      BY <2>4 DEF Meaning
    <3> QED BY <3>1, NoEditFacts
  <2> QED BY <1>2, <2>1, <2>2, <2>3, <2>4
<1>4. m.act = "rename_from" => Meaning(m) = NoEdit
  BY DEF Meaning
<1> QED BY <1>1, <1>3, <1>4 DEF ClearMsg, Msgs

LEMMA MeaningOfMount == MountMsg \in ClearMsg /\ Meaning(MountMsg) = NoEdit
<1>1. Meaning(MountMsg) = NoEdit
  BY DEF Meaning, MountMsg
<1> QED BY <1>1, NoEditFacts DEF ClearMsg, Msgs

(* The edits on a way, one after the other.                                *)
Item(q, s, r, i) ==
  IF i <= Len(q) THEN q[i]
  ELSE IF i <= Len(q) + Len(s) THEN Meaning(s[i - Len(q)])
  ELSE Meaning(r[i - (Len(q) + Len(s))])

LEMMA MeaningsItems ==
  ASSUME NEW s \in Seq(ClearMsg)
  PROVE  /\ Meanings(s) \in Seq(Edits) /\ Len(Meanings(s)) = Len(s) /\ Len(s) \in Nat
         /\ \A i \in 1 .. Len(s) : Meanings(s)[i] = Meaning(s[i])
<1>1. Len(s) \in Nat /\ \A i \in 1 .. Len(s) : s[i] \in ClearMsg
  BY LenProperties, ElementOfSeq
<1>2. \A i \in 1 .. Len(s) : Meaning(s[i]) \in Edits
  BY <1>1 DEF ClearMsg
<1>3. Meanings(s) \in [1 .. Len(s) -> Edits]
  BY <1>2 DEF Meanings
<1>4. Meanings(s) \in Seq(Edits)
  BY <1>1, <1>3, SeqDef
<1>5. Len(Meanings(s)) = Len(s)
  <2>1. DOMAIN Meanings(s) = 1 .. Len(s)
    BY DEF Meanings
  <2>2. DOMAIN Meanings(s) = 1 .. Len(Meanings(s)) /\ Len(Meanings(s)) \in Nat
    BY <1>4, LenProperties
  <2> QED BY <1>1, <2>1, <2>2
<1> QED BY <1>1, <1>4, <1>5 DEF Meanings

LEMMA WayItems ==
  ASSUME NEW q \in Seq(Edits), NEW s \in Seq(ClearMsg), NEW r \in Seq(ClearMsg)
  PROVE  /\ Way(q, s, r) \in Seq(Edits) /\ Len(q) \in Nat /\ Len(s) \in Nat /\ Len(r) \in Nat
         /\ Len(Way(q, s, r)) = Len(q) + Len(s) + Len(r)
         /\ \A i \in 1 .. Len(q) + Len(s) + Len(r) : Way(q, s, r)[i] = Item(q, s, r, i)
<1> DEFINE A == Len(q)
           B == Len(s)
           C == Len(r)
           x == Meanings(s)
           y == Meanings(r)
           u == q \o x
           w == u \o y
<1>1. /\ x \in Seq(Edits) /\ Len(x) = B /\ B \in Nat /\ \A i \in 1 .. B : x[i] = Meaning(s[i])
      /\ y \in Seq(Edits) /\ Len(y) = C /\ C \in Nat /\ \A i \in 1 .. C : y[i] = Meaning(r[i])
      /\ A \in Nat
  BY MeaningsItems, LenProperties
<1> HIDE DEF x, y
<1>2. /\ u \in Seq(Edits) /\ Len(u) = A + B
      /\ \A i \in 1 .. A + B : u[i] = IF i <= A THEN q[i] ELSE x[i - A]
  <2>1. /\ q \o x \in Seq(Edits) /\ Len(q \o x) = Len(q) + Len(x)
        /\ \A i \in 1 .. Len(q) + Len(x) : (q \o x)[i] = IF i <= Len(q) THEN q[i] ELSE x[i - Len(q)]
    <3>1. q \in Seq(Edits) /\ x \in Seq(Edits)
      BY <1>1
    <3> QED BY <3>1, ConcatProperties, Zenon
  <2> QED BY <1>1, <2>1
<1> HIDE DEF u
<1>3. /\ w \in Seq(Edits) /\ Len(w) = (A + B) + C
      /\ \A i \in 1 .. (A + B) + C : w[i] = IF i <= A + B THEN u[i] ELSE y[i - (A + B)]
  <2>1. /\ u \o y \in Seq(Edits) /\ Len(u \o y) = Len(u) + Len(y)
        /\ \A i \in 1 .. Len(u) + Len(y) : (u \o y)[i] = IF i <= Len(u) THEN u[i] ELSE y[i - Len(u)]
    <3>1. u \in Seq(Edits) /\ y \in Seq(Edits)
      BY <1>1, <1>2
    <3> QED BY <3>1, ConcatProperties, Zenon
  <2> QED BY <1>1, <1>2, <2>1
<1> HIDE DEF w
<1>4. ASSUME NEW i \in 1 .. (A + B) + C PROVE w[i] = Item(q, s, r, i)
  <2>1. CASE i <= A
    <3>1. w[i] = u[i] /\ u[i] = q[i]
      BY <1>1, <1>2, <1>3, <2>1
    <3> QED BY <2>1, <3>1 DEF Item
  <2>2. CASE ~ (i <= A) /\ i <= A + B
    <3>1. w[i] = u[i] /\ u[i] = x[i - A] /\ i - A \in 1 .. B
      BY <1>1, <1>2, <1>3, <2>2
    <3> QED BY <1>1, <2>2, <3>1 DEF Item
  <2>3. CASE ~ (i <= A + B)
    <3>1. w[i] = y[i - (A + B)] /\ i - (A + B) \in 1 .. C /\ ~ (i <= A)
      BY <1>1, <1>3, <2>3
    <3> QED BY <1>1, <2>3, <3>1 DEF Item
  <2> QED BY <1>1, <2>1, <2>2, <2>3
<1>5. w = Way(q, s, r)
  BY DEF Way, w, u, x, y
<1> QED BY <1>1, <1>3, <1>4, <1>5

SameItems(q, s, r, q2, s2, r2) ==
  /\ Len(q) + Len(s) + Len(r) = Len(q2) + Len(s2) + Len(r2)
  /\ \A i \in 1 .. Len(q) + Len(s) + Len(r) : Item(q, s, r, i) = Item(q2, s2, r2, i)

LEMMA WaySame ==
  ASSUME NEW q \in Seq(Edits), NEW s \in Seq(ClearMsg), NEW r \in Seq(ClearMsg),
         NEW q2 \in Seq(Edits), NEW s2 \in Seq(ClearMsg), NEW r2 \in Seq(ClearMsg),
         SameItems(q, s, r, q2, s2, r2)
  PROVE  Way(q, s, r) = Way(q2, s2, r2)
<1> DEFINE w == Way(q, s, r)
           v == Way(q2, s2, r2)
           N == Len(q) + Len(s) + Len(r)
<1>0. \A i \in 1 .. N : Item(q, s, r, i) = Item(q2, s2, r2, i)
  BY DEF SameItems
<1>1. w \in Seq(Edits) /\ Len(w) = N /\ \A i \in 1 .. N : w[i] = Item(q, s, r, i)
  BY WayItems
<1>2. v \in Seq(Edits) /\ Len(v) = N /\ \A i \in 1 .. N : v[i] = Item(q2, s2, r2, i)
  <2>1. v \in Seq(Edits) /\ Len(v) = Len(q2) + Len(s2) + Len(r2)
        /\ \A i \in 1 .. Len(q2) + Len(s2) + Len(r2) : v[i] = Item(q2, s2, r2, i)
    BY WayItems
  <2> QED BY <2>1 DEF SameItems
<1> HIDE DEF w, v, N
<1>3. Len(w) = Len(v) /\ \A i \in 1 .. Len(w) : w[i] = v[i]
  BY <1>0, <1>1, <1>2
<1>4. w = v
  BY <1>1, <1>2, <1>3, SeqEqual
<1> QED BY <1>4 DEF w, v

(* Sending and receiving move a message on; the way stays the same.        *)
LEMMA WaySent ==
  ASSUME NEW q \in Seq(Edits), NEW s \in Seq(ClearMsg), NEW r \in Seq(ClearMsg), r # <<>>
  PROVE  Way(q, Append(s, Head(r)), Tail(r)) = Way(q, s, r) /\ Append(s, Head(r)) \in Seq(ClearMsg)
<1> DEFINE m == Head(r)
           s2 == Append(s, m)
           r2 == Tail(r)
           A == Len(q)
           B == Len(s)
           C == Len(r)
<1>1. A \in Nat /\ B \in Nat /\ C \in Nat /\ C # 0
  BY LenProperties, EmptySeq
<1>2. m \in ClearMsg /\ r2 \in Seq(ClearMsg) /\ Len(r2) = C - 1 /\ \A i \in 1 .. Len(r2) : r2[i] = r[i + 1]
  BY HeadTailProperties
<1>3. m = r[1]
  BY <1>1
<1> HIDE DEF m, r2
<1>4. s2 \in Seq(ClearMsg) /\ Len(s2) = B + 1 /\ (\A i \in 1 .. B : s2[i] = s[i]) /\ s2[B + 1] = m
  BY <1>2, AppendProperties
<1> HIDE DEF s2
<1>5. ASSUME NEW i \in 1 .. A + B + C PROVE Item(q, s2, r2, i) = Item(q, s, r, i)
  <2>1. CASE i <= A
    BY <2>1 DEF Item
  <2>2. CASE ~ (i <= A) /\ i <= A + B
    <3>1. i - A \in 1 .. B /\ i <= A + Len(s2)
      BY <1>1, <1>4, <2>2
    <3> QED BY <1>4, <2>2, <3>1 DEF Item
  <2>3. CASE i = A + B + 1
    <3>1. ~ (i <= A) /\ ~ (i <= A + B) /\ i <= A + Len(s2) /\ i - A = B + 1 /\ i - (A + B) = 1
      BY <1>1, <1>4, <2>3
    <3> QED BY <1>3, <1>4, <3>1 DEF Item
  <2>4. CASE i > A + B + 1
    <3>1. /\ ~ (i <= A) /\ ~ (i <= A + B) /\ ~ (i <= A + Len(s2))
          /\ i - (A + Len(s2)) \in 1 .. C - 1 /\ (i - (A + Len(s2))) + 1 = i - (A + B)
      BY <1>1, <1>4, <2>4
    <3> QED BY <1>2, <3>1 DEF Item
  <2> QED BY <1>1, <2>1, <2>2, <2>3, <2>4
<1>6. A + Len(s2) + Len(r2) = A + B + C
  BY <1>1, <1>2, <1>4
<1>7. Way(q, s2, r2) = Way(q, s, r)
  <2>1. SameItems(q, s2, r2, q, s, r)
    BY <1>5, <1>6 DEF SameItems
  <2> QED BY <1>2, <1>4, <2>1, WaySame
<1> QED BY <1>4, <1>7 DEF s2, r2, m

LEMMA WayReceived ==
  ASSUME NEW q \in Seq(Edits), NEW s \in Seq(ClearMsg), s # <<>>, NEW r \in Seq(ClearMsg)
  PROVE  /\ Way(Append(q, Meaning(Head(s))), Tail(s), r) = Way(q, s, r)
         /\ Head(s) \in ClearMsg /\ Meaning(Head(s)) \in Edits /\ Tail(s) \in Seq(ClearMsg)
<1> DEFINE x == Meaning(Head(s))
           q2 == Append(q, x)
           s2 == Tail(s)
           A == Len(q)
           B == Len(s)
           C == Len(r)
<1>1. A \in Nat /\ B \in Nat /\ C \in Nat /\ B # 0
  BY LenProperties, EmptySeq
<1>2. Head(s) \in ClearMsg /\ s2 \in Seq(ClearMsg) /\ Len(s2) = B - 1 /\ \A i \in 1 .. Len(s2) : s2[i] = s[i + 1]
  BY HeadTailProperties
<1>3. x = Meaning(s[1]) /\ x \in Edits
  BY <1>1, <1>2 DEF ClearMsg
<1> HIDE DEF x, s2
<1>4. q2 \in Seq(Edits) /\ Len(q2) = A + 1 /\ (\A i \in 1 .. A : q2[i] = q[i]) /\ q2[A + 1] = x
  BY <1>3, AppendProperties
<1> HIDE DEF q2
<1>5. ASSUME NEW i \in 1 .. A + B + C PROVE Item(q2, s2, r, i) = Item(q, s, r, i)
  <2>1. CASE i <= A
    <3>1. i \in 1 .. A /\ i <= Len(q2)
      BY <1>1, <1>4, <2>1
    <3> QED BY <1>4, <2>1, <3>1 DEF Item
  <2>2. CASE i = A + 1
    <3>1. ~ (i <= A) /\ i <= Len(q2) /\ i <= A + B /\ i - A = 1
      BY <1>1, <1>4, <2>2
    <3> QED BY <1>3, <1>4, <2>2, <3>1 DEF Item
  <2>3. CASE i > A + 1 /\ i <= A + B
    <3>1. /\ ~ (i <= A) /\ ~ (i <= Len(q2)) /\ i <= Len(q2) + Len(s2)
          /\ i - Len(q2) \in 1 .. Len(s2) /\ (i - Len(q2)) + 1 = i - A
      BY <1>1, <1>2, <1>4, <2>3
    <3> QED BY <1>2, <2>3, <3>1 DEF Item
  <2>4. CASE i > A + B
    <3>1. /\ ~ (i <= A) /\ ~ (i <= A + B) /\ ~ (i <= Len(q2)) /\ ~ (i <= Len(q2) + Len(s2))
          /\ Len(q2) + Len(s2) = A + B
      BY <1>1, <1>2, <1>4, <2>4
    <3> QED BY <3>1 DEF Item
  <2> QED BY <1>1, <2>1, <2>2, <2>3, <2>4
<1>6. Len(q2) + Len(s2) + C = A + B + C
  BY <1>1, <1>2, <1>4
<1>7. Way(q2, s2, r) = Way(q, s, r)
  <2>1. SameItems(q2, s2, r, q, s, r)
    BY <1>5, <1>6 DEF SameItems
  <2> QED BY <1>2, <1>4, <2>1, WaySame
<1> QED BY <1>2, <1>3, <1>7 DEF q2, s2, x

(* The handler takes the first edit of a way.                              *)
LEMMA WayPopped ==
  ASSUME NEW q \in Seq(Edits), q # <<>>, NEW s \in Seq(ClearMsg), NEW r \in Seq(ClearMsg)
  PROVE  Way(q, s, r) # <<>> /\ Way(q, s, r)[1] = Head(q) /\ Tail(Way(q, s, r)) = Way(Tail(q), s, r)
<1> DEFINE w == Way(q, s, r)
           q2 == Tail(q)
           v == Way(q2, s, r)
           A == Len(q)
           B == Len(s)
           C == Len(r)
           N == A + B + C
<1>1. w \in Seq(Edits) /\ Len(w) = N /\ A \in Nat /\ B \in Nat /\ C \in Nat
      /\ \A i \in 1 .. N : w[i] = Item(q, s, r, i)
  BY WayItems
<1>2. /\ A # 0 /\ q2 \in Seq(Edits) /\ Len(q2) = A - 1 /\ \A i \in 1 .. Len(q2) : q2[i] = q[i + 1]
      /\ Head(q) = q[1]
  BY HeadTailProperties, EmptySeq
<1>3. v \in Seq(Edits) /\ Len(v) = N - 1 /\ \A i \in 1 .. N - 1 : v[i] = Item(q2, s, r, i)
  <2>1. v \in Seq(Edits) /\ Len(v) = Len(q2) + B + C /\ \A i \in 1 .. Len(q2) + B + C : v[i] = Item(q2, s, r, i)
    BY <1>2, WayItems
  <2>2. Len(q2) + B + C = N - 1
    BY <1>1, <1>2
  <2> QED BY <2>1, <2>2
<1>4. N \in Nat /\ 1 \in 1 .. N /\ N # 0
  BY <1>1, <1>2
<1>5. w[1] = Head(q)
  <2>1. Item(q, s, r, 1) = q[1]
    BY <1>1, <1>2 DEF Item
  <2> QED BY <1>1, <1>2, <1>4, <2>1
<1> HIDE DEF w, v, q2
<1>6. w # <<>> /\ Tail(w) \in Seq(Edits) /\ Len(Tail(w)) = N - 1 /\ \A i \in 1 .. Len(Tail(w)) : Tail(w)[i] = w[i + 1]
  BY <1>1, <1>4, HeadTailProperties, EmptySeq
<1>7. ASSUME NEW i \in 1 .. N - 1 PROVE Item(q2, s, r, i) = Item(q, s, r, i + 1)
  <2>1. CASE i <= A - 1
    <3>1. i \in 1 .. Len(q2) /\ i <= Len(q2) /\ i + 1 <= A
      BY <1>1, <1>2, <2>1
    <3> QED BY <1>2, <3>1 DEF Item
  <2>2. CASE ~ (i <= A - 1) /\ i <= (A - 1) + B
    <3>1. /\ ~ (i <= Len(q2)) /\ i <= Len(q2) + B /\ i - Len(q2) = (i + 1) - A
          /\ ~ (i + 1 <= A) /\ i + 1 <= A + B
      BY <1>1, <1>2, <2>2
    <3> QED BY <3>1 DEF Item
  <2>3. CASE ~ (i <= (A - 1) + B)
    <3>1. /\ ~ (i <= Len(q2)) /\ ~ (i <= Len(q2) + B) /\ i - (Len(q2) + B) = (i + 1) - (A + B)
          /\ ~ (i + 1 <= A) /\ ~ (i + 1 <= A + B)
      BY <1>1, <1>2, <2>3
    <3> QED BY <3>1 DEF Item
  <2> QED BY <1>1, <2>1, <2>2, <2>3
<1>8. \A i \in 1 .. N - 1 : Tail(w)[i] = v[i]
  <2> TAKE i \in 1 .. N - 1
  <2>1. i + 1 \in 1 .. N
    BY <1>4
  <2>2. Tail(w)[i] = w[i + 1]
    BY <1>6
  <2> QED BY <1>1, <1>3, <1>7, <2>1, <2>2
<1>9. Tail(w) = v
  BY <1>3, <1>6, <1>8, SeqEqual
<1> QED BY <1>5, <1>6, <1>9 DEF w, v, q2

(* One more message of an operation.                                       *)
LEMMA WayMore ==
  ASSUME NEW q \in Seq(Edits), NEW s \in Seq(ClearMsg), NEW r \in Seq(ClearMsg), NEW m \in ClearMsg
  PROVE  Way(q, s, Append(r, m)) = Append(Way(q, s, r), Meaning(m)) /\ Append(r, m) \in Seq(ClearMsg)
<1> DEFINE w == Way(q, s, r)
           x == Meaning(m)
           r2 == Append(r, m)
           v == Way(q, s, r2)
           A == Len(q)
           B == Len(s)
           C == Len(r)
           N == A + B + C
<1>1. w \in Seq(Edits) /\ Len(w) = N /\ A \in Nat /\ B \in Nat /\ C \in Nat
      /\ \A i \in 1 .. N : w[i] = Item(q, s, r, i)
  BY WayItems
<1>2. r2 \in Seq(ClearMsg) /\ Len(r2) = C + 1 /\ (\A i \in 1 .. C : r2[i] = r[i]) /\ r2[C + 1] = m
  BY AppendProperties
<1> HIDE DEF r2
<1>3. v \in Seq(Edits) /\ Len(v) = N + 1 /\ \A i \in 1 .. N + 1 : v[i] = Item(q, s, r2, i)
  <2>1. v \in Seq(Edits) /\ Len(v) = A + B + Len(r2) /\ \A i \in 1 .. A + B + Len(r2) : v[i] = Item(q, s, r2, i)
    BY <1>2, WayItems
  <2>2. A + B + Len(r2) = N + 1
    BY <1>1, <1>2
  <2> QED BY <2>1, <2>2
<1>4. x \in Edits
  BY DEF ClearMsg
<1> HIDE DEF w, v, x
<1>5. /\ Append(w, x) \in Seq(Edits) /\ Len(Append(w, x)) = N + 1 /\ Append(w, x)[N + 1] = x
      /\ \A i \in 1 .. N : Append(w, x)[i] = w[i]
  <2> HIDE DEF N
  <2> QED BY <1>1, <1>4, AppendItems
<1>6. ASSUME NEW i \in 1 .. N + 1 PROVE Append(w, x)[i] = v[i]
  <2>1. CASE i <= N
    <3>1. i \in 1 .. N
      BY <1>1, <2>1
    <3>2. Item(q, s, r2, i) = Item(q, s, r, i)
      <4>1. ~ (i <= A + B) => i - (A + B) \in 1 .. C
        BY <1>1, <2>1
      <4> QED BY <1>2, <4>1 DEF Item
    <3> QED BY <1>1, <1>3, <1>5, <3>1, <3>2
  <2>2. CASE i = N + 1
    <3>1. ~ (i <= A) /\ ~ (i <= A + B) /\ i - (A + B) = C + 1
      BY <1>1, <2>2
    <3>2. Item(q, s, r2, i) = x
      BY <1>2, <3>1 DEF Item, x
    <3> QED BY <1>3, <1>5, <2>2, <3>2
  <2> QED BY <1>1, <2>1, <2>2
<1>7. Append(w, x) = v
  BY <1>3, <1>5, <1>6, SeqEqual
<1> QED BY <1>2, <1>7 DEF w, v, x, r2

(* One more edit in the queue, and one more message in the socket.         *)
LEMMA WayPut ==
  ASSUME NEW q \in Seq(Edits), NEW s \in Seq(ClearMsg), NEW r \in Seq(ClearMsg), NEW x \in Edits
  PROVE  /\ Append(q, x) \in Seq(Edits) /\ Way(Append(q, x), s, r) \in Seq(Edits) /\ Way(q, s, r) \in Seq(Edits)
         /\ Without(Way(Append(q, x), s, r), Way(q, s, r), Len(q) + 1)
         /\ Way(Append(q, x), s, r)[Len(q) + 1] = x
         /\ \A k \in 1 .. Len(q) : Way(Append(q, x), s, r)[k] = q[k]
<1> DEFINE q2 == Append(q, x)
           w == Way(q2, s, r)
           v == Way(q, s, r)
           A == Len(q)
           B == Len(s)
           C == Len(r)
           N == A + B + C
<1>1. v \in Seq(Edits) /\ Len(v) = N /\ A \in Nat /\ B \in Nat /\ C \in Nat
      /\ \A i \in 1 .. N : v[i] = Item(q, s, r, i)
  BY WayItems
<1>2. q2 \in Seq(Edits) /\ Len(q2) = A + 1 /\ (\A i \in 1 .. A : q2[i] = q[i]) /\ q2[A + 1] = x
  BY AppendProperties
<1> HIDE DEF q2
<1>3. w \in Seq(Edits) /\ Len(w) = N + 1 /\ \A i \in 1 .. N + 1 : w[i] = Item(q2, s, r, i)
  <2>1. w \in Seq(Edits) /\ Len(w) = Len(q2) + B + C /\ \A i \in 1 .. Len(q2) + B + C : w[i] = Item(q2, s, r, i)
    BY <1>2, WayItems
  <2>2. Len(q2) + B + C = N + 1
    BY <1>1, <1>2
  <2> QED BY <2>1, <2>2
<1> HIDE DEF w, v
<1>4. \A k \in 1 .. A : Item(q2, s, r, k) = q[k] /\ Item(q, s, r, k) = q[k] /\ k \in 1 .. N /\ k \in 1 .. N + 1
  <2> TAKE k \in 1 .. A
  <2>1. k <= A /\ k <= Len(q2) /\ k \in 1 .. N /\ k \in 1 .. N + 1
    BY <1>1, <1>2
  <2> QED BY <1>2, <2>1 DEF Item
<1>5. Item(q2, s, r, A + 1) = x /\ A + 1 \in 1 .. N + 1
  <2>1. A + 1 <= Len(q2) /\ A + 1 \in 1 .. N + 1
    BY <1>1, <1>2
  <2> QED BY <1>2, <2>1 DEF Item
<1>6. ASSUME NEW k \in A + 1 .. N PROVE Item(q2, s, r, k + 1) = Item(q, s, r, k) /\ k \in 1 .. N /\ k + 1 \in 1 .. N + 1
  <2>1. /\ ~ (k <= A) /\ ~ (k + 1 <= Len(q2)) /\ (k + 1) - Len(q2) = k - A
        /\ (k + 1 <= Len(q2) + B <=> k <= A + B) /\ (k + 1) - (Len(q2) + B) = k - (A + B)
        /\ k \in 1 .. N /\ k + 1 \in 1 .. N + 1
    BY <1>1, <1>2
  <2> QED BY <2>1 DEF Item
<1>7. Without(w, v, A + 1)
  <2>1. A + 1 \in Nat /\ 1 <= A + 1 /\ A + 1 <= Len(v) + 1 /\ Len(w) = Len(v) + 1 /\ (A + 1) - 1 = A
    BY <1>1, <1>3
  <2>2. \A k \in 1 .. A : w[k] = v[k]
    BY <1>1, <1>3, <1>4
  <2>3. \A k \in A + 1 .. N : w[k + 1] = v[k]
    BY <1>1, <1>3, <1>6
  <2> HIDE DEF A, N
  <2> QED BY <1>1, <2>1, <2>2, <2>3 DEF Without
<1>8. w[A + 1] = x /\ \A k \in 1 .. A : w[k] = q[k]
  BY <1>3, <1>4, <1>5
<1> QED BY <1>1, <1>2, <1>3, <1>7, <1>8 DEF w, v, q2

LEMMA WaySocketPut ==
  ASSUME NEW q \in Seq(Edits), NEW s \in Seq(ClearMsg), NEW r \in Seq(ClearMsg), NEW m \in ClearMsg
  PROVE  /\ Append(s, m) \in Seq(ClearMsg) /\ Way(q, Append(s, m), r) \in Seq(Edits) /\ Way(q, s, r) \in Seq(Edits)
         /\ \E c \in Nat :
              /\ Without(Way(q, Append(s, m), r), Way(q, s, r), c)
              /\ Way(q, Append(s, m), r)[c] = Meaning(m)
              /\ \A k \in DOMAIN Way(q, Append(s, m), r) :
                   c < k => \E j \in DOMAIN r : Way(q, Append(s, m), r)[k] = Meaning(r[j])
<1> DEFINE s2 == Append(s, m)
           w == Way(q, s2, r)
           v == Way(q, s, r)
           A == Len(q)
           B == Len(s)
           C == Len(r)
           N == A + B + C
           c == A + B + 1
<1>1. v \in Seq(Edits) /\ Len(v) = N /\ A \in Nat /\ B \in Nat /\ C \in Nat /\ DOMAIN r = 1 .. C
      /\ \A i \in 1 .. N : v[i] = Item(q, s, r, i)
  BY WayItems, LenProperties
<1>2. s2 \in Seq(ClearMsg) /\ Len(s2) = B + 1 /\ (\A i \in 1 .. B : s2[i] = s[i]) /\ s2[B + 1] = m
  BY AppendProperties
<1> HIDE DEF s2
<1>3. w \in Seq(Edits) /\ Len(w) = N + 1 /\ \A i \in 1 .. N + 1 : w[i] = Item(q, s2, r, i)
  <2>1. w \in Seq(Edits) /\ Len(w) = A + Len(s2) + C /\ \A i \in 1 .. A + Len(s2) + C : w[i] = Item(q, s2, r, i)
    BY <1>2, WayItems
  <2>2. A + Len(s2) + C = N + 1
    BY <1>1, <1>2
  <2> QED BY <2>1, <2>2
<1> HIDE DEF w, v
<1>4. ASSUME NEW k \in 1 .. A + B PROVE Item(q, s2, r, k) = Item(q, s, r, k) /\ k \in 1 .. N /\ k \in 1 .. N + 1
  <2>1. k <= A + B /\ k <= A + Len(s2) /\ (~ (k <= A) => k - A \in 1 .. B) /\ k \in 1 .. N /\ k \in 1 .. N + 1
    BY <1>1, <1>2
  <2> QED BY <1>2, <2>1 DEF Item
<1>5. Item(q, s2, r, c) = Meaning(m) /\ c \in 1 .. N + 1
  <2>1. ~ (c <= A) /\ c <= A + Len(s2) /\ c - A = B + 1 /\ c \in 1 .. N + 1
    BY <1>1, <1>2
  <2> QED BY <1>2, <2>1 DEF Item
<1>6. ASSUME NEW k \in c .. N
      PROVE  /\ Item(q, s2, r, k + 1) = Item(q, s, r, k) /\ k \in 1 .. N /\ k + 1 \in 1 .. N + 1
             /\ \E j \in 1 .. C : Item(q, s, r, k) = Meaning(r[j])
  <2>1. /\ ~ (k <= A) /\ ~ (k <= A + B) /\ ~ (k + 1 <= A) /\ ~ (k + 1 <= A + Len(s2))
        /\ (k + 1) - (A + Len(s2)) = k - (A + B) /\ k - (A + B) \in 1 .. C
        /\ k \in 1 .. N /\ k + 1 \in 1 .. N + 1
    BY <1>1, <1>2
  <2> QED BY <2>1 DEF Item
<1>7. Without(w, v, c)
  <2>1. c \in Nat /\ 1 <= c /\ c <= Len(v) + 1 /\ Len(w) = Len(v) + 1 /\ c - 1 = A + B
    BY <1>1, <1>3
  <2>2. \A k \in 1 .. A + B : w[k] = v[k]
    BY <1>1, <1>3, <1>4
  <2>3. \A k \in c .. N : w[k + 1] = v[k]
    BY <1>1, <1>3, <1>6
  <2> HIDE DEF c, N
  <2> QED BY <1>1, <2>1, <2>2, <2>3 DEF Without
<1>8. c \in Nat /\ w[c] = Meaning(m)
  BY <1>1, <1>3, <1>5
<1>9. ASSUME NEW k \in DOMAIN w, c < k PROVE \E j \in DOMAIN r : w[k] = Meaning(r[j])
  <2>1. DOMAIN w = 1 .. N + 1
    BY <1>3, LenProperties
  <2>2. k - 1 \in c .. N /\ (k - 1) + 1 = k
    BY <1>1, <1>9, <2>1
  <2>3. \E j \in 1 .. C : Item(q, s2, r, k) = Meaning(r[j])
    BY <1>6, <2>2
  <2> QED BY <1>1, <1>3, <2>1, <2>3
<1> HIDE DEF c
<1> QED BY <1>1, <1>2, <1>3, <1>7, <1>8, <1>9 DEF w, v, s2

(* An event that is delivered twice does no harm.                          *)
LEMMA FineDoubled ==
  ASSUME NEW q \in Seq(Edits), NEW s \in Seq(ClearMsg), NEW r \in Seq(ClearMsg), NEW x \in Edits,
         NEW d, NEW p, NEW E, NEW f, Fine(d, Way(Append(q, x), s, r), p, E, f)
  PROVE  Fine(d, Way(Append(Append(q, x), x), s, r), p, E, f)
<1> DEFINE q2 == Append(q, x)
           w == Way(Append(q2, x), s, r)
           v == Way(q2, s, r)
           c == Len(q2) + 1
<1>1. q2 \in Seq(Edits) /\ Len(q) \in Nat /\ Len(q2) = Len(q) + 1 /\ q2[Len(q) + 1] = x
  BY AppendItems
<1> HIDE DEF q2
<1>2. w \in Seq(Edits) /\ v \in Seq(Edits) /\ Without(w, v, c) /\ w[c] = x
      /\ \A k \in 1 .. Len(q2) : w[k] = q2[k]
  <2>1. q2 \in Seq(Edits)
    BY <1>1
  <2> QED BY <2>1, WayPut, ZenonT(60)
<1> HIDE DEF w, v
<1>3. 1 < c /\ w[c - 1] = x
  <2>1. 1 < c /\ c - 1 = Len(q) + 1 /\ Len(q) + 1 \in 1 .. Len(q2)
    BY <1>1
  <2> QED BY <1>1, <1>2, <2>1
<1> HIDE DEF c
<1>4. \A y : Idle(w, c, y)
  BY <1>2, <1>3 DEF Idle
<1>5. Fine(d, v, p, E, f)
  BY DEF v, q2
<1>6. Fine(d, w, p, E, f)
  BY <1>2, <1>4, <1>5, FineWith
<1> QED BY <1>6 DEF w, q2

(* Neither does a message of other files.                                  *)
LEMMA FineSocketPut ==
  ASSUME NEW q \in Seq(Edits), NEW s \in Seq(ClearMsg), NEW r \in Seq(ClearMsg), NEW m \in ClearMsg,
         NEW d, NEW p \in Files, NEW E, NEW f, Fine(d, Way(q, s, r), p, E, f),
         p \notin m.of, \A j \in DOMAIN r : m.of \cap r[j].of = {}
  PROVE  Fine(d, Way(q, Append(s, m), r), p, E, f)
<1> DEFINE w == Way(q, Append(s, m), r)
           v == Way(q, s, r)
<1>1. PICK c \in Nat : /\ Without(w, v, c) /\ w[c] = Meaning(m)
                       /\ \A k \in DOMAIN w : c < k => \E j \in DOMAIN r : w[k] = Meaning(r[j])
  BY WaySocketPut
<1>2. w \in Seq(Edits) /\ v \in Seq(Edits)
  BY WaySocketPut
<1>3. \A y \in Files : Names(Meaning(m), y) => y \in m.of
  BY DEF ClearMsg
<1>4. \A j \in DOMAIN r : r[j] \in ClearMsg
  <2>1. DOMAIN r = 1 .. Len(r)
    BY LenProperties
  <2> QED BY <2>1, ElementOfSeq
<1> HIDE DEF w
<1>5. ASSUME NEW k \in DOMAIN w, c < k, Renames(w[k], p, E) PROVE Idle(w, c, w[k].src) /\ Idle(w, c, w[k].dst)
  <2>1. PICK j \in DOMAIN r : w[k] = Meaning(r[j])
    BY <1>1, <1>5
  <2>2. w[k] \in Edits /\ \A y \in Files : Names(w[k], y) => y \in r[j].of
    BY <1>4, <2>1 DEF ClearMsg
  <2>3. w[k].src \in Files /\ w[k].dst \in Files
    BY <1>5, <2>2, RenameOfFiles DEF Renames
  <2>4. w[k].src \in r[j].of /\ w[k].dst \in r[j].of
    BY <2>2, <2>3 DEF Names
  <2>5. w[k].src \notin m.of /\ w[k].dst \notin m.of
    BY <2>4
  <2> QED BY <1>1, <1>3, <2>3, <2>5 DEF Idle
<1>6. Idle(w, c, p)
  BY <1>1, <1>3 DEF Idle
<1>7. Fine(d, w, p, E, f)
  <2> HIDE DEF v
  <2>1. Fine(d, v, p, E, f)
    BY DEF v
  <2> QED BY <1>1, <1>2, <1>5, <1>6, <2>1, FineWith
<1> QED BY <1>7 DEF w

(* An edit of files of which an event was missed may come or go.           *)
LEMMA FineQueuePut ==
  ASSUME NEW q \in Seq(Edits), NEW s \in Seq(ClearMsg), NEW r \in Seq(ClearMsg), NEW x \in Edits,
         NEW d, NEW E, NEW f, NEW p \in Files \ E, \A y \in Files \ E : ~ Names(x, y)
  PROVE  Fine(d, Way(Append(q, x), s, r), p, E, f) <=> Fine(d, Way(q, s, r), p, E, f)
<1> DEFINE w == Way(Append(q, x), s, r)
           v == Way(q, s, r)
           c == Len(q) + 1
<1>1. w \in Seq(Edits) /\ v \in Seq(Edits) /\ Without(w, v, c) /\ w[c] = x
  BY WayPut
<1> HIDE DEF w, v, c
<1>2. ~ Names(w[c], p) /\ Idle(w, c, p)
  BY <1>1 DEF Idle
<1>3. ASSUME NEW k \in DOMAIN w, Renames(w[k], p, E) PROVE Idle(w, c, w[k].src) /\ Idle(w, c, w[k].dst)
  <2>1. w[k] \in Edits
    <3>1. DOMAIN w = 1 .. Len(w)
      BY <1>1, LenProperties
    <3> QED BY <1>1, <3>1, ElementOfSeq
  <2>2. w[k].src \in Files \ E /\ w[k].dst \in Files \ E
    BY <1>3, <2>1, RenameOfFiles DEF Renames
  <2> QED BY <1>1, <2>2 DEF Idle
<1>4. Fine(d, w, p, E, f) <=> Fine(d, v, p, E, f)
  BY <1>1, <1>2, <1>3, FineWith, FineWithout
<1> QED BY <1>4 DEF w, v

-----------------------------------------------------------------------------
(* The variables that hold messages, as the steps keep them.               *)
Fit(o, s, h) ==
  /\ s \in Seq(ClearMsg) /\ o \in [Thread -> Seq(ClearMsg)]
  /\ h \in [Thread -> SUBSET Files] /\ Locked(o, h)

LEMMA SeqNarrowed ==
  ASSUME NEW A, NEW B, NEW s \in Seq(A), \A i \in DOMAIN s : s[i] \in B
  PROVE  s \in Seq(B)
<1>1. Len(s) \in Nat /\ s \in [1 .. Len(s) -> A]
  BY LenProperties
<1>2. s \in [1 .. Len(s) -> B]
  BY <1>1
<1> QED BY <1>1, <1>2, SeqDef

LEMMA SentAreClear ==
  ASSUME NEW o \in [Thread -> Seq(FileMsg)], NEW s \in Seq(Msgs), NEW h \in [Thread -> SUBSET Files],
         NEW table, NEW rep, NEW c, Honest(Sent(o, s), table, rep, c), Locked(o, h)
  PROVE  Fit(o, s, h)
<1>1. \A m \in Sent(o, s) : m \in ClearMsg
  BY MeaningOfTold, MeaningOfMount DEF Honest
<1>2. \A i \in DOMAIN s : s[i] \in ClearMsg
  BY <1>1 DEF Sent, Range
<1>3. s \in Seq(ClearMsg)
  BY <1>2, SeqNarrowed
<1>4. ASSUME NEW t \in Thread PROVE o[t] \in Seq(ClearMsg)
  <2>1. \A i \in DOMAIN o[t] : o[t][i] \in ClearMsg
    BY <1>1 DEF Sent, Range
  <2>2. o[t] \in Seq(FileMsg)
    OBVIOUS
  <2> QED BY <2>1, <2>2, SeqNarrowed
<1> QED BY <1>3, <1>4 DEF Fit

LEMMA WaysTypes ==
  ASSUME IInv
  PROVE  /\ Fit(outbox, socket, held) /\ queue \in Seq(Edits) /\ Pushed(saved) \in Edits
         /\ new_msg \in BOOLEAN /\ handler.tmpActions \in Seq(Edits)
         /\ \A q \in Queues(queue, new_msg, saved) : q \in Seq(Edits)
<1>1. Fit(outbox, socket, held)
  BY SentAreClear DEF IInv, Types, Msgs
<1>2. queue \in Seq(Edits) /\ Pushed(saved) \in Edits /\ new_msg \in BOOLEAN /\ handler.tmpActions \in Seq(Edits)
  BY DEF IInv, Types, Sound, HandlerState
<1>3. Append(queue, Pushed(saved)) \in Seq(Edits)
  BY <1>2, AppendProperties
<1> QED BY <1>1, <1>2, <1>3 DEF Queues

LEMMA FitAfter ==
  ASSUME IInv'
  PROVE  Fit(outbox', socket', held')
BY SentAreClear DEF IInv, Types, Msgs

LEMMA UnsentOf ==
  ASSUME NEW o, NEW s, NEW h, Fit(o, s, h), NEW t \in Thread, NEW p \in h[t]
  PROVE  Unsent(o, h, p) = o[t]
<1> DEFINE u == CHOOSE v \in Thread : p \in h[v]
<1>1. u \in Thread /\ p \in h[u]
  OBVIOUS
<1> HIDE DEF u
<1>2. u = t
  BY <1>1 DEF Fit, Locked
<1> QED BY <1>2 DEF Unsent, u

LEMMA UnsentNone ==
  ASSUME NEW o, NEW h, NEW p, \A t \in Thread : p \notin h[t]
  PROVE  Unsent(o, h, p) = <<>>
BY DEF Unsent

LEMMA UnsentType ==
  ASSUME NEW o, NEW s, NEW h, Fit(o, s, h), NEW p
  PROVE  Unsent(o, h, p) \in Seq(ClearMsg)
<1>1. <<>> \in Seq(ClearMsg)
  OBVIOUS
<1>2. CASE \E t \in Thread : p \in h[t]
  BY <1>2, UnsentOf, SMTT(30) DEF Fit
<1>3. CASE \A t \in Thread : p \notin h[t]
  BY <1>1, <1>3, UnsentNone
<1> QED BY <1>2, <1>3

LEMMA UnsentElsewhere ==
  ASSUME NEW o, NEW s, NEW h, Fit(o, s, h), NEW o2, NEW s2, NEW h2, Fit(o2, s2, h2),
         NEW t \in Thread, \A u \in Thread : u # t => o2[u] = o[u] /\ h2[u] = h[u],
         NEW p, p \notin h[t], p \notin h2[t]
  PROVE  Unsent(o2, h2, p) = Unsent(o, h, p)
<1>1. CASE \E u \in Thread : p \in h[u]
  <2>1. PICK u \in Thread : p \in h[u]
    BY <1>1
  <2>2. u # t /\ p \in h2[u] /\ o2[u] = o[u]
    BY <2>1
  <2> QED BY <2>1, <2>2, UnsentOf
<1>2. CASE \A u \in Thread : p \notin h[u]
  <2>1. \A u \in Thread : p \notin h2[u]
    BY <1>2
  <2> QED BY <1>2, <2>1, UnsentNone
<1> QED BY <1>1, <1>2

LEMMA UnsentOthers ==
  ASSUME NEW o, NEW s, NEW h, Fit(o, s, h), NEW t \in Thread, NEW p, p \notin h[t]
  PROVE  \A j \in DOMAIN Unsent(o, h, p) : h[t] \cap Unsent(o, h, p)[j].of = {}
<1>1. CASE \E u \in Thread : p \in h[u]
  <2>1. PICK u \in Thread : p \in h[u]
    BY <1>1
  <2>2. u # t /\ Unsent(o, h, p) = o[u]
    BY <2>1, UnsentOf
  <2> QED BY <2>2 DEF Fit, Locked
<1>2. CASE \A u \in Thread : p \notin h[u]
  <2>1. DOMAIN <<>> = {}
    OBVIOUS
  <2> QED BY <1>2, <2>1, UnsentNone
<1> QED BY <1>1, <1>2

(* Files that one edit on its way names have the same before it.           *)
LEMMA WaysAlike ==
  ASSUME NEW o, NEW s, NEW h, Fit(o, s, h), NEW q \in Seq(Edits), NEW E
  PROVE  Alike([r \in Files |-> Way(q, s, Unsent(o, h, r))], E)
<1> DEFINE W == [r \in Files |-> Way(q, s, Unsent(o, h, r))]
           A == Len(q)
           B == Len(s)
<1>1. \A r : Unsent(o, h, r) \in Seq(ClearMsg)
  BY UnsentType
<1>2. \A r \in Files : /\ Way(q, s, Unsent(o, h, r)) \in Seq(Edits) /\ A \in Nat /\ B \in Nat /\ Len(Unsent(o, h, r)) \in Nat
                       /\ Len(Way(q, s, Unsent(o, h, r))) = A + B + Len(Unsent(o, h, r))
                       /\ \A i \in 1 .. A + B + Len(Unsent(o, h, r)) : 
                            Way(q, s, Unsent(o, h, r))[i] = Item(q, s, Unsent(o, h, r), i)
  BY <1>1, WayItems DEF Fit
<1> SUFFICES ASSUME NEW p \in Files \ E, NEW r \in Files \ E, NEW i \in DOMAIN W[p],
                    Names(W[p][i], p), Names(W[p][i], r)
             PROVE  i \in DOMAIN W[r] /\ \A k \in 1 .. i : W[r][k] = W[p][k]
  BY DEF Alike
<1> DEFINE up == Unsent(o, h, p)
           ur == Unsent(o, h, r)
<1>3. W[p] = Way(q, s, up) /\ W[r] = Way(q, s, ur)
  OBVIOUS
<1>4. DOMAIN W[p] = 1 .. A + B + Len(up) /\ DOMAIN W[r] = 1 .. A + B + Len(ur)
  BY <1>2, <1>3, LenProperties
<1>5. i \in Nat /\ 1 <= i /\ i <= A + B + Len(up) /\ Len(up) \in Nat /\ Len(ur) \in Nat /\ A \in Nat /\ B \in Nat
  BY <1>2, <1>4
<1>6. /\ \A k \in 1 .. A + B + Len(up) : W[p][k] = Item(q, s, up, k)
      /\ \A k \in 1 .. A + B + Len(ur) : W[r][k] = Item(q, s, ur, k)
  BY <1>2, <1>3
<1>7. CASE i <= A + B
  <2>1. i \in 1 .. A + B + Len(ur)
    BY <1>5, <1>7
  <2>2. ASSUME NEW k \in 1 .. i PROVE W[r][k] = W[p][k]
    <3>1. k \in 1 .. A + B + Len(up) /\ k \in 1 .. A + B + Len(ur) /\ k <= A + B
      BY <1>5, <1>7
    <3> HIDE DEF W, up, ur
    <3>2. Item(q, s, up, k) = Item(q, s, ur, k)
      BY <3>1 DEF Item
    <3> QED BY <1>6, <3>1, <3>2
  <2> QED BY <1>4, <2>1, <2>2
<1>8. CASE A + B < i
  <2>1. W[p][i] = Meaning(up[i - (A + B)])
    <3>1. ~(i <= A) /\ ~(i <= A + B) /\ i \in 1 .. A + B + Len(up)
      BY <1>5, <1>8
    <3> HIDE DEF W, up
    <3> QED BY <1>6, <3>1 DEF Item
  <2>2. i - (A + B) \in 1 .. Len(up)
    BY <1>5, <1>8
  <2>3. up \in Seq(ClearMsg) /\ i - (A + B) \in DOMAIN up
    BY <1>1, <2>2, LenProperties
  <2> HIDE DEF W
  <2>4. up[i - (A + B)] \in ClearMsg
    BY <2>3, <2>2, ElementOfSeq
  <2>5. p \in up[i - (A + B)].of /\ r \in up[i - (A + B)].of
    <3> HIDE DEF up
    <3> QED BY <2>1, <2>4 DEF ClearMsg
  <2>6. PICK t \in Thread : p \in h[t]
    <3>1. ~ \A t \in Thread : p \notin h[t]
      <4> SUFFICES ASSUME \A t \in Thread : p \notin h[t] PROVE FALSE
        OBVIOUS
      <4>1. up = <<>>
        BY UnsentNone
      <4>2. Len(up) = 0
        BY <4>1
      <4> HIDE DEF up
      <4> QED BY <2>2, <4>2
    <3> QED BY <3>1
  <2>7. up = o[t]
    BY <2>6, UnsentOf
  <2>8. r \in h[t]
    BY <2>3, <2>5, <2>7 DEF Fit, Locked
  <2>9. ur = up
    BY <2>7, <2>8, UnsentOf
  <2>10. W[r] = W[p]
    BY <1>3, <2>9
  <2> QED BY <2>10
<1> QED BY <1>5, <1>7, <1>8

(* onHandleEvent with one more edit.                                       *)
LEMMA ApplyAllAppend ==
  ASSUME NEW d, NEW es \in Seq(Edits), NEW e \in Edits
  PROVE  ApplyAll(d, Append(es, e)) = Apply(ApplyAll(d, es), e)
<1> DEFINE es2 == Append(es, e)
           N == Len(es)
<1>1. /\ es2 \in Seq(Edits) /\ N \in Nat /\ Len(es2) = N + 1 /\ es2[N + 1] = e
      /\ \A i \in 1 .. N : es2[i] = es[i]
  BY AppendFacts, LenProperties
<1> HIDE DEF es2
<1>2. PICK f : /\ f = [i \in 0 .. N |-> IF i = 0 THEN d ELSE Apply(f[i - 1], es[i])]
               /\ ApplyAll(d, es) = f[N]
  BY ApplyAllSteps
<1>3. PICK g : /\ g = [i \in 0 .. Len(es2) |-> IF i = 0 THEN d ELSE Apply(g[i - 1], es2[i])]
               /\ ApplyAll(d, es2) = g[Len(es2)]
  BY <1>1, ApplyAllSteps
<1>4. \A i \in 0 .. N : f[i] = IF i = 0 THEN d ELSE Apply(f[i - 1], es[i])
  BY <1>2
<1>5. \A i \in 0 .. N + 1 : g[i] = IF i = 0 THEN d ELSE Apply(g[i - 1], es2[i])
  BY <1>1, <1>3
<1> DEFINE out == {n \in 0 .. N : f[n] # g[n]}
<1>6. out = {}
  <2>1. SUFFICES ASSUME out # {} PROVE FALSE
    OBVIOUS
  <2>2. PICK n \in out : \A k \in out : n <= k
    <3>1. out \subseteq Nat
      OBVIOUS
    <3> HIDE DEF out
    <3> QED BY <2>1, <3>1, SmallestNumber
  <2>3. n \in 0 .. N /\ f[n] # g[n]
    BY <2>2
  <2>4. CASE n = 0
    <3>1. 0 \in 0 .. N /\ 0 \in 0 .. N + 1
      BY <1>1
    <3> QED BY <1>4, <1>5, <2>3, <2>4, <3>1
  <2>5. CASE n # 0
    <3>1. n \in 1 .. N /\ n - 1 \in 0 .. N /\ n \in 0 .. N + 1 /\ ~(n <= n - 1)
      BY <1>1, <2>3, <2>5
    <3>2. f[n - 1] = g[n - 1]
      BY <2>2, <3>1
    <3>3. f[n] = Apply(f[n - 1], es[n])
      BY <1>4, <2>3, <2>5
    <3>4. g[n] = Apply(g[n - 1], es2[n])
      BY <1>5, <2>5, <3>1
    <3> QED BY <1>1, <2>3, <3>1, <3>2, <3>3, <3>4
  <2> QED BY <2>4, <2>5
<1>7. N \in 0 .. N /\ N + 1 \in 0 .. N + 1 /\ N + 1 # 0 /\ (N + 1) - 1 = N
  BY <1>1
<1>8. f[N] = g[N]
  BY <1>6, <1>7
<1>9. g[N + 1] = Apply(g[N], e)
  BY <1>1, <1>5, <1>7
<1> QED BY <1>1, <1>2, <1>3, <1>8, <1>9 DEF es2

LEMMA ApplyAllNone ==
  ASSUME NEW d
  PROVE  ApplyAll(d, <<>>) = d
<1> DEFINE es == <<>>
<1>1. es \in Seq(Edits) /\ Len(es) = 0
  OBVIOUS
<1> HIDE DEF es
<1>2. PICK f : /\ f = [i \in 0 .. Len(es) |-> IF i = 0 THEN d ELSE Apply(f[i - 1], es[i])]
               /\ ApplyAll(d, es) = f[Len(es)]
  BY <1>1, ApplyAllSteps
<1>3. \A i \in 0 .. Len(es) : f[i] = IF i = 0 THEN d ELSE Apply(f[i - 1], es[i])
  BY <1>2
<1>4. 0 \in 0 .. Len(es)
  BY <1>1
<1>5. ApplyAll(d, es) = d
  BY <1>1, <1>2, <1>3, <1>4
<1> QED BY <1>5 DEF es

-----------------------------------------------------------------------------
(* What a step does to the edits on their way.                             *)

LEMMA WaysKept ==
  ASSUME Ways, UNCHANGED <<outbox, held, socket, excused, files>>,
         ApplyAll(index', handler'.tmpActions) = ApplyAll(index, handler.tmpActions),
         Queues(queue', new_msg', saved') \subseteq Queues(queue, new_msg, saved)
  PROVE  Ways'
BY DEF Ways, Known

LEMMA WayOfNothing == Way(<<>>, <<>>, <<>>) \in Seq(Edits) /\ Len(Way(<<>>, <<>>, <<>>)) = 0
<1> DEFINE none == <<>>
<1>1. none \in Seq(Edits) /\ none \in Seq(ClearMsg) /\ Len(none) = 0
  OBVIOUS
<1> HIDE DEF none
<1>2. /\ Way(none, none, none) \in Seq(Edits)
      /\ Len(Way(none, none, none)) = Len(none) + Len(none) + Len(none)
  BY <1>1, WayItems, Zenon
<1>3. Len(Way(none, none, none)) = 0
  BY <1>1, <1>2
<1> QED BY <1>2, <1>3 DEF none

LEMMA InitWays == Init => Ways
<1> SUFFICES ASSUME Init, NEW q \in Queues(queue, new_msg, saved), NEW p \in Files \ excused
             PROVE  Fine(Known, Way(q, socket, Unsent(outbox, held, p)), p, excused, files)
  BY DEF Ways
<1>1. q = <<>> /\ socket = <<>> /\ files = InitFiles
  BY DEF Init, Queues
<1>2. Unsent(outbox, held, p) = <<>>
  <2>1. \A t \in Thread : p \notin held[t]
    BY DEF Init
  <2> QED BY <2>1, UnsentNone
<1>3. Known = InitFiles
  BY ApplyAllNone, RestingFacts DEF Known, Init
<1> DEFINE w == Way(<<>>, <<>>, <<>>)
<1>4. w \in Seq(Edits) /\ Len(w) = 0
  BY WayOfNothing
<1> HIDE DEF w
<1>5. DOMAIN w = {}
  <2>1. DOMAIN w = 1 .. 0 /\ 1 .. 0 = {}
    BY <1>4, LenProperties
  <2> QED BY <2>1
<1>6. Has(InitFiles, w, Len(w), p) <=> p \in InitFiles
  <2>1. 1 .. 0 = {}
    OBVIOUS
  <2> QED BY <1>4, <2>1 DEF Has
<1>7. Fine(InitFiles, w, p, excused, InitFiles)
  BY <1>5, <1>6 DEF Fine, Leads, Sourced, Seconded
<1> QED BY <1>1, <1>2, <1>3, <1>7 DEF w

(* A thread has sent its first message.                                    *)
FirstSent(o, h, o2, h2, t) ==
  /\ o[t] # <<>> /\ o2[t] = Tail(o[t]) /\ h2[t] = IF Len(o[t]) = 1 THEN {} ELSE h[t]
  /\ \A u \in Thread : u # t => o2[u] = o[u] /\ h2[u] = h[u]

LEMMA UnsentSent ==
  ASSUME NEW o, NEW s, NEW h, Fit(o, s, h), NEW o2, NEW s2, NEW h2, Fit(o2, s2, h2),
         NEW t \in Thread, FirstSent(o, h, o2, h2, t), NEW p
  PROVE  /\ p \in h[t] => Unsent(o2, h2, p) = Tail(o[t])
         /\ p \notin h[t] => Unsent(o2, h2, p) = Unsent(o, h, p)
<1>1. o \in [Thread -> Seq(ClearMsg)] /\ h \in [Thread -> SUBSET Files]
  BY DEF Fit
<1>2. o[t] # <<>> /\ o2[t] = Tail(o[t]) /\ \A u \in Thread : u # t => o2[u] = o[u] /\ h2[u] = h[u]
  BY DEF FirstSent
<1>3. h2[t] = IF Len(o[t]) = 1 THEN {} ELSE h[t]
  BY DEF FirstSent
<1>4. CASE p \notin h[t]
  <2>1. p \notin h2[t]
    BY <1>3, <1>4
  <2> QED BY <1>2, <1>4, <2>1, UnsentElsewhere
<1>5. CASE p \in h[t] /\ Len(o[t]) # 1
  <2>1. p \in h2[t]
    BY <1>3, <1>5
  <2>2. Unsent(o2, h2, p) = o2[t]
    BY <2>1, UnsentOf
  <2> QED BY <1>2, <1>5, <2>2
<1>6. CASE p \in h[t] /\ Len(o[t]) = 1
  <2>1. Tail(o[t]) = <<>>
    <3>1. Tail(o[t]) \in Seq(ClearMsg) /\ Len(Tail(o[t])) = 0
      BY <1>1, <1>2, <1>6, HeadTailProperties
    <3> QED BY <3>1, EmptySeq
  <2>2. \A u \in Thread : p \notin h2[u]
    <3>1. \A u \in Thread : u # t => p \notin h[u]
      BY <1>6 DEF Fit, Locked
    <3> QED BY <1>2, <1>3, <1>6, <3>1
  <2> QED BY <1>6, <2>1, <2>2, UnsentNone
<1> QED BY <1>4, <1>5, <1>6

LEMMA SendWays ==
  ASSUME IInv, IInv', Ways, NEW t \in Thread, SendEvent(t)
  PROVE  Ways'
<1> DEFINE m == Head(outbox[t])
<1>1. /\ outbox[t] # <<>> /\ Multicast(m) /\ outbox' = [outbox EXCEPT ![t] = Tail(outbox[t])]
      /\ held' = IF Len(outbox[t]) = 1 THEN [held EXCEPT ![t] = {}] ELSE held
      /\ UNCHANGED <<files, index, handler, queue, new_msg, saved>>
  BY DEF SendEvent, sourceVars, mainVars
<1>2. Fit(outbox, socket, held) /\ Fit(outbox', socket', held')
  BY WaysTypes, FitAfter
<1>3. outbox[t] \in Seq(ClearMsg) /\ socket \in Seq(ClearMsg)
  BY <1>2 DEF Fit
<1>4. m \in ClearMsg /\ m.of = held[t]
  <2>1. m \in ClearMsg /\ 1 \in DOMAIN outbox[t] /\ outbox[t][1] = m
    BY <1>1, <1>3, TailFacts
  <2> QED BY <1>2, <2>1 DEF Fit, Locked
<1>5. \A p : /\ p \in held[t] => Unsent(outbox', held', p) = Tail(outbox[t])
             /\ p \notin held[t] => Unsent(outbox', held', p) = Unsent(outbox, held, p)
  <2>1. FirstSent(outbox, held, outbox', held', t)
    BY <1>1, <1>2 DEF Fit, FirstSent
  <2> QED BY <1>2, <2>1, UnsentSent
<1>6. Known' = Known
  BY <1>1 DEF Known
<1> HIDE DEF m
<1> SUFFICES ASSUME NEW q \in Queues(queue', new_msg', saved'), NEW p \in Files \ excused'
             PROVE  Fine(Known, Way(q, socket', Unsent(outbox', held', p)), p, excused', files)
  BY <1>1, <1>6 DEF Ways
<1> DEFINE r == Unsent(outbox, held, p)
<1>7. q \in Queues(queue, new_msg, saved) /\ q \in Seq(Edits) /\ r \in Seq(ClearMsg)
  BY <1>1, <1>2, WaysTypes, UnsentType
<1>8. CASE socket' = Append(socket, m) /\ excused' = excused
  <2>1. Fine(Known, Way(q, socket, r), p, excused, files)
    BY <1>7, <1>8 DEF Ways
  <2>2. CASE p \in held[t]
    <3>1. r = outbox[t]
      BY <1>2, <2>2, UnsentOf
    <3>2. Way(q, Append(socket, m), Tail(outbox[t])) = Way(q, socket, outbox[t])
      BY <1>1, <1>3, <1>7, WaySent DEF m
    <3> QED BY <1>5, <1>8, <2>1, <2>2, <3>1, <3>2
  <2>3. CASE p \notin held[t]
    <3>1. \A j \in DOMAIN r : m.of \cap r[j].of = {}
      BY <1>2, <1>4, <2>3, UnsentOthers
    <3> HIDE DEF r
    <3>2. Fine(Known, Way(q, Append(socket, m), r), p, excused, files)
      BY <1>3, <1>4, <1>7, <2>1, <2>3, <3>1, FineSocketPut
    <3> QED BY <1>5, <1>8, <2>3, <3>2 DEF r
  <2> QED BY <2>2, <2>3
<1>9. CASE socket' = socket /\ excused' = excused \cup m.of
  <2>1. p \notin held[t] /\ p \notin excused
    BY <1>4, <1>9
  <2>2. Fine(Known, Way(q, socket, r), p, excused, files)
    BY <1>7, <2>1 DEF Ways
  <2>3. Fine(Known, Way(q, socket, r), p, excused', files)
    <3>1. excused \subseteq excused' /\ (p \in files <=> p \in files)
      BY <1>9
    <3> HIDE DEF r
    <3> QED BY <2>2, <3>1, FineElsewhere
  <2> QED BY <1>5, <1>9, <2>1, <2>3
<1> QED BY <1>1, <1>8, <1>9 DEF Multicast

LEMMA SendMountWays ==
  ASSUME IInv, Ways, SendMount
  PROVE  Ways'
<1>1. Multicast(MountMsg) /\ UNCHANGED <<files, outbox, held, index, handler, queue, new_msg, saved>>
  BY DEF SendMount, sourceVars, mainVars
<1>2. MountMsg.of = {} /\ MountMsg \in ClearMsg
  BY MeaningOfMount DEF MountMsg
<1>3. CASE socket' = socket /\ excused' = excused
  BY <1>1, <1>3, WaysKept
<1>4. CASE socket' = Append(socket, MountMsg) /\ excused' = excused
  <2> SUFFICES ASSUME NEW q \in Queues(queue, new_msg, saved), NEW p \in Files \ excused
               PROVE  Fine(Known, Way(q, Append(socket, MountMsg), Unsent(outbox, held, p)), p, excused, files)
    BY <1>1, <1>4 DEF Ways, Known
  <2> DEFINE r == Unsent(outbox, held, p)
  <2>1. Fit(outbox, socket, held) /\ q \in Seq(Edits)
    BY WaysTypes
  <2>2. socket \in Seq(ClearMsg) /\ r \in Seq(ClearMsg)
    BY <2>1, UnsentType DEF Fit
  <2>3. Fine(Known, Way(q, socket, r), p, excused, files)
    BY DEF Ways
  <2> HIDE DEF r
  <2>4. Fine(Known, Way(q, Append(socket, MountMsg), r), p, excused, files)
    BY <1>2, <2>1, <2>2, <2>3, FineSocketPut
  <2> QED BY <2>4 DEF r
<1> QED BY <1>1, <1>2, <1>3, <1>4 DEF Multicast

LEMMA ReceiveErrorWays ==
  ASSUME IInv, Ways, ReceiveError
  PROVE  Ways'
<1>1. /\ PushEvent(new_msg, saved)
      /\ UNCHANGED <<files, outbox, held, socket, index, handler, new_msg, saved, excused>>
  BY DEF ReceiveError, kernelVars, sourceVars, history
<1>2. CASE ~new_msg
  BY <1>1, <1>2, WaysKept DEF PushEvent
<1>3. CASE new_msg
  <2> DEFINE x == Pushed(saved)
             q1 == Append(queue, x)
  <2>1. queue' = q1
    BY <1>1, <1>3 DEF PushEvent
  <2> SUFFICES ASSUME NEW q \in {q1, Append(q1, x)}, NEW p \in Files \ excused
               PROVE  Fine(Known, Way(q, socket, Unsent(outbox, held, p)), p, excused, files)
    BY <1>1, <1>3, <2>1 DEF Ways, Known, Queues
  <2> DEFINE r == Unsent(outbox, held, p)
  <2>2. Fit(outbox, socket, held) /\ queue \in Seq(Edits) /\ x \in Edits
    BY WaysTypes
  <2>3. socket \in Seq(ClearMsg) /\ r \in Seq(ClearMsg)
    BY <2>2, UnsentType DEF Fit
  <2>4. Fine(Known, Way(Append(queue, x), socket, r), p, excused, files)
    BY <1>3 DEF Ways, Queues
  <2> HIDE DEF r, x
  <2>5. Fine(Known, Way(Append(Append(queue, x), x), socket, r), p, excused, files)
    BY <2>2, <2>3, <2>4, FineDoubled
  <2> QED BY <2>4, <2>5 DEF r
<1> QED BY <1>2, <1>3

LEMMA ReceiveMountWays ==
  ASSUME IInv, IInv', Ways, ReceiveMount \/ ReceiveMountUnread
  PROVE  Ways'
<1>1. /\ socket # <<>> /\ Head(socket).act = "mount" /\ socket' = Tail(socket) /\ new_msg' = FALSE
      /\ UNCHANGED <<files, outbox, held, index, handler, queue, excused>>
  BY DEF ReceiveMount, ReceiveMountUnread, kernelVars
<1> SUFFICES ASSUME NEW p \in Files \ excused
             PROVE  Fine(Known, Way(queue, Tail(socket), Unsent(outbox, held, p)), p, excused, files)
  BY <1>1 DEF Ways, Known, Queues
<1> DEFINE r == Unsent(outbox, held, p)
<1>2. Fit(outbox, socket, held) /\ queue \in Seq(Edits)
  BY WaysTypes
<1>3. socket \in Seq(ClearMsg) /\ r \in Seq(ClearMsg)
  BY <1>2, UnsentType DEF Fit
<1>4. Fine(Known, Way(queue, socket, r), p, excused, files)
  BY DEF Ways, Queues
<1>5. Meaning(Head(socket)) = NoEdit
  BY <1>1 DEF Meaning
<1> HIDE DEF r
<1>6. Way(Append(queue, NoEdit), Tail(socket), r) = Way(queue, socket, r) /\ Tail(socket) \in Seq(ClearMsg)
  BY <1>1, <1>2, <1>3, <1>5, WayReceived
<1>7. NoEdit \in Edits /\ \A y \in Files \ excused : ~ Names(NoEdit, y)
  BY NoEditFacts
<1>8. Fine(Known, Way(Append(queue, NoEdit), Tail(socket), r), p, excused, files)
  BY <1>4, <1>6
<1>9. Fine(Known, Way(queue, Tail(socket), r), p, excused, files)
  BY <1>2, <1>3, <1>6, <1>7, <1>8, FineQueuePut
<1> QED BY <1>9 DEF r

(* The messages of an operation that asks for this edit: for one device,   *)
(* or for two, and of a rename two each.                                   *)
Tells(n, k, a, b) ==
  LET Says(m, w) == m \in ClearMsg /\ Meaning(m) = EditOf(k, a, b, w)
      Quiet(m) == m \in ClearMsg /\ Meaning(m) = NoEdit
  IN \/ \E m \in ClearMsg : n = <<m>> /\ Says(m, "single")
     \/ \E l, m \in ClearMsg : n = <<l, m>> /\ Quiet(l) /\ Says(m, "single")
     \/ \E l, m \in ClearMsg : n = <<l, m>> /\ Says(l, "first") /\ Says(m, "second")
     \/ \E i, j, l, m \in ClearMsg :
          n = <<i, j, l, m>> /\ Quiet(i) /\ Says(j, "first") /\ Quiet(l) /\ Says(m, "second")

LEMMA FewMessages ==
  ASSUME NEW i \in ClearMsg, NEW j \in ClearMsg, NEW l \in ClearMsg, NEW m \in ClearMsg
  PROVE  /\ <<i>> = Append(<<>>, i) /\ <<>> \in Seq(ClearMsg) /\ <<i>> \in Seq(ClearMsg)
         /\ <<i, j>> = Append(<<i>>, j) /\ <<i, j>> \in Seq(ClearMsg)
         /\ <<i, j, l>> = Append(<<i, j>>, l) /\ <<i, j, l>> \in Seq(ClearMsg)
         /\ <<i, j, l, m>> = Append(<<i, j, l>>, m) /\ <<i, j, l, m>> \in Seq(ClearMsg)
OBVIOUS

LEMMA WayOfFew ==
  ASSUME NEW q \in Seq(Edits), NEW s \in Seq(ClearMsg),
         NEW i \in ClearMsg, NEW j \in ClearMsg
  PROVE  LET w == Way(q, s, <<>>)
         IN /\ Way(q, s, <<i>>) = Append(w, Meaning(i))
            /\ Way(q, s, <<i, j>>) = Append(Append(w, Meaning(i)), Meaning(j))
<1> DEFINE n0 == <<>>
           n1 == <<i>>
           n2 == <<i, j>>
<1>1. /\ n1 = Append(n0, i) /\ n0 \in Seq(ClearMsg) /\ n1 \in Seq(ClearMsg)
      /\ n2 = Append(n1, j) /\ n2 \in Seq(ClearMsg)
  BY FewMessages
<1> HIDE DEF n0, n1, n2
<1>2. Way(q, s, n1) = Append(Way(q, s, n0), Meaning(i))
  BY <1>1, WayMore
<1>7. \A r \in Seq(ClearMsg), x \in ClearMsg : Way(q, s, Append(r, x)) = Append(Way(q, s, r), Meaning(x))
  BY WayMore
<1>3. Way(q, s, n2) = Append(Way(q, s, n1), Meaning(j))
  BY <1>1, <1>7, Zenon
<1>6. /\ Way(q, s, n1) = Append(Way(q, s, n0), Meaning(i))
      /\ Way(q, s, n2) = Append(Append(Way(q, s, n0), Meaning(i)), Meaning(j))
  BY <1>2, <1>3
<1> QED BY <1>6 DEF n0, n1, n2

LEMMA FineTold ==
  ASSUME NEW q \in Seq(Edits), NEW s \in Seq(ClearMsg), NEW d, NEW p \in Files, NEW E, NEW f, NEW f2,
         NEW k, NEW a, NEW b, EditOf(k, a, b, "single") \in AnyEdit, NEW n, Tells(n, k, a, b),
         Fine(d, Way(q, s, <<>>), p, E, f), Names(EditOf(k, a, b, "single"), p),
         p \in f2 <=> Makes(EditOf(k, a, b, "single"), p),
         Ready(d, Way(q, s, <<>>), EditOf(k, a, b, "single"), p, E)
  PROVE  Fine(d, Way(q, s, n), p, E, f2)
<1> DEFINE w == Way(q, s, <<>>)
           x(t) == EditOf(k, a, b, t)
<1>1. \A t \in Twins : x(t).twin = t /\ x(t) \in Edits /\ Plain(x(t)) = x("single") /\ x(t).kind = k /\ x(t).src = a /\ x(t).dst = b
  BY EditFacts
<1>2. "single" \in Twins /\ "first" \in Twins /\ "second" \in Twins
  BY DEF Twins
<1>3. w \in Seq(Edits)
  <2> DEFINE none == <<>>
  <2>1. none \in Seq(ClearMsg)
    OBVIOUS
  <2> HIDE DEF none
  <2>2. Way(q, s, none) \in Seq(Edits)
    BY <2>1, WayItems
  <2> QED BY <2>2 DEF none
<1>4. \A t \in Twins : Names(x(t), p) /\ (p \in f2 <=> Makes(x(t), p)) /\ Ready(d, w, x(t), p, E)
  <2> TAKE t \in Twins
  <2>1. x(t).kind = x("single").kind /\ x(t).src = x("single").src /\ x(t).dst = x("single").dst
    BY <1>1, <1>2
  <2> HIDE DEF x, w
  <2>2. Names(x("single"), p) /\ (p \in f2 <=> Makes(x("single"), p)) /\ Ready(d, w, x("single"), p, E)
    BY DEF x, w
  <2> QED BY <2>1, <2>2 DEF Names, Makes, Ready, Renames
<1>5. \A i, j \in ClearMsg :
         /\ Way(q, s, <<i>>) = Append(w, Meaning(i))
         /\ Way(q, s, <<i, j>>) = Append(Append(w, Meaning(i)), Meaning(j))
  BY WayOfFew
<1>6. Fine(d, w, p, E, f)
  OBVIOUS
<1> HIDE DEF w, x
<1> DEFINE x1 == x("single")
           xf == x("first")
           xs == x("second")
           w2 == Append(w, NoEdit)
<1>7. /\ x1 \in Edits /\ x1.twin # "first" /\ Names(x1, p) /\ (p \in f2 <=> Makes(x1, p)) /\ Ready(d, w, x1, p, E)
      /\ xf \in Edits /\ xf.twin = "first" /\ Names(xf, p) /\ (p \in f2 <=> Makes(xf, p)) /\ Ready(d, w, xf, p, E)
      /\ xs \in Edits /\ xs.twin = "second" /\ Plain(xf) = Plain(xs)
  BY <1>1, <1>2, <1>4
<1>8. /\ Fine(d, w2, p, E, f) /\ w2 \in Seq(Edits)
      /\ \A e \in Edits : Ready(d, w, e, p, E) => Ready(d, w2, e, p, E)
  BY <1>3, <1>6, FineNoEdit
<1> HIDE DEF x1, xf, xs, w2
<1>9. Fine(d, Append(w, x1), p, E, f2)
  BY <1>3, <1>6, <1>7, FineOnce
<1>10. Fine(d, Append(w2, x1), p, E, f2)
  BY <1>7, <1>8, FineOnce
<1>11. Fine(d, Append(Append(w, xf), xs), p, E, f2)
  BY <1>3, <1>6, <1>7, FineTwice
<1>12. Fine(d, Append(Append(Append(w2, xf), NoEdit), xs), p, E, f2)
  BY <1>7, <1>8, FineTwice
<1>13. CASE \E m \in ClearMsg : n = <<m>> /\ Meaning(m) = x1
  BY <1>5, <1>9, <1>13
<1>14. CASE \E l, m \in ClearMsg : n = <<l, m>> /\ Meaning(l) = NoEdit /\ Meaning(m) = x1
  <2>1. PICK l \in ClearMsg, m \in ClearMsg : n = <<l, m>> /\ Meaning(l) = NoEdit /\ Meaning(m) = x1
    BY <1>14
  <2>2. Way(q, s, n) = Append(Append(w, Meaning(l)), Meaning(m))
    BY <1>5, <2>1, Zenon
  <2> QED BY <1>10, <2>1, <2>2, Zenon DEF w2
<1>15. CASE \E l, m \in ClearMsg : n = <<l, m>> /\ Meaning(l) = xf /\ Meaning(m) = xs
  <2>1. PICK l \in ClearMsg, m \in ClearMsg : n = <<l, m>> /\ Meaning(l) = xf /\ Meaning(m) = xs
    BY <1>15
  <2>2. Way(q, s, n) = Append(Append(w, Meaning(l)), Meaning(m))
    BY <1>5, <2>1, Zenon
  <2> QED BY <1>11, <2>1, <2>2, Zenon
<1>16. CASE \E i, j, l, m \in ClearMsg :
              n = <<i, j, l, m>> /\ Meaning(i) = NoEdit /\ Meaning(j) = xf /\ Meaning(l) = NoEdit /\ Meaning(m) = xs
  <2>1. PICK i \in ClearMsg, j \in ClearMsg, l \in ClearMsg, m \in ClearMsg :
          n = <<i, j, l, m>> /\ Meaning(i) = NoEdit /\ Meaning(j) = xf /\ Meaning(l) = NoEdit /\ Meaning(m) = xs
    BY <1>16
  <2>2. Way(q, s, n) = Append(Append(Append(Append(w, Meaning(i)), Meaning(j)), Meaning(l)), Meaning(m))
    <3> DEFINE n1 == <<i>>
               n2 == <<i, j>>
               n3 == <<i, j, l>>
               n4 == <<i, j, l, m>>
    <3>1. /\ n1 \in Seq(ClearMsg) /\ n2 = Append(n1, j) /\ n2 \in Seq(ClearMsg)
          /\ n3 = Append(n2, l) /\ n3 \in Seq(ClearMsg) /\ n4 = Append(n3, m) /\ n = n4
      BY <2>1, FewMessages
    <3>2. Way(q, s, n2) = Append(Append(w, Meaning(i)), Meaning(j))
      BY <1>5
    <3> HIDE DEF n1, n2, n3, n4
    <3>3. \A r \in Seq(ClearMsg), y \in ClearMsg : Way(q, s, Append(r, y)) = Append(Way(q, s, r), Meaning(y))
      BY WayMore
    <3>4. Way(q, s, n3) = Append(Way(q, s, n2), Meaning(l))
      BY <3>1, <3>3, Zenon
    <3>5. Way(q, s, n4) = Append(Way(q, s, n3), Meaning(m))
      BY <3>1, <3>3, Zenon
    <3> QED BY <3>1, <3>2, <3>4, <3>5, Zenon
  <2> QED BY <1>12, <2>1, <2>2, Zenon DEF w2
<1> QED BY <1>13, <1>14, <1>15, <1>16 DEF Tells, x1, xf, xs, x

LEMMA ReportWays ==
  ASSUME IInv, IInv', Ways, NEW t \in Thread, NEW evs, NEW c, NEW edit, Report(t, evs, c, edit),
         outbox[t] = <<>>,
         NEW k, NEW a, NEW b, EditOf(k, a, b, "single") \in AnyEdit, Tells(Messages(evs, c), k, a, b),
         NEW of \in SUBSET Files, of = Paths(evs), \A u \in Thread : of \cap held[u] = {},
         \A p \in of : Names(EditOf(k, a, b, "single"), p) /\ (p \in files' <=> Makes(EditOf(k, a, b, "single"), p)),
         \A p \in Files \ of : p \in files' <=> p \in files,
         k = "rename" => a \in files /\ a \in of
  PROVE  Ways'
<1> DEFINE n == Messages(evs, c)
           x == EditOf(k, a, b, "single")
<1>1. /\ outbox' = [outbox EXCEPT ![t] = n] /\ held' = [held EXCEPT ![t] = of]
      /\ UNCHANGED <<socket, index, handler, queue, new_msg, saved, excused>>
  BY DEF Report, Paths, netVars, sourceVars, mainVars
<1>2. Fit(outbox, socket, held) /\ Fit(outbox', socket', held')
  BY WaysTypes, FitAfter
<1>3. /\ outbox'[t] = n /\ held'[t] = of
      /\ \A u \in Thread : u # t => outbox'[u] = outbox[u] /\ held'[u] = held[u]
  BY <1>1, <1>2 DEF Fit
<1>4. held[t] = {}
  BY <1>2 DEF Fit, Locked
<1>5. Known' = Known
  BY <1>1 DEF Known
<1>6. x.kind = k /\ x.src = a
  BY EditFacts DEF Twins
<1>7. /\ \A p \in of : Names(x, p) /\ (p \in files' <=> Makes(x, p))
      /\ x \in AnyEdit /\ Tells(n, k, a, b)
  OBVIOUS
<1> HIDE DEF n
<1> SUFFICES ASSUME NEW q \in Queues(queue, new_msg, saved), NEW p \in Files \ excused
             PROVE  Fine(Known, Way(q, socket, Unsent(outbox', held', p)), p, excused, files')
  BY <1>1, <1>5 DEF Ways
<1>8. q \in Seq(Edits) /\ socket \in Seq(ClearMsg)
  BY <1>2, WaysTypes DEF Fit
<1>9. Fine(Known, Way(q, socket, Unsent(outbox, held, p)), p, excused, files)
  BY DEF Ways
<1>10. CASE p \notin of
  <2>1. Unsent(outbox', held', p) = Unsent(outbox, held, p)
    BY <1>2, <1>3, <1>4, <1>10, UnsentElsewhere
  <2>2. (p \in files <=> p \in files') /\ excused \subseteq excused
    BY <1>10
  <2> QED BY <1>9, <2>1, <2>2, FineElsewhere
<1>11. CASE p \in of
  <2>1. Unsent(outbox', held', p) = n
    BY <1>2, <1>3, <1>11, UnsentOf
  <2>2. \A r \in of : Unsent(outbox, held, r) = <<>>
    BY UnsentNone
  <2>3. Fine(Known, Way(q, socket, <<>>), p, excused, files)
    BY <1>9, <1>11, <2>2
  <2>4. Ready(Known, Way(q, socket, <<>>), x, p, excused)
    <3> SUFFICES ASSUME Renames(x, p, excused)
                 PROVE  Has(Known, Way(q, socket, <<>>), Len(Way(q, socket, <<>>)), x.src)
      BY DEF Ready
    <3>1. k = "rename" /\ a \notin excused
      BY <1>6 DEF Renames
    <3>2. a \in files /\ a \in of /\ a \in Files \ excused
      BY <3>1
    <3>3. Fine(Known, Way(q, socket, <<>>), a, excused, files)
      BY <2>2, <3>2 DEF Ways
    <3> QED BY <1>6, <3>2, <3>3 DEF Fine, Leads
  <2>5. Names(x, p) /\ (p \in files' <=> Makes(x, p))
    BY <1>7, <1>11
  <2>6. Fine(Known, Way(q, socket, n), p, excused, files')
    BY <1>7, <1>8, <2>3, <2>4, <2>5, FineTold
  <2> QED BY <2>1, <2>6
<1> QED BY <1>10, <1>11

LEMMA MeaningOfOne ==
  ASSUME NEW d \in Device, NEW p \in Files, Below(d, p), NEW w \in Twins
  PROVE  LET m1 == Msg("new", 0, d, p, {p}, w)
             m2 == Msg("delete", 0, d, p, {p}, w)
         IN /\ m1 \in ClearMsg /\ Meaning(m1) = EditOf("insert", p, <<>>, w)
            /\ m2 \in ClearMsg /\ Meaning(m2) = EditOf("remove", p, <<>>, w)
<1>1. ASSUME NEW a \in {"new", "delete"}, NEW k, k = IF a = "new" THEN "insert" ELSE "remove"
      PROVE  Msg(a, 0, d, p, {p}, w) \in ClearMsg /\ Meaning(Msg(a, 0, d, p, {p}, w)) = EditOf(k, p, <<>>, w)
  <2> DEFINE m == Msg(a, 0, d, p, {p}, w)
             e == EditOf(k, p, <<>>, w)
  <2>1. m \in FileMsg /\ m.act = a /\ m.of = {p} /\ m.twin = w /\ Place(m) = p
    BY MsgFields
  <2>2. EditOf(k, p, <<>>, "single") \in AnyEdit
    BY <1>1 DEF AnyEdit
  <2>3. e \in Edits /\ e.src = p /\ e.dst = <<>>
    BY <2>2, EditFacts
  <2> HIDE DEF m
  <2>4. Meaning(m) = e
    BY <1>1, <2>1 DEF Meaning
  <2> HIDE DEF e
  <2>5. \A y \in Files : Names(e, y) => y \in m.of
    BY <2>1, <2>3, FilesAreNamed DEF Names
  <2>6. m \in ClearMsg
    BY <2>1, <2>3, <2>4, <2>5 DEF ClearMsg, Msgs
  <2> QED BY <2>4, <2>6 DEF m, e
<1>2. "new" # "delete"
  OBVIOUS
<1> QED BY <1>1, <1>2

LEMMA MeaningOfRename ==
  ASSUME NEW d \in Device, NEW p \in Files, NEW q \in Files, Below(d, p), Below(d, q), p # q,
         NEW w \in Twins, NEW c \in Nat
  PROVE  LET m1 == Msg("rename_from", c, d, p, {p, q}, w)
             m2 == Msg("rename_to", c, d, q, {p, q}, w)
         IN /\ m1 \in ClearMsg /\ Meaning(m1) = NoEdit
            /\ m2 \in ClearMsg /\ Meaning(m2) = EditOf("rename", p, q, w)
<1> DEFINE m1 == Msg("rename_from", c, d, p, {p, q}, w)
           m2 == Msg("rename_to", c, d, q, {p, q}, w)
           e == EditOf("rename", p, q, w)
<1>1. {p, q} \in SUBSET Files
  OBVIOUS
<1>2. m1 \in FileMsg /\ m1.act = "rename_from"
  BY <1>1, MsgFields
<1>3. m2 \in FileMsg /\ m2.act = "rename_to" /\ m2.of = {p, q} /\ m2.twin = w /\ Place(m2) = q
  BY <1>1, MsgFields
<1>4. e \in Edits /\ e.src = p /\ e.dst = q
  <2>1. EditOf("rename", p, q, "single") \in AnyEdit
    BY DEF AnyEdit
  <2> QED BY <2>1, EditFacts
<1> HIDE DEF m1, m2
<1>5. (CHOOSE y \in m2.of : y # Place(m2)) = p
  <2> DEFINE y == CHOOSE z \in m2.of : z # Place(m2)
  <2>1. \E z \in m2.of : z # Place(m2)
    BY <1>3
  <2>2. y \in m2.of /\ y # Place(m2)
    BY <2>1
  <2> HIDE DEF y
  <2>3. y = p
    BY <1>3, <2>2
  <2> QED BY <2>3 DEF y
<1>6. Meaning(m1) = NoEdit /\ Meaning(m2) = e
  BY <1>2, <1>3, <1>5 DEF Meaning
<1> HIDE DEF e
<1>7. \A y \in Files : Names(e, y) => y \in m2.of
  BY <1>3, <1>4 DEF Names
<1>8. m1 \in ClearMsg /\ m2 \in ClearMsg
  BY <1>2, <1>3, <1>4, <1>6, <1>7, NoEditFacts DEF ClearMsg, Msgs
<1> QED BY <1>6, <1>8 DEF m1, m2, e

LEMMA ShownAbove ==
  ASSUME NEW p \in Files
  PROVE  /\ Owner(p) \in Device /\ Below(Owner(p), p)
         /\ \A d \in Shown(p) : d \in Device /\ Below(d, p) /\ d \in Cover(p)
BY OwnerIsAbove DEF Shown, Cover, Device

LEMMA TellsOne ==
  ASSUME NEW p \in Files
  PROVE  /\ Tells(Messages(<< <<"new", p>> >>, 0), "insert", p, <<>>)
         /\ Tells(Messages(<< <<"delete", p>> >>, 0), "remove", p, <<>>)
<1>1. "single" \in Twins /\ "first" \in Twins /\ "second" \in Twins
  BY DEF Twins
<1>2. ASSUME NEW a, NEW k,
             \A d \in Device, w \in Twins : Below(d, p) =>
               Msg(a, 0, d, p, {p}, w) \in ClearMsg /\ Meaning(Msg(a, 0, d, p, {p}, w)) = EditOf(k, p, <<>>, w)
      PROVE  Tells(Messages(<< <<a, p>> >>, 0), k, p, <<>>)
  <2> DEFINE n == Messages(<< <<a, p>> >>, 0)
             M(d, w) == Msg(a, 0, d, p, {p}, w)
  <2>1. \/ n = << M(Owner(p), "single") >>
        \/ \E d \in Shown(p) : n = << M(Owner(p), "first"), M(d, "second") >>
    BY MessagesOfOne
  <2>2. \A d \in Device, w \in Twins : Below(d, p) =>
          M(d, w) \in ClearMsg /\ Meaning(M(d, w)) = EditOf(k, p, <<>>, w)
    BY <1>2
  <2> HIDE DEF n, M
  <2>3. CASE n = << M(Owner(p), "single") >>
    <3> DEFINE m == M(Owner(p), "single")
    <3>1. m \in ClearMsg /\ Meaning(m) = EditOf(k, p, <<>>, "single")
      BY <1>1, <2>2, ShownAbove
    <3>2. n = <<m>>
      BY <2>3
    <3> HIDE DEF m
    <3>3. Tells(n, k, p, <<>>)
      BY <3>1, <3>2 DEF Tells
    <3> QED BY <3>3 DEF n
  <2>4. ASSUME NEW d \in Shown(p), n = << M(Owner(p), "first"), M(d, "second") >>
        PROVE  Tells(n, k, p, <<>>)
    <3> DEFINE l == M(Owner(p), "first")
               m == M(d, "second")
    <3>1. /\ l \in ClearMsg /\ Meaning(l) = EditOf(k, p, <<>>, "first")
          /\ m \in ClearMsg /\ Meaning(m) = EditOf(k, p, <<>>, "second")
      BY <1>1, <2>2, ShownAbove
    <3>2. n = <<l, m>>
      BY <2>4
    <3> HIDE DEF l, m
    <3> QED BY <3>1, <3>2 DEF Tells
  <2> QED BY <2>1, <2>3, <2>4 DEF n
<1>3. \A d \in Device, w \in Twins : Below(d, p) =>
        /\ Msg("new", 0, d, p, {p}, w) \in ClearMsg
        /\ Meaning(Msg("new", 0, d, p, {p}, w)) = EditOf("insert", p, <<>>, w)
  BY MeaningOfOne
<1>4. \A d \in Device, w \in Twins : Below(d, p) =>
        /\ Msg("delete", 0, d, p, {p}, w) \in ClearMsg
        /\ Meaning(Msg("delete", 0, d, p, {p}, w)) = EditOf("remove", p, <<>>, w)
  BY MeaningOfOne
<1> QED BY <1>2, <1>3, <1>4

LEMMA TellsRename ==
  ASSUME NEW p \in Files, NEW q \in Files, p # q, Owner(p) = Owner(q), Cover(p) = Cover(q),
         NEW c \in Nat, c # 0
  PROVE  Tells(Messages(<< <<"rename_from", p>>, <<"rename_to", q>> >>, c), "rename", p, q)
<1> DEFINE from(x, d, w) == Msg("rename_from", x, d, p, {p, q}, w)
           to(x, d, w) == Msg("rename_to", x, d, q, {p, q}, w)
           n == Messages(<< <<"rename_from", p>>, <<"rename_to", q>> >>, c)
<1>1. \/ n = << from(c, Owner(p), "single"), to(c, Owner(p), "single") >>
      \/ \E d \in Shown(p) :
           n = << from(c, Owner(p), "first"), to(c, Owner(p), "first"),
                  from(c + 1, d, "second"), to(c + 1, d, "second") >>
  BY MessagesOfRename
<1>2. ASSUME NEW x \in Nat, NEW d \in Device, Below(d, p), Below(d, q), NEW w \in Twins
      PROVE  /\ from(x, d, w) \in ClearMsg /\ Meaning(from(x, d, w)) = NoEdit
             /\ to(x, d, w) \in ClearMsg /\ Meaning(to(x, d, w)) = EditOf("rename", p, q, w)
  BY <1>2, MeaningOfRename
<1>3. "single" \in Twins /\ "first" \in Twins /\ "second" \in Twins /\ c + 1 \in Nat
  BY DEF Twins
<1>4. Owner(p) \in Device /\ Below(Owner(p), p) /\ Below(Owner(p), q)
  BY ShownAbove
<1>5. \A d \in Shown(p) : d \in Device /\ Below(d, p) /\ Below(d, q)
  BY ShownAbove DEF Cover
<1> HIDE DEF n, from, to
<1>6. CASE n = << from(c, Owner(p), "single"), to(c, Owner(p), "single") >>
  <2> DEFINE l == from(c, Owner(p), "single")
             m == to(c, Owner(p), "single")
  <2>1. /\ l \in ClearMsg /\ Meaning(l) = NoEdit
        /\ m \in ClearMsg /\ Meaning(m) = EditOf("rename", p, q, "single")
    BY <1>2, <1>3, <1>4
  <2>2. n = <<l, m>>
    BY <1>6
  <2> HIDE DEF l, m
  <2> QED BY <2>1, <2>2 DEF Tells, n
<1>7. ASSUME NEW d \in Shown(p),
             n = << from(c, Owner(p), "first"), to(c, Owner(p), "first"),
                    from(c + 1, d, "second"), to(c + 1, d, "second") >>
      PROVE  Tells(n, "rename", p, q)
  <2> DEFINE i == from(c, Owner(p), "first")
             j == to(c, Owner(p), "first")
             l == from(c + 1, d, "second")
             m == to(c + 1, d, "second")
  <2>1. /\ i \in ClearMsg /\ Meaning(i) = NoEdit
        /\ j \in ClearMsg /\ Meaning(j) = EditOf("rename", p, q, "first")
    BY <1>2, <1>3, <1>4
  <2>2. /\ l \in ClearMsg /\ Meaning(l) = NoEdit
        /\ m \in ClearMsg /\ Meaning(m) = EditOf("rename", p, q, "second")
    BY <1>2, <1>3, <1>5
  <2>3. n = <<i, j, l, m>>
    BY <1>7
  <2> HIDE DEF i, j, l, m
  <2> QED BY <2>1, <2>2, <2>3 DEF Tells
<1> QED BY <1>1, <1>6, <1>7 DEF n

LEMMA OperateWays ==
  ASSUME IInv, IInv', Ways, NEW t \in Thread, Operate(t)
  PROVE  Ways'
<1>1. ASSUME NEW p \in Files, Create(t, p) PROVE Ways'
  <2> DEFINE x == EditOf("insert", p, <<>>, "single")
             evs == << <<"new", p>> >>
  <2>1. x \in AnyEdit /\ x.kind = "insert" /\ x.src = p /\ x.dst = <<>>
    BY EditFacts DEF AnyEdit, Twins
  <2>2. /\ outbox[t] = <<>> /\ files' = files \cup {p} /\ Report(t, evs, 0, x)
        /\ \A u \in Thread : {p} \cap held[u] = {}
    BY <1>1 DEF Create, Usable
  <2>3. Tells(Messages(evs, 0), "insert", p, <<>>) /\ {p} = Paths(evs) /\ {p} \in SUBSET Files
    BY TellsOne, PathsOfOne
  <2>4. /\ \A r \in {p} : Names(x, r) /\ (r \in files' <=> Makes(x, r))
        /\ \A r \in Files \ {p} : r \in files' <=> r \in files
    <3> HIDE DEF x
    <3> QED BY <2>1, <2>2 DEF Names, Makes
  <2> HIDE DEF evs
  <2>5. "insert" # "rename"
    OBVIOUS
  <2> QED BY <2>1, <2>2, <2>3, <2>4, <2>5, ReportWays
<1>2. ASSUME NEW p \in Files, Delete(t, p) PROVE Ways'
  <2> DEFINE x == EditOf("remove", p, <<>>, "single")
             evs == << <<"delete", p>> >>
  <2>1. x \in AnyEdit /\ x.kind = "remove" /\ x.src = p /\ x.dst = <<>>
    BY EditFacts DEF AnyEdit, Twins
  <2>2. /\ outbox[t] = <<>> /\ files' = files \ {p} /\ Report(t, evs, 0, x)
        /\ \A u \in Thread : {p} \cap held[u] = {}
    BY <1>2 DEF Delete, Usable
  <2>3. Tells(Messages(evs, 0), "remove", p, <<>>) /\ {p} = Paths(evs) /\ {p} \in SUBSET Files
    BY TellsOne, PathsOfOne
  <2>4. /\ \A r \in {p} : Names(x, r) /\ (r \in files' <=> Makes(x, r))
        /\ \A r \in Files \ {p} : r \in files' <=> r \in files
    <3> HIDE DEF x
    <3> QED BY <2>1, <2>2 DEF Names, Makes
  <2> HIDE DEF evs
  <2>5. "remove" # "rename"
    OBVIOUS
  <2> QED BY <2>1, <2>2, <2>3, <2>4, <2>5, ReportWays
<1>3. ASSUME NEW p \in Files, NEW q \in Files, Rename(t, p, q) PROVE Ways'
  <2> DEFINE x == EditOf("rename", p, q, "single")
             evs == << <<"rename_from", p>>, <<"rename_to", q>> >>
  <2>1. x \in AnyEdit /\ x.kind = "rename" /\ x.src = p /\ x.dst = q
    BY EditFacts DEF AnyEdit, Twins
  <2>2. /\ outbox[t] = <<>> /\ files' = (files \ {p}) \cup {q} /\ Report(t, evs, cookie + 1, x)
        /\ p \in files /\ p # q /\ Owner(p) = Owner(q) /\ Cover(p) = Cover(q)
        /\ \A u \in Thread : {p, q} \cap held[u] = {}
    BY <1>3 DEF Rename, Usable
  <2>3. cookie + 1 \in Nat /\ cookie + 1 # 0
    BY DEF IInv, Types
  <2>4. Tells(Messages(evs, cookie + 1), "rename", p, q) /\ {p, q} = Paths(evs) /\ {p, q} \in SUBSET Files
    BY <2>2, <2>3, TellsRename, PathsOfTwo, SMTT(40)
  <2>5. /\ \A r \in {p, q} : Names(x, r) /\ (r \in files' <=> Makes(x, r))
        /\ \A r \in Files \ {p, q} : r \in files' <=> r \in files
    <3> HIDE DEF x
    <3> QED BY <2>1, <2>2 DEF Names, Makes
  <2> HIDE DEF evs
  <2>6. p \in {p, q}
    OBVIOUS
  <2> QED BY <2>1, <2>2, <2>4, <2>5, <2>6, ReportWays
<1> QED BY <1>1, <1>2, <1>3 DEF Operate

LEMMA HeadTailOfAppend ==
  ASSUME NEW q \in Seq(Edits), q # <<>>, NEW x \in Edits
  PROVE  /\ Append(q, x) # <<>> /\ Head(Append(q, x)) = Head(q)
         /\ Tail(Append(q, x)) = Append(Tail(q), x)
<1> DEFINE v == Append(q, x)
           u == Append(Tail(q), x)
           N == Len(q)
<1>1. N \in Nat /\ N # 0 /\ Head(q) = q[1]
  BY LenProperties, EmptySeq
<1>2. /\ v \in Seq(Edits) /\ Len(v) = N + 1 /\ v[N + 1] = x /\ \A i \in 1 .. N : v[i] = q[i]
  BY AppendFacts, <1>1
<1>3. /\ Tail(q) \in Seq(Edits) /\ Len(Tail(q)) = N - 1 /\ \A i \in 1 .. N - 1 : Tail(q)[i] = q[i + 1]
  BY HeadTailProperties
<1>4. /\ u \in Seq(Edits) /\ Len(u) = N /\ u[N] = x /\ \A i \in 1 .. N - 1 : u[i] = Tail(q)[i]
  <2>1. Len(u) = (N - 1) + 1 /\ u[(N - 1) + 1] = x /\ u \in Seq(Edits) /\ \A i \in DOMAIN Tail(q) : u[i] = Tail(q)[i]
    BY <1>3, AppendFacts
  <2>2. DOMAIN Tail(q) = 1 .. N - 1 /\ (N - 1) + 1 = N
    BY <1>1, <1>3, LenProperties
  <2> QED BY <2>1, <2>2
<1> HIDE DEF v, u
<1>5. v # <<>> /\ Head(v) = v[1]
  <2>1. Len(v) # 0
    BY <1>1, <1>2
  <2> QED BY <1>2, <2>1, EmptySeq
<1>6. Head(v) = Head(q)
  <2>1. 1 \in 1 .. N
    BY <1>1
  <2> QED BY <1>1, <1>2, <1>5, <2>1
<1>7. /\ Tail(v) \in Seq(Edits) /\ Len(Tail(v)) = N /\ \A i \in 1 .. N : Tail(v)[i] = v[i + 1]
  <2>1. /\ Tail(v) \in Seq(Edits) /\ Len(Tail(v)) = (N + 1) - 1 /\ \A i \in 1 .. (N + 1) - 1 : Tail(v)[i] = v[i + 1]
    BY <1>2, <1>5, HeadTailProperties
  <2>2. (N + 1) - 1 = N
    BY <1>1
  <2> QED BY <2>1, <2>2
<1>8. \A i \in 1 .. N : Tail(v)[i] = u[i]
  <2> TAKE i \in 1 .. N
  <2>1. CASE i = N
    BY <1>2, <1>4, <1>7, <2>1
  <2>2. CASE i # N
    <3>1. i \in 1 .. N - 1 /\ i + 1 \in 1 .. N
      BY <1>1, <2>2
    <3> QED BY <1>2, <1>3, <1>4, <1>7, <3>1
  <2> QED BY <2>1, <2>2
<1>9. Tail(v) = u
  BY <1>4, <1>7, <1>8, SeqEqual
<1> QED BY <1>5, <1>6, <1>9 DEF v, u

(* What handleMsg and saveData make of a message is what it means, unless  *)
(* it is a destination without its source.                                 *)
LEMMA PushedIsMeant ==
  ASSUME NEW S, NEW rep, NEW c, Honest(S, rename_from, rep, c), NEW m \in S,
         m.act # "mount", m.act # "rename_from", partitions[m.dev] = Home[m.dev]
  PROVE  Pushed(Data(m)) = IF m.act = "rename_to" /\ ~Paired(m) THEN NoEdit ELSE Meaning(m)
<1>1. m \in FileMsg
  BY HonestCookies
<1>2. Full(m, m.path) = Place(m)
  BY DEF Full, Place
<1>3. CASE Paired(m)
  <2> DEFINE src == Home[m.dev] \o rename_from[m.cookie]
             y == CHOOSE z \in m.of : z # Place(m)
  <2>1. Pushed(Data(m)) = EditOf("rename", src, Place(m), m.twin) /\ m.act = "rename_to"
    BY <1>2, <1>3 DEF Data, Full, Pushed, Paired
  <2>2. src # Place(m) /\ m.of = {src, Place(m)}
    BY <1>3 DEF Honest, Paired, OneRename
  <2>3. y \in m.of /\ y # Place(m)
    BY <2>2
  <2>4. Meaning(m) = EditOf("rename", y, Place(m), m.twin)
    BY <2>1 DEF Meaning
  <2> HIDE DEF src, y
  <2>5. y = src
    BY <2>2, <2>3
  <2> QED BY <1>3, <2>1, <2>4, <2>5
<1>4. CASE m.act = "new"
  BY <1>2, <1>4 DEF Data, Pushed, Paired, Meaning
<1>5. CASE m.act = "delete"
  BY <1>2, <1>5 DEF Data, Pushed, Paired, Meaning
<1>6. CASE m.act = "rename_to" /\ ~Paired(m)
  BY <1>6 DEF Data, Pushed
<1> QED BY <1>1, <1>3, <1>4, <1>5, <1>6 DEF FileMsg

LEMMA ReceiveEventWays ==
  ASSUME IInv, IInv', Ways, ReceiveEvent
  PROVE  Ways'
<1> DEFINE m == Head(socket)
           s2 == Tail(socket)
           known == m.dev \in DOMAIN partitions
           x == Pushed(Data(m))
<1>1. /\ socket # <<>> /\ m.act # "mount" /\ socket' = s2
      /\ new_msg' = (known /\ m.act # "rename_from")
      /\ saved' = IF new_msg' THEN Data(m) ELSE saved
      /\ queue' = IF new_msg' THEN Append(queue, Pushed(saved')) ELSE queue
      /\ excused' = IF known THEN excused ELSE excused \cup m.of
      /\ UNCHANGED <<files, outbox, held, handler, index>>
  BY DEF ReceiveEvent, PushEvent, kernelVars
<1>2. Fit(outbox, socket, held) /\ queue \in Seq(Edits)
  BY WaysTypes
<1>3. socket \in Seq(ClearMsg) /\ socket \in Seq(Msgs)
  BY <1>2 DEF Fit, IInv, Types, Msgs
<1>4. m \in ClearMsg /\ Meaning(m) \in Edits /\ s2 \in Seq(ClearMsg) /\ \A y \in Files : Names(Meaning(m), y) => y \in m.of
  <2>1. <<>> \in Seq(ClearMsg)
    OBVIOUS
  <2>2. m \in ClearMsg /\ Meaning(m) \in Edits /\ s2 \in Seq(ClearMsg)
    BY <1>1, <1>2, <1>3, <2>1, WayReceived
  <2> QED BY <2>2 DEF ClearMsg
<1>5. m \in Sent(outbox, socket) /\ 1 \in DOMAIN socket /\ socket[1] = m
  <2>1. 1 \in DOMAIN socket /\ socket[1] = m
    BY <1>1, <1>3, TailFacts
  <2> QED BY <2>1 DEF Sent, Range
<1>6. known => partitions[m.dev] = Home[m.dev]
  BY DEF IInv, Types
<1> HIDE DEF m, s2, x
<1> SUFFICES ASSUME NEW q \in Queues(queue', new_msg', saved'), NEW p \in Files \ excused'
             PROVE  Fine(Known, Way(q, s2, Unsent(outbox, held, p)), p, excused', files)
  <2>1. Known' = Known
    BY <1>1 DEF Known
  <2> QED BY <1>1, <2>1 DEF Ways
<1> DEFINE r == Unsent(outbox, held, p)
<1>7. r \in Seq(ClearMsg) /\ p \notin excused /\ excused \subseteq excused'
  BY <1>1, <1>2, UnsentType
<1>8. Fine(Known, Way(queue, socket, r), p, excused, files)
  BY <1>7 DEF Ways, Queues
<1> HIDE DEF r
<1>9. Fine(Known, Way(queue, socket, r), p, excused', files)
  <2>1. p \in files <=> p \in files
    OBVIOUS
  <2> QED BY <1>7, <1>8, <2>1, FineElsewhere
<1>10. Way(Append(queue, Meaning(m)), s2, r) = Way(queue, socket, r)
  BY <1>1, <1>2, <1>3, <1>7, WayReceived DEF m, s2
<1>11. Fine(Known, Way(Append(queue, Meaning(m)), s2, r), p, excused', files)
  BY <1>9, <1>10
<1>12. ASSUME \A y \in Files \ excused' : ~ Names(Meaning(m), y)
       PROVE  Fine(Known, Way(queue, s2, r), p, excused', files)
  BY <1>2, <1>4, <1>7, <1>11, <1>12, FineQueuePut
<1>13. CASE ~known
  <2>1. q = queue
    BY <1>1, <1>13 DEF Queues
  <2>2. \A y \in Files \ excused' : ~ Names(Meaning(m), y)
    BY <1>1, <1>4, <1>13
  <2> QED BY <1>12, <2>1, <2>2 DEF r
<1>14. CASE known /\ m.act = "rename_from"
  <2>1. q = queue
    BY <1>1, <1>14 DEF Queues
  <2>2. Meaning(m) = NoEdit
    BY <1>14 DEF Meaning
  <2> QED BY <1>12, <2>1, <2>2, NoEditFacts DEF r
<1>15. CASE known /\ m.act # "rename_from"
  <2>1. /\ saved' = Data(m) /\ new_msg' /\ queue' = Append(queue, x) /\ excused' = excused
        /\ q \in {Append(queue, x), Append(Append(queue, x), x)}
    BY <1>1, <1>15 DEF Queues, x
  <2>2. x = IF m.act = "rename_to" /\ ~Paired(m) THEN NoEdit ELSE Meaning(m)
    BY <1>1, <1>5, <1>6, <1>15, PushedIsMeant DEF IInv, x
  <2>3. x \in Edits
    BY <1>4, <2>2, NoEditFacts
  <2>4. Fine(Known, Way(Append(queue, x), s2, r), p, excused', files)
    <3>1. CASE ~(m.act = "rename_to" /\ ~Paired(m))
      BY <1>11, <2>2, <3>1
    <3>2. CASE m.act = "rename_to" /\ ~Paired(m)
      <4>1. m.of \subseteq excused
        <5>1. ToIn(socket, 1) /\ socket[1].cookie \notin DOMAIN rename_from
          BY <1>5, <3>2 DEF ToIn, Paired
        <5>2. \A j \in DOMAIN socket : ~(j < 1)
          BY <1>3, LenProperties
        <5>3. ~FromIn(socket, 1, socket[1].cookie)
          BY <5>2 DEF FromIn
        <5>4. Preceded(outbox, socket, rename_from, excused)
          BY DEF IInv
        <5> QED BY <1>5, <5>1, <5>3, <5>4 DEF Preceded
      <4>2. \A y \in Files \ excused' : ~ Names(Meaning(m), y)
        BY <1>4, <1>7, <4>1
      <4>3. Fine(Known, Way(queue, s2, r), p, excused', files)
        BY <1>12, <4>2
      <4>4. \A y \in Files \ excused' : ~ Names(x, y)
        BY <2>2, <3>2, NoEditFacts
      <4> QED BY <1>2, <1>4, <1>7, <2>3, <4>3, <4>4, FineQueuePut
    <3> QED BY <3>1, <3>2
  <2>5. Fine(Known, Way(Append(Append(queue, x), x), s2, r), p, excused', files)
    BY <1>2, <1>4, <1>7, <2>3, <2>4, FineDoubled
  <2> QED BY <2>1, <2>4, <2>5 DEF r
<1> QED BY <1>13, <1>14, <1>15

LEMMA PopWays ==
  ASSUME IInv, Ways, HandlerPop
  PROVE  Ways'
<1> DEFINE e == Head(queue)
           ignored == IgnoreAction(Second(e), handler.ignored)
<1>1. /\ e \in Edits /\ queue' = Tail(queue) /\ ignored \in BOOLEAN
      /\ handler'.tmpActions = IF ignored THEN handler.tmpActions ELSE Append(handler.tmpActions, e)
  BY PopFacts
<1>2. /\ queue # <<>> /\ UNCHANGED <<files, outbox, held, socket, index, new_msg, saved>>
      /\ excused' = excused \cup (IF (ignored /\ e.twin # "first") \/ e.src \in excused THEN {e.src, e.dst} ELSE {})
  BY DEF HandlerPop, kernelVars, netVars, sourceVars
<1>3. /\ Fit(outbox, socket, held) /\ queue \in Seq(Edits) /\ Pushed(saved) \in Edits
      /\ handler.tmpActions \in Seq(Edits) /\ \A q \in Queues(queue, new_msg, saved) : q \in Seq(Edits)
  BY WaysTypes
<1>4. Known' = IF ignored THEN Known ELSE Apply(Known, e)
  <2>1. ApplyAll(index, Append(handler.tmpActions, e)) = Apply(ApplyAll(index, handler.tmpActions), e)
    BY <1>1, <1>3, ApplyAllAppend
  <2> QED BY <1>1, <1>2, <2>1 DEF Known
<1>5. ASSUME NEW q2 \in Queues(queue', new_msg, saved)
      PROVE  \E q \in Queues(queue, new_msg, saved) : q # <<>> /\ Head(q) = e /\ Tail(q) = q2
  <2>1. CASE q2 = queue'
    BY <1>1, <1>2, <2>1 DEF Queues
  <2>2. CASE new_msg /\ q2 = Append(queue', Pushed(saved))
    <3> DEFINE x == Pushed(saved)
    <3>1. x \in Edits
      BY <1>3
    <3>2. Append(queue, x) \in Queues(queue, new_msg, saved) /\ q2 = Append(Tail(queue), x)
      BY <1>1, <2>2 DEF Queues
    <3> HIDE DEF x, e
    <3>3. Append(queue, x) # <<>> /\ Head(Append(queue, x)) = Head(queue) /\ Tail(Append(queue, x)) = Append(Tail(queue), x)
      BY <1>2, <1>3, <3>1, HeadTailOfAppend
    <3> QED BY <3>2, <3>3 DEF e
  <2> QED BY <1>5, <2>1, <2>2 DEF Queues
<1> HIDE DEF e, ignored
<1> SUFFICES ASSUME NEW q2 \in Queues(queue', new_msg, saved), NEW p \in Files \ excused'
             PROVE  Fine(Known', Way(q2, socket, Unsent(outbox, held, p)), p, excused', files)
  BY <1>2 DEF Ways
<1>6. PICK q \in Queues(queue, new_msg, saved) : q # <<>> /\ Head(q) = e /\ Tail(q) = q2
  BY <1>5
<1> DEFINE W == [r \in Files |-> Way(q, socket, Unsent(outbox, held, r))]
<1>7. q \in Seq(Edits) /\ socket \in Seq(ClearMsg) /\ \A r \in Files : Unsent(outbox, held, r) \in Seq(ClearMsg)
  BY <1>3, UnsentType DEF Fit
<1>8. \A r \in Files : /\ Way(q, socket, Unsent(outbox, held, r)) # <<>>
                       /\ Way(q, socket, Unsent(outbox, held, r))[1] = e
                       /\ Tail(Way(q, socket, Unsent(outbox, held, r))) = Way(q2, socket, Unsent(outbox, held, r))
                       /\ Way(q, socket, Unsent(outbox, held, r)) \in Seq(Edits)
  BY <1>6, <1>7, WayPopped, WayItems
<1>9. W \in [Files -> Seq(Edits)]
  BY <1>8
<1>10. \A r \in Files \ excused : Fine(Known, W[r], r, excused, files) /\ W[r] # <<>> /\ W[r][1] = e
  BY <1>6, <1>8 DEF Ways
<1>11. Alike(W, excused)
  BY <1>3, <1>7, WaysAlike
<1>12. Tail(W[p]) = Way(q2, socket, Unsent(outbox, held, p))
  BY <1>8
<1> HIDE DEF W
<1>13. Fine(Known', Tail(W[p]), p, excused', files)
  BY <1>1, <1>2, <1>4, <1>9, <1>10, <1>11, FinePopped
<1> QED BY <1>12, <1>13

LEMMA NextWays ==
  ASSUME IInv, IInv', Ways, [Next]_vars
  PROVE  Ways'
<1>1. ASSUME NEW t \in Thread, Operate(t) PROVE Ways'
  BY <1>1, OperateWays
<1>2. ASSUME NEW d \in Dev \cup Dlnfs, Mount(d) PROVE Ways'
  BY <1>2, WaysKept DEF Mount, netVars, sourceVars, mainVars, history
<1>3. CASE SendMount
  BY <1>3, SendMountWays
<1>4. ASSUME NEW t \in Thread, SendEvent(t) PROVE Ways'
  BY <1>4, SendWays
<1>5. CASE ReceiveError
  BY <1>5, ReceiveErrorWays
<1>6. CASE ReceiveMount \/ ReceiveMountUnread
  BY <1>6, ReceiveMountWays
<1>7. CASE ReceiveEvent
  BY <1>7, ReceiveEventWays
<1>8. CASE UpdateMountPoints
  BY <1>8, WaysKept DEF UpdateMountPoints, kernelVars, netVars, sourceVars, history
<1>9. CASE HandlerStart
  <2>1. handler.tmpActions = <<>>
    <3>1. handler = Resting
      BY <1>9 DEF HandlerStart, IInv, Handling
    <3> QED BY <3>1, RestingFacts
  <2>2. handler'.tmpActions = <<>>
    <3> DEFINE h == Resting
    <3>1. h \in HandlerState /\ h.tmpActions = <<>>
      BY RestingFacts
    <3> HIDE DEF h
    <3>2. handler' = [h EXCEPT !.runs = TRUE]
      BY <1>9 DEF HandlerStart, h
    <3> QED BY <3>1, <3>2 DEF HandlerState
  <2>3. UNCHANGED <<kernelVars, netVars, sourceVars, queue, index, history>>
    BY <1>9 DEF HandlerStart
  <2> QED BY <2>1, <2>2, <2>3, WaysKept DEF kernelVars, netVars, sourceVars, history
<1>10. CASE HandlerPop
  BY <1>10, PopWays
<1>11. CASE HandlerEnd
  <2>1. /\ index' = ApplyAll(index, handler.tmpActions) /\ handler' = Resting
        /\ UNCHANGED <<kernelVars, netVars, sourceVars, queue, history>>
    BY <1>11 DEF HandlerEnd
  <2>2. ApplyAll(index', handler'.tmpActions) = ApplyAll(index, handler.tmpActions)
    BY <2>1, RestingFacts, ApplyAllNone
  <2> QED BY <2>1, <2>2, WaysKept DEF kernelVars, netVars, sourceVars, history
<1>12. CASE UNCHANGED vars
  BY <1>12, WaysKept DEF vars, kernelVars, netVars, sourceVars, mainVars, history
<1> QED
  BY <1>1, <1>2, <1>3, <1>4, <1>5, <1>6, <1>7, <1>8, <1>9, <1>10, <1>11, <1>12
  DEF Next, Kernel, Receive, Handle

(* At every moment, for every file that is not excused: the edits that are *)
(* still to come of it, from the batch in hand to the messages not yet     *)
(* sent, bring the index in line with the disk, also if the data saved     *)
(* last are pushed once more.                                              *)
THEOREM WaysInvariance == Spec => []Ways
<1>1. Init => Ways
  BY InitWays
<1>2. IInv /\ IInv' /\ Ways /\ [Next]_vars => Ways'
  BY NextWays
<1> QED BY <1>1, <1>2, PipelineInvariance, PTL DEF Spec

(* When nothing is on its way any more, the index has the files of the     *)
(* disk, but for those of which an event was lost, came from a device out  *)
(* of the table, or was ignored though it was the only one.  Overruns that *)
(* deliver an event twice, the two events of a dlnfs, interleaved senders  *)
(* and caches out of date do no harm.                                      *)
THEOREM PipelineConverges == Spec => []Converged
<1>1. IInv /\ Ways => Converged
  <2> SUFFICES ASSUME IInv, Ways, Quiescent, NEW p \in Files \ excused
               PROVE  p \in files <=> p \in index
    BY DEF Converged
  <2>1. socket = <<>> /\ queue = <<>> /\ ~handler.runs /\ \A t \in Thread : outbox[t] = <<>>
    BY DEF Quiescent
  <2>2. Unsent(outbox, held, p) = <<>>
    <3>1. \A t \in Thread : held[t] = {}
      BY <2>1 DEF IInv, Locked
    <3> QED BY <3>1, UnsentNone
  <2>3. Known = index
    <3>1. handler.tmpActions = <<>>
      BY <2>1, RestingFacts DEF IInv, Handling
    <3> QED BY <3>1, ApplyAllNone DEF Known
  <2> DEFINE w == Way(<<>>, <<>>, <<>>)
  <2>4. Fine(index, w, p, excused, files)
    <3>1. queue \in Queues(queue, new_msg, saved)
      BY DEF Queues
    <3>2. Fine(Known, Way(queue, socket, Unsent(outbox, held, p)), p, excused, files)
      BY <3>1 DEF Ways
    <3> QED BY <2>1, <2>2, <2>3, <3>2
  <2>5. Len(w) = 0
    BY WayOfNothing
  <2> HIDE DEF w
  <2>6. p \in files <=> Has(index, w, 0, p)
    BY <2>4, <2>5 DEF Fine, Leads
  <2>7. 1 .. 0 = {}
    OBVIOUS
  <2> QED BY <2>6, <2>7 DEF Has
<1> QED BY <1>1, PipelineInvariance, WaysInvariance, PTL

=============================================================================
