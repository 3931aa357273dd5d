-------------------------- MODULE NetEffectProofs --------------------------
(***************************************************************************)
(* Merging keeps the meaning of the events it shortens: whatever the       *)
(* threads, the timer and the listener do, what is on its way turns the    *)
(* files of the listener into the files that exist; and where merging does *)
(* not keep it, no file that exists is lost.                               *)
(***************************************************************************)
EXTENDS VfsMonitorProofs

(* The arrays of two contexts are not sent at the same time.               *)
OneSender == \A c, d \in Context : batch[c] # {} /\ batch[d] # {} => c = d

-----------------------------------------------------------------------------
(* The events on their way, L in the memory m, one path at a time.         *)

(* The events that make a path exist; the others end it.                   *)
Creates(e) == e.act \in {"new", "rename_to"}

Oldest(L, m, i) == \A k \in L : m[k].path = m[i].path => i <= k

Newest(L, m, i) == \A k \in L : m[k].path = m[i].path => k <= i

(* j is the event that comes after i on its path.                          *)
Follows(L, m, i, j) ==
  /\ m[i].path = m[j].path /\ i < j
  /\ \A k \in L : m[k].path = m[i].path => k <= i \/ j <= k

(* Where no rename replaces a file and no creation is reported twice.      *)
Exact == ~ MayOverwrite /\ ~ MayDuplicate

(* No event ends a path that another has just ended or that s lacks, and   *)
(* none is the last to end a path of R: the events turn the files s into   *)
(* the files R, and perhaps more.                                          *)
Floor(s, L, m, R) ==
  /\ \A i \in L : Oldest(L, m, i) => Creates(m[i]) \/ m[i].path \in s
  /\ \A i \in L : Newest(L, m, i) /\ m[i].path \in R => Creates(m[i])
  /\ \A i, j \in L : Follows(L, m, i, j) => Creates(m[i]) \/ Creates(m[j])
  /\ \A p \in Path : (\A k \in L : m[k].path # p) => (p \in R => p \in s)

(* Each event is the opposite of the one before it on its path, and        *)
(* together they turn the files s into the files R.                        *)
Line(s, L, m, R) ==
  /\ \A i \in L : Oldest(L, m, i) => (Creates(m[i]) <=> m[i].path \notin s)
  /\ \A i \in L : Newest(L, m, i) => (Creates(m[i]) <=> m[i].path \in R)
  /\ \A i, j \in L : Follows(L, m, i, j) => (Creates(m[i]) <=> ~ Creates(m[j]))
  /\ \A p \in Path : (\A k \in L : m[k].path # p) => (p \in s <=> p \in R)

Worth(s, L, m, R) == Floor(s, L, m, R) /\ (Exact => Line(s, L, m, R))

(* The event e is reported when the files R have become R2.                *)
Turns(e, R, R2) ==
  /\ e.path \in R2 <=> Creates(e)
  /\ ~ Creates(e) => e.path \in R
  /\ \A p \in Path \ {e.path} : p \in R2 => p \in R
  /\ Exact => /\ Creates(e) => e.path \notin R
              /\ \A p \in Path \ {e.path} : p \in R => p \in R2

(* The files v of a listener without those that a rename has left.         *)
Settled(v, f) == {p \in v : \A x \in f : x[2] # p}

(* A source that waits in rename_from: its rename_to comes before anything *)
(* else happens to it.                                                     *)
Sources(v, f, L, m) ==
  \A x \in f :
    /\ x[2] \in v
    /\ \E j \in L : /\ m[j].act = "rename_to" /\ m[j].cookie = x[1] /\ m[j].path # x[2]
                    /\ \A k \in L : m[k].path = x[2] => j < k
    /\ \A y \in f : x[1] = y[1] \/ x[2] = y[2] => x = y
    /\ \A i \in L : m[i].act = "rename_from" => m[i].cookie # x[1]

(* The two halves of a rename, between which nothing happens to its paths. *)
Mated(m, i, j) ==
  m[i].act = "rename_from" /\ m[j].act = "rename_to" /\ m[i].cookie = m[j].cookie

Closed(L, m, i, j) ==
  /\ i < j /\ m[i].path # m[j].path
  /\ \A k \in L : /\ m[k].path = m[i].path /\ i < k => j < k
                  /\ m[k].path = m[j].path /\ k < j => k < i

Halves(f, L, m) ==
  /\ \A j \in L : m[j].act = "rename_to" =>
        (\E x \in f : x[1] = m[j].cookie) \/ \E i \in L : Mated(m, i, j)
  /\ \A i, j \in L : Mated(m, i, j) => Closed(L, m, i, j)
  /\ \A i, j \in L :
        m[i].act \in Renames /\ m[j].act = m[i].act /\ m[i].cookie = m[j].cookie => i = j

Kinds(L, m) == \A i \in L : m[i].act \in {"new", "delete", "rename_from", "rename_to"}

Sound(v, f, L, m, R) ==
  Worth(Settled(v, f), L, m, R) /\ Sources(v, f, L, m) /\ Halves(f, L, m) /\ Kinds(L, m)

-----------------------------------------------------------------------------
(* The list l and the arrays o.                                            *)

(* An event that the list has kept while newer ones were moved is alone on *)
(* its path with what the list holds.                                      *)
Behind(l, o, m) ==
  \A i \in l, j \in o : i < j => m[i].path # m[j].path /\ m[i].act \in {"delete", "rename_from"}

(* The end of a path would merge with such an event: none comes after it.  *)
Open(e) == e.act = "new" \/ (e.act = "rename_to" /\ e.pair # Null)

Unspent(l, m, K) ==
  \A h \in l, k \in K : Open(m[h]) /\ m[k].path = m[h].path /\ h < k => Creates(m[k])

(* A rename_to that has lost its partner to an array is the oldest.        *)
Foremost(l, m) ==
  \A j \in l : m[j].act = "rename_to" /\ m[j].pair = Null => Oldest(l, m, j)

Coupled(l, m) ==
  \A j \in l : m[j].act = "rename_to" /\ m[j].pair # Null => m[m[j].pair].cookie = m[j].cookie

(* A rename_from without its rename_to waits for a thread to report it.    *)
Halved(L, m, r) ==
  \A i \in L : m[i].act = "rename_from" =>
    (\E j \in L : Mated(m, i, j)) \/ \E t \in Thread : r[t].cookie = m[i].cookie

(* While it waits, nothing else happens to the two paths.                  *)
Waits(l, L, f, m, r) ==
  \A t \in Thread : r[t].cookie # 0 =>
    /\ \A x \in f : x[1] # r[t].cookie
    /\ \A i \in L : m[i].cookie = r[t].cookie =>
          /\ i \in l /\ m[i].path # r[t].path /\ Newest(L, m, i)
          /\ \A k \in L : m[k].path = r[t].path => k < i

Fronts(l, o, f, m, r, K) ==
  /\ Behind(l, o, m) /\ Unspent(l, m, K) /\ Foremost(l, m) /\ Coupled(l, m)
  /\ Halved(l \cup o, m, r) /\ Waits(l, l \cup o, f, m, r)

(* An operation that is not yet reported to its end holds its paths.       *)
Locks ==
  /\ \A t, u \in Thread : t # u => held[t] \cap held[u] = {}
  /\ \A t \in Thread : rest[t] # Done =>
        /\ rest[t].act = "new" => MayDuplicate
        /\ rest[t].path \in held[t] \cap fs
        /\ rest[t].cookie # 0 =>
             \A i \in list \cup Batched : ev[i].cookie = rest[t].cookie => ev[i].path \in held[t]
  /\ quit => \A t \in Thread : rest[t] = Done

(* A file whose creation by a rename is not reported does not count yet.   *)
Reported == {p \in fs : \A t \in Thread : rest[t].act = "rename_to" => rest[t].path # p}

Track ==
  /\ Sound(view, froms, list \cup Batched, ev, Reported)
  /\ Fronts(list, Batched, froms, ev, rest, list \cup Batched)
  /\ Locks

-----------------------------------------------------------------------------
(* Worth, as events come and go.                                           *)

LEMMA WorthSame ==
  ASSUME NEW s, NEW L, NEW m, NEW R, NEW m2, Worth(s, L, m, R),
         \A i \in L : m2[i].path = m[i].path /\ (Creates(m2[i]) <=> Creates(m[i]))
  PROVE  Worth(s, L, m2, R)
<1>1. Floor(s, L, m2, R)
  BY DEF Worth, Floor, Oldest, Newest, Follows
<1>2. Exact => Line(s, L, m2, R)
  BY DEF Worth, Line, Oldest, Newest, Follows
<1> QED BY <1>1, <1>2 DEF Worth

(* An event arrives, and what is reported changes by it.                   *)
LEMMA LineAppend ==
  ASSUME NEW s, NEW L \in SUBSET EventId, NEW m, NEW R, NEW R2, Line(s, L, m, R),
         NEW x \in EventId, \A i \in L : i < x, m[x].path \in Path,
         m[x].path \in R <=> ~ Creates(m[x]),
         m[x].path \in R2 <=> Creates(m[x]),
         \A p \in Path : p # m[x].path => (p \in R2 <=> p \in R),
         \A i \in L : m[i].path \in Path
  PROVE  Line(s, L \cup {x}, m, R2)
<1> DEFINE K == L \cup {x}
<1>0. \A i \in K : i \in Nat /\ i <= x
  BY Assumptions DEF EventId
<1>1. \A i \in L : Oldest(K, m, i) => (Creates(m[i]) <=> m[i].path \notin s)
  BY <1>0 DEF Line, Oldest
<1>2. Oldest(K, m, x) => (Creates(m[x]) <=> m[x].path \notin s)
  <2> SUFFICES ASSUME Oldest(K, m, x) PROVE m[x].path \in s <=> m[x].path \in R
    OBVIOUS
  <2>1. \A k \in L : m[k].path # m[x].path
    BY <1>0 DEF Oldest
  <2> QED BY <2>1 DEF Line
<1>3. \A i \in L : Newest(K, m, i) => (Creates(m[i]) <=> m[i].path \in R2)
  <2> SUFFICES ASSUME NEW i \in L, Newest(K, m, i) PROVE Creates(m[i]) <=> m[i].path \in R2
    OBVIOUS
  <2>1. m[x].path # m[i].path
    BY <1>0 DEF Newest
  <2>2. Newest(L, m, i)
    BY DEF Newest
  <2> QED BY <2>1, <2>2 DEF Line
<1>4. \A i, j \in L : Follows(K, m, i, j) => (Creates(m[i]) <=> ~ Creates(m[j]))
  BY DEF Line, Follows
<1>5. \A i \in L : Follows(K, m, i, x) => (Creates(m[i]) <=> ~ Creates(m[x]))
  <2> SUFFICES ASSUME NEW i \in L, Follows(K, m, i, x) PROVE Creates(m[i]) <=> ~ Creates(m[x])
    OBVIOUS
  <2>1. Newest(L, m, i) /\ m[i].path = m[x].path
    BY <1>0 DEF Newest, Follows
  <2> QED BY <2>1 DEF Line
<1>6. \A j \in K : ~ Follows(K, m, x, j)
  BY <1>0 DEF Follows
<1>7. \A p \in Path : (\A k \in K : m[k].path # p) => (p \in s <=> p \in R2)
  BY DEF Line
<1>8. \A i \in K : i \in L \/ i = x
  OBVIOUS
<1> HIDE DEF K
<1>9. \A i \in K : Newest(K, m, i) => (Creates(m[i]) <=> m[i].path \in R2)
  BY <1>3, <1>8
<1>10. \A i, j \in K : Follows(K, m, i, j) => (Creates(m[i]) <=> ~ Creates(m[j]))
  BY <1>4, <1>5, <1>6, <1>8
<1>11. \A i \in K : Oldest(K, m, i) => (Creates(m[i]) <=> m[i].path \notin s)
  BY <1>1, <1>2, <1>8
<1>12. Line(s, K, m, R2)
  BY <1>7, <1>9, <1>10, <1>11 DEF Line
<1> QED BY <1>12 DEF K

LEMMA FloorAppend ==
  ASSUME NEW s, NEW L \in SUBSET EventId, NEW m, NEW R, NEW R2, Floor(s, L, m, R),
         NEW x \in EventId, \A i \in L : i < x, m[x].path \in Path,
         Turns(m[x], R, R2), \A i \in L : m[i].path \in Path
  PROVE  Floor(s, L \cup {x}, m, R2)
<1> DEFINE K == L \cup {x}
<1>0. /\ \A i \in K : i \in Nat /\ i <= x /\ (i \in L \/ i = x)
      /\ \A i \in L : i < x /\ i \in K
      /\ x \in K /\ x \in Nat
  BY Assumptions DEF EventId
<1>1. \A i \in L : Oldest(K, m, i) => Creates(m[i]) \/ m[i].path \in s
  BY <1>0 DEF Floor, Oldest
<1>2. Oldest(K, m, x) => Creates(m[x]) \/ m[x].path \in s
  <2> SUFFICES ASSUME Oldest(K, m, x), m[x].path \in R PROVE m[x].path \in s
    BY DEF Turns
  <2>1. \A k \in L : m[k].path # m[x].path
    BY <1>0 DEF Oldest
  <2> QED BY <2>1 DEF Floor
<1>3. \A i \in K : Newest(K, m, i) /\ m[i].path \in R2 => Creates(m[i])
  <2> SUFFICES ASSUME NEW i \in L, Newest(K, m, i), m[i].path \in R2 PROVE Creates(m[i])
    BY <1>0 DEF Turns
  <2>1. m[x].path # m[i].path
    BY <1>0 DEF Newest
  <2>2. Newest(L, m, i)
    BY DEF Newest
  <2>3. m[i].path \in R
    BY <2>1 DEF Turns
  <2> QED BY <2>2, <2>3 DEF Floor
<1>4. \A i, j \in L : Follows(K, m, i, j) => Creates(m[i]) \/ Creates(m[j])
  BY DEF Floor, Follows
<1>5. \A i \in L : Follows(K, m, i, x) => Creates(m[i]) \/ Creates(m[x])
  <2> SUFFICES ASSUME NEW i \in L, Follows(K, m, i, x), ~ Creates(m[x]) PROVE Creates(m[i])
    OBVIOUS
  <2>1. Newest(L, m, i) /\ m[i].path = m[x].path
    BY <1>0 DEF Newest, Follows
  <2> QED BY <2>1 DEF Floor, Turns
<1>6. \A j \in K : ~ Follows(K, m, x, j)
  BY <1>0 DEF Follows
<1>7. \A p \in Path : (\A k \in K : m[k].path # p) => (p \in R2 => p \in s)
  BY DEF Floor, Turns
<1> HIDE DEF K
<1>8. \A i, j \in K : Follows(K, m, i, j) => Creates(m[i]) \/ Creates(m[j])
  BY <1>0, <1>4, <1>5, <1>6
<1>9. \A i \in K : Oldest(K, m, i) => Creates(m[i]) \/ m[i].path \in s
  BY <1>0, <1>1, <1>2
<1>10. Floor(s, K, m, R2)
  BY <1>3, <1>7, <1>8, <1>9 DEF Floor
<1> QED BY <1>10 DEF K

LEMMA WorthAppend ==
  ASSUME NEW s, NEW L \in SUBSET EventId, NEW m, NEW R, NEW R2, Worth(s, L, m, R),
         NEW x \in EventId, \A i \in L : i < x, m[x].path \in Path,
         Turns(m[x], R, R2), \A i \in L : m[i].path \in Path
  PROVE  Worth(s, L \cup {x}, m, R2)
<1>1. Floor(s, L \cup {x}, m, R2)
  BY FloorAppend DEF Worth
<1>2. ASSUME Exact PROVE Line(s, L \cup {x}, m, R2)
  <2>1. /\ m[x].path \in R <=> ~ Creates(m[x])
        /\ m[x].path \in R2 <=> Creates(m[x])
        /\ \A p \in Path : p # m[x].path => (p \in R2 <=> p \in R)
    BY <1>2 DEF Turns
  <2> QED BY <1>2, <2>1, LineAppend DEF Worth
<1> QED BY <1>1, <1>2 DEF Worth

(* Two events that follow each other at the end of their path are removed. *)
LEMMA LineCancel ==
  ASSUME NEW s, NEW L \in SUBSET EventId, NEW m, NEW R, Line(s, L, m, R),
         NEW h \in L, NEW x \in L, Follows(L, m, h, x), Newest(L, m, x)
  PROVE  Line(s, L \ {h, x}, m, R)
<1> DEFINE K == L \ {h, x}
<1>0. /\ \A i \in L : i \in Nat
      /\ m[h].path = m[x].path /\ h < x
      /\ \A k \in L : m[k].path = m[h].path => k <= h \/ k = x
      /\ (Creates(m[h]) <=> ~ Creates(m[x])) /\ (Creates(m[x]) <=> m[x].path \in R)
  <2>1. \A i \in L : i \in Nat
    BY Assumptions DEF EventId
  <2> QED BY <2>1 DEF Line, Follows, Newest
<1>1. \A i \in K : Oldest(K, m, i) => (Creates(m[i]) <=> m[i].path \notin s)
  <2> SUFFICES ASSUME NEW i \in K, Oldest(K, m, i) PROVE Oldest(L, m, i)
    BY DEF Line
  <2> QED BY <1>0 DEF Oldest
<1>2. \A i \in K : Newest(K, m, i) => (Creates(m[i]) <=> m[i].path \in R)
  <2> SUFFICES ASSUME NEW i \in K, Newest(K, m, i) PROVE Creates(m[i]) <=> m[i].path \in R
    OBVIOUS
  <2>1. CASE m[i].path = m[h].path
    <3>1. Follows(L, m, i, h)
      BY <2>1, <1>0 DEF Follows, Newest
    <3> QED BY <3>1, <2>1, <1>0 DEF Line
  <2>2. CASE m[i].path # m[h].path
    <3>1. Newest(L, m, i)
      BY <2>2, <1>0 DEF Newest
    <3> QED BY <3>1 DEF Line
  <2> QED BY <2>1, <2>2
<1>3. \A i, j \in K : Follows(K, m, i, j) => (Creates(m[i]) <=> ~ Creates(m[j]))
  <2> SUFFICES ASSUME NEW i \in K, NEW j \in K, Follows(K, m, i, j) PROVE Follows(L, m, i, j)
    BY DEF Line
  <2> QED BY <1>0 DEF Follows
<1>4. ASSUME NEW p \in Path, \A k \in K : m[k].path # p PROVE p \in s <=> p \in R
  <2>1. CASE m[h].path = p
    <3>1. Oldest(L, m, h)
      BY <1>4, <2>1, <1>0 DEF Oldest
    <3> QED BY <3>1, <2>1, <1>0 DEF Line
  <2>2. CASE m[h].path # p
    <3>1. \A k \in L : m[k].path # p
      BY <1>4, <2>2, <1>0
    <3> QED BY <3>1 DEF Line
  <2> QED BY <2>1, <2>2
<1> QED BY <1>1, <1>2, <1>3, <1>4 DEF Line

(* x is the opposite of h, and nothing after h ends the path again.        *)
Undoes(L, m, h, x) ==
  /\ m[h].path = m[x].path /\ h < x /\ (Creates(m[h]) <=> ~ Creates(m[x]))
  /\ \A k \in L \ {x} : m[k].path = m[h].path /\ h < k => Creates(m[k])

LEMMA FloorCancel ==
  ASSUME NEW s, NEW L \in SUBSET EventId, NEW m, NEW R, Floor(s, L, m, R),
         NEW h \in L, NEW x \in L, Undoes(L, m, h, x), Newest(L, m, x)
  PROVE  Floor(s, L \ {h, x}, m, R)
<1> DEFINE K == L \ {h, x}
<1>0. /\ \A i \in L : i \in Nat /\ (m[i].path = m[h].path => i <= x)
      /\ m[h].path = m[x].path /\ h < x /\ h \in Nat /\ x \in Nat
      /\ \A k \in K : m[k].path = m[h].path => Creates(m[k]) \/ k < h
      /\ (Creates(m[h]) <=> ~ Creates(m[x])) /\ (m[h].path \in R => Creates(m[x]))
      /\ \A i \in K : i \in L /\ i # h /\ i # x
      /\ \A i \in L : i \in K \/ i = h \/ i = x
  <2>1. \A i \in L : i \in Nat
    BY Assumptions DEF EventId
  <2>2. \A k \in K : m[k].path = m[h].path => Creates(m[k]) \/ k < h
    BY <2>1 DEF Undoes
  <2> QED BY <2>1, <2>2 DEF Floor, Undoes, Newest
<1>1. \A i \in K : Oldest(K, m, i) => Creates(m[i]) \/ m[i].path \in s
  <2> SUFFICES ASSUME NEW i \in K, Oldest(K, m, i), ~ Creates(m[i]) PROVE Oldest(L, m, i)
    BY DEF Floor
  <2>1. \A k \in K : m[k].path = m[i].path => i <= k
    BY DEF Oldest
  <2>2. i < h \/ m[i].path # m[h].path
    BY <1>0
  <2>3. i \in Nat /\ h \in Nat /\ x \in Nat /\ h < x /\ m[h].path = m[x].path
    BY <1>0
  <2>4. ASSUME NEW k \in L, m[k].path = m[i].path PROVE i <= k
    <3>1. CASE k \in K
      BY <2>1, <2>4, <3>1
    <3>2. CASE k = h \/ k = x
      BY <2>2, <2>3, <2>4, <3>2
    <3> QED BY <1>0, <2>4, <3>1, <3>2
  <2> QED BY <2>4 DEF Oldest
<1>2. \A i \in K : Newest(K, m, i) /\ m[i].path \in R => Creates(m[i])
  <2> SUFFICES ASSUME NEW i \in K, Newest(K, m, i), m[i].path \in R PROVE Creates(m[i])
    OBVIOUS
  <2>1. CASE m[i].path = m[h].path /\ i < h
    <3>1. Follows(L, m, i, h)
      <4> HIDE DEF K
      <4> QED BY <2>1, <1>0 DEF Follows, Newest
    <3>2. Creates(m[i]) \/ Creates(m[h])
      BY <3>1 DEF Floor
    <3> QED BY <3>2, <2>1, <1>0
  <2>2. CASE m[i].path # m[h].path
    <3>1. Newest(L, m, i)
      BY <2>2, <1>0 DEF Newest
    <3> QED BY <3>1, <2>2 DEF Floor
  <2> QED BY <2>1, <2>2, <1>0
<1>3. \A i, j \in K : Follows(K, m, i, j) => Creates(m[i]) \/ Creates(m[j])
  <2> SUFFICES ASSUME NEW i \in K, NEW j \in K, Follows(K, m, i, j), ~ Creates(m[i]), ~ Creates(m[j])
               PROVE  Follows(L, m, i, j)
    BY DEF Floor
  <2>1. /\ m[i].path = m[j].path /\ i < j /\ i \in Nat /\ j \in Nat
        /\ \A k \in K : m[k].path = m[i].path => k <= i \/ j <= k
    BY <1>0 DEF Follows
  <2>2. m[j].path # m[h].path \/ j < h
    BY <1>0
  <2>3. h \in Nat /\ x \in Nat /\ h < x /\ m[h].path = m[x].path
    BY <1>0
  <2>4. ASSUME NEW k \in L, m[k].path = m[i].path PROVE k <= i \/ j <= k
    <3>1. CASE k \in K
      BY <2>1, <2>4, <3>1
    <3>2. CASE k = h \/ k = x
      BY <2>1, <2>2, <2>3, <2>4, <3>2
    <3> QED BY <1>0, <2>4, <3>1, <3>2
  <2> QED BY <2>1, <2>4 DEF Follows
<1>4. ASSUME NEW p \in Path, \A k \in K : m[k].path # p, p \in R PROVE p \in s
  <2>1. CASE m[h].path = p
    <3>1. Oldest(L, m, h)
      <4> HIDE DEF K
      <4> QED BY <1>4, <2>1, <1>0 DEF Oldest
    <3>2. Creates(m[h]) \/ m[h].path \in s
      BY <3>1 DEF Floor
    <3> QED BY <3>2, <2>1, <1>4, <1>0
  <2>2. CASE m[h].path # p
    <3>1. \A k \in L : m[k].path # p
      BY <1>4, <2>2, <1>0
    <3> QED BY <3>1, <1>4 DEF Floor
  <2> QED BY <2>1, <2>2
<1> QED BY <1>1, <1>2, <1>3, <1>4 DEF Floor

(* On a line, what x undoes is what came just before it.                   *)
LEMMA LineUndoes ==
  ASSUME NEW s, NEW L \in SUBSET EventId, NEW m, NEW R, Line(s, L, m, R),
         NEW h \in L, NEW x \in L, Undoes(L, m, h, x), Newest(L, m, x)
  PROVE  Follows(L, m, h, x)
<1> DEFINE U == {k \in L \ {x} : m[k].path = m[h].path /\ h < k}
<1>0. /\ \A i \in L : i \in Nat /\ (m[i].path = m[h].path => i <= x)
      /\ m[h].path = m[x].path /\ h < x /\ U \subseteq EventId
      /\ (Creates(m[h]) <=> ~ Creates(m[x])) /\ \A k \in U : Creates(m[k])
  <2>1. EventId \subseteq Nat
    BY Assumptions DEF EventId
  <2>2. /\ m[h].path = m[x].path /\ h < x /\ (Creates(m[h]) <=> ~ Creates(m[x]))
        /\ \A k \in L \ {h, x} : m[k].path = m[h].path /\ h < k => Creates(m[k])
    BY <2>1 DEF Undoes
  <2>3. \A k \in U : k \in L \ {h, x}
    BY <2>1
  <2>4. \A i \in L : i \in Nat /\ (m[i].path = m[h].path => i <= x)
    BY <2>1, <2>2 DEF Newest
  <2> QED BY <2>2, <2>3, <2>4
<1>1. ASSUME U # {} PROVE FALSE
  <2>1. CASE Creates(m[h])
    <3>1. PICK k \in U : \A i \in U : k <= i
      <4> HIDE DEF U
      <4> QED BY <1>0, <1>1, MinExists
    <3>2. k \in L /\ m[k].path = m[h].path /\ h < k /\ k \in Nat /\ h \in Nat
      BY <1>0
    <3>3. \A i \in L : m[i].path = m[h].path => i <= h \/ k <= i
      <4> SUFFICES ASSUME NEW i \in L, m[i].path = m[h].path PROVE i <= h \/ k <= i
        OBVIOUS
      <4>1. i \in U \/ i = x \/ ~ (h < i)
        OBVIOUS
      <4>2. k <= x
        BY <1>0, <3>2
      <4> HIDE DEF U
      <4> QED BY <4>1, <4>2, <1>0, <3>1, <3>2
    <3>4. Follows(L, m, h, k)
      BY <3>2, <3>3 DEF Follows
    <3> QED BY <3>2, <3>4, <2>1, <1>0, <3>1 DEF Line
  <2>2. CASE Creates(m[x])
    <3>1. PICK k \in U : \A i \in U : i <= k
      <4> HIDE DEF U
      <4> QED BY <1>0, <1>1, MaxExists
    <3>2. k \in L /\ k # x /\ m[k].path = m[h].path /\ h < k /\ k \in Nat /\ h \in Nat /\ x \in Nat
      BY <1>0
    <3>3. \A i \in L : m[i].path = m[h].path => i <= k \/ i = x
      <4> SUFFICES ASSUME NEW i \in L, m[i].path = m[h].path PROVE i <= k \/ i = x
        OBVIOUS
      <4>1. i \in U \/ i = x \/ ~ (h < i)
        OBVIOUS
      <4> HIDE DEF U
      <4> QED BY <4>1, <1>0, <3>1, <3>2
    <3>4. k < x
      BY <1>0, <3>2
    <3>5. Follows(L, m, k, x)
      BY <1>0, <3>2, <3>3, <3>4 DEF Follows
    <3> QED BY <3>2, <3>5, <2>2, <1>0, <3>1 DEF Line
  <2> QED BY <1>0, <2>1, <2>2
<1>2. \A k \in L : m[k].path = m[h].path => k <= h \/ x <= k
  BY <1>0, <1>1
<1> QED BY <1>0, <1>2 DEF Follows

LEMMA WorthCancel ==
  ASSUME NEW s, NEW L \in SUBSET EventId, NEW m, NEW R, Worth(s, L, m, R),
         NEW h \in L, NEW x \in L, Undoes(L, m, h, x), Newest(L, m, x)
  PROVE  Worth(s, L \ {h, x}, m, R)
BY FloorCancel, LineUndoes, LineCancel DEF Worth

(* The oldest event of a path takes effect.                                *)
LEMMA LineApply ==
  ASSUME NEW s, NEW L \in SUBSET EventId, NEW m, NEW R, Line(s, L, m, R),
         NEW x \in L, Oldest(L, m, x),
         NEW s2, m[x].path \in s2 <=> Creates(m[x]),
         \A p \in Path : p # m[x].path => (p \in s2 <=> p \in s),
         \A i \in L : m[i].path \in Path
  PROVE  Line(s2, L \ {x}, m, R)
<1> DEFINE K == L \ {x}
<1>0. \A i \in L : i \in Nat /\ (m[i].path = m[x].path => x <= i)
  BY Assumptions DEF EventId, Oldest
<1>1. \A i \in K : Oldest(K, m, i) => (Creates(m[i]) <=> m[i].path \notin s2)
  <2> SUFFICES ASSUME NEW i \in K, Oldest(K, m, i) PROVE Creates(m[i]) <=> m[i].path \notin s2
    OBVIOUS
  <2>1. CASE m[i].path = m[x].path
    <3>1. Follows(L, m, x, i)
      BY <2>1, <1>0 DEF Follows, Oldest
    <3> QED BY <3>1, <2>1 DEF Line
  <2>2. CASE m[i].path # m[x].path
    <3>1. Oldest(L, m, i)
      BY <2>2 DEF Oldest
    <3> QED BY <3>1, <2>2 DEF Line
  <2> QED BY <2>1, <2>2
<1>2. \A i \in K : Newest(K, m, i) => (Creates(m[i]) <=> m[i].path \in R)
  <2> SUFFICES ASSUME NEW i \in K, Newest(K, m, i) PROVE Newest(L, m, i)
    BY DEF Line
  <2> QED BY <1>0 DEF Newest
<1>3. \A i, j \in K : Follows(K, m, i, j) => (Creates(m[i]) <=> ~ Creates(m[j]))
  <2> SUFFICES ASSUME NEW i \in K, NEW j \in K, Follows(K, m, i, j) PROVE Follows(L, m, i, j)
    BY DEF Line
  <2> QED BY <1>0 DEF Follows
<1>4. ASSUME NEW p \in Path, \A k \in K : m[k].path # p PROVE p \in s2 <=> p \in R
  <2>1. CASE m[x].path = p
    <3>1. Newest(L, m, x)
      BY <1>4, <2>1, <1>0 DEF Newest
    <3> QED BY <3>1, <2>1 DEF Line
  <2>2. CASE m[x].path # p
    <3>1. \A k \in L : m[k].path # p
      BY <1>4, <2>2
    <3> QED BY <3>1, <2>2 DEF Line
  <2> QED BY <2>1, <2>2
<1> QED BY <1>1, <1>2, <1>3, <1>4 DEF Line

LEMMA FloorApply ==
  ASSUME NEW s, NEW L \in SUBSET EventId, NEW m, NEW R, Floor(s, L, m, R),
         NEW x \in L, Oldest(L, m, x),
         NEW s2, m[x].path \in s2 <=> Creates(m[x]),
         \A p \in Path : p # m[x].path => (p \in s2 <=> p \in s),
         \A i \in L : m[i].path \in Path
  PROVE  Floor(s2, L \ {x}, m, R)
<1> DEFINE K == L \ {x}
<1>0. \A i \in L : i \in Nat /\ (m[i].path = m[x].path => x <= i)
  BY Assumptions DEF EventId, Oldest
<1>1. \A i \in K : Oldest(K, m, i) => Creates(m[i]) \/ m[i].path \in s2
  <2> SUFFICES ASSUME NEW i \in K, Oldest(K, m, i) PROVE Creates(m[i]) \/ m[i].path \in s2
    OBVIOUS
  <2>1. CASE m[i].path = m[x].path
    <3>1. Follows(L, m, x, i)
      BY <2>1, <1>0 DEF Follows, Oldest
    <3>2. Creates(m[x]) \/ Creates(m[i])
      BY <3>1 DEF Floor
    <3> QED BY <3>2, <2>1
  <2>2. CASE m[i].path # m[x].path
    <3>1. Oldest(L, m, i)
      BY <2>2 DEF Oldest
    <3>2. Creates(m[i]) \/ m[i].path \in s
      BY <3>1 DEF Floor
    <3> QED BY <3>2, <2>2
  <2> QED BY <2>1, <2>2
<1>2. \A i \in K : Newest(K, m, i) /\ m[i].path \in R => Creates(m[i])
  <2> SUFFICES ASSUME NEW i \in K, Newest(K, m, i) PROVE Newest(L, m, i)
    BY DEF Floor
  <2> QED BY <1>0 DEF Newest
<1>3. \A i, j \in K : Follows(K, m, i, j) => Creates(m[i]) \/ Creates(m[j])
  <2> SUFFICES ASSUME NEW i \in K, NEW j \in K, Follows(K, m, i, j) PROVE Follows(L, m, i, j)
    BY DEF Floor
  <2> QED BY <1>0 DEF Follows
<1>4. ASSUME NEW p \in Path, \A k \in K : m[k].path # p, p \in R PROVE p \in s2
  <2>1. CASE m[x].path = p
    <3>1. Newest(L, m, x)
      BY <1>4, <2>1, <1>0 DEF Newest
    <3>2. Creates(m[x])
      BY <3>1, <2>1, <1>4 DEF Floor
    <3> QED BY <3>2, <2>1
  <2>2. CASE m[x].path # p
    <3>1. \A k \in L : m[k].path # p
      BY <1>4, <2>2
    <3> QED BY <3>1, <2>2, <1>4 DEF Floor
  <2> QED BY <2>1, <2>2
<1> QED BY <1>1, <1>2, <1>3, <1>4 DEF Floor

LEMMA WorthApply ==
  ASSUME NEW s, NEW L \in SUBSET EventId, NEW m, NEW R, Worth(s, L, m, R),
         NEW x \in L, Oldest(L, m, x),
         NEW s2, m[x].path \in s2 <=> Creates(m[x]),
         \A p \in Path : p # m[x].path => (p \in s2 <=> p \in s),
         \A i \in L : m[i].path \in Path
  PROVE  Worth(s2, L \ {x}, m, R)
BY FloorApply, LineApply DEF Worth

-----------------------------------------------------------------------------
(* The listener handles an event.                                          *)

LEMMA SoundSame ==
  ASSUME NEW v, NEW f, NEW L, NEW m, NEW R, NEW m2, Sound(v, f, L, m, R),
         \A i \in L : m2[i].act = m[i].act /\ m2[i].path = m[i].path /\ m2[i].cookie = m[i].cookie
  PROVE  Sound(v, f, L, m2, R)
<1>1. Worth(Settled(v, f), L, m2, R)
  BY WorthSame DEF Sound, Creates
<1>2. Sources(v, f, L, m2)
  BY DEF Sound, Sources
<1>3. Halves(f, L, m2)
  BY DEF Sound, Halves, Mated, Closed
<1> QED BY <1>1, <1>2, <1>3 DEF Sound, Kinds

(* What makes x an event that may be handled next.                         *)
Due(L, m, x) ==
  /\ Oldest(L, m, x)
  /\ \A j \in L : m[j].act = "rename_to" => x <= j
  /\ m[x].act = "rename_to" => \A i \in L : ~ Mated(m, i, x)
  /\ m[x].act = "rename_from" => \E j \in L : Mated(m, x, j)

Handled(v, f, L, m, R, x) ==
  /\ Sound(v, f, L, m, R) /\ L \in SUBSET EventId /\ x \in L /\ Due(L, m, x)
  /\ \A i \in L : m[i].path \in Path
  /\ f \in SUBSET (Nat \X Path) /\ v \in SUBSET Path

(* No source that waits is the path of x.                                  *)
LEMMA NoSourceAtHead ==
  ASSUME NEW v, NEW f, NEW L, NEW m, NEW R, NEW x, Handled(v, f, L, m, R, x), NEW y \in f
  PROVE  y[2] # m[x].path
<1>1. PICK j \in L : m[j].act = "rename_to" /\ \A k \in L : m[k].path = y[2] => j < k
  BY DEF Handled, Sound, Sources
<1>2. x \in L /\ x <= j /\ x \in Nat /\ j \in Nat
  BY <1>1, Assumptions DEF Handled, Due, EventId
<1> QED BY <1>1, <1>2

LEMMA PlainSound ==
  ASSUME NEW v, NEW f, NEW L, NEW m, NEW R, NEW x, Handled(v, f, L, m, R, x),
         m[x].act \in {"new", "delete"}, NEW v2,
         v2 = IF m[x].act = "new" THEN v \cup {m[x].path} ELSE v \ {m[x].path}
  PROVE  Sound(v2, f, L \ {x}, m, R)
<1> DEFINE p == m[x].path
<1>1. \A y \in f : y[2] # p
  BY NoSourceAtHead
<1>2. Worth(Settled(v2, f), L \ {x}, m, R)
  <2>1. p \in Settled(v2, f) <=> Creates(m[x])
    BY <1>1 DEF Settled, Creates
  <2>2. \A q \in Path : q # p => (q \in Settled(v2, f) <=> q \in Settled(v, f))
    BY DEF Settled
  <2>3. Worth(Settled(v, f), L, m, R) /\ Oldest(L, m, x) /\ x \in L /\ L \in SUBSET EventId
        /\ \A i \in L : m[i].path \in Path
    BY DEF Handled, Sound, Due
  <2> QED BY <2>1, <2>2, <2>3, WorthApply
<1>3. Sources(v2, f, L \ {x}, m)
  <2> SUFFICES ASSUME NEW y \in f
               PROVE  /\ y[2] \in v2
                      /\ \E j \in L \ {x} : /\ m[j].act = "rename_to" /\ m[j].cookie = y[1]
                                            /\ m[j].path # y[2]
                                            /\ \A k \in L \ {x} : m[k].path = y[2] => j < k
                      /\ \A z \in f : y[1] = z[1] \/ y[2] = z[2] => y = z
                      /\ \A i \in L \ {x} : m[i].act = "rename_from" => m[i].cookie # y[1]
    BY DEF Sources
  <2>1. y[2] \in v2
    BY <1>1 DEF Handled, Sound, Sources
  <2>2. PICK j \in L : /\ m[j].act = "rename_to" /\ m[j].cookie = y[1] /\ m[j].path # y[2]
                       /\ \A k \in L : m[k].path = y[2] => j < k
    BY DEF Handled, Sound, Sources
  <2>3. j # x
    BY <2>2
  <2> QED BY <2>1, <2>2, <2>3 DEF Handled, Sound, Sources
<1>4. Halves(f, L \ {x}, m)
  BY DEF Handled, Sound, Halves, Mated, Closed
<1> QED BY <1>2, <1>3, <1>4 DEF Sound, Handled, Kinds

LEMMA FromSound ==
  ASSUME NEW v, NEW f, NEW L, NEW m, NEW R, NEW x, Handled(v, f, L, m, R, x),
         m[x].act = "rename_from", NEW f2, f2 = f \cup {<<m[x].cookie, m[x].path>>}
  PROVE  Sound(v, f2, L \ {x}, m, R)
<1> DEFINE p == m[x].path
           c == m[x].cookie
           n == <<c, p>>
<1>1. \A y \in f : y[2] # p
  BY NoSourceAtHead
<1>2. p \in Settled(v, f)
  BY DEF Handled, Sound, Worth, Floor, Due, Creates
<1>3. Worth(Settled(v, f2), L \ {x}, m, R)
  <2>0. n \in f2 /\ n[2] = p /\ f2 = f \cup {n}
    OBVIOUS
  <2> HIDE DEF n
  <2>1. p \in Settled(v, f2) <=> Creates(m[x])
    BY <2>0 DEF Settled, Creates
  <2>2. \A q \in Path : q # p => (q \in Settled(v, f2) <=> q \in Settled(v, f))
    BY <2>0 DEF Settled
  <2>3. Worth(Settled(v, f), L, m, R) /\ Oldest(L, m, x) /\ x \in L /\ L \in SUBSET EventId
        /\ \A i \in L : m[i].path \in Path
    BY DEF Handled, Sound, Due
  <2> QED BY <2>1, <2>2, <2>3, WorthApply
<1>4. x \in L /\ Oldest(L, m, x) /\ \A i \in L : i \in Nat
  BY Assumptions DEF Handled, Due, EventId
<1>5. PICK j \in L : Mated(m, x, j)
  BY DEF Handled, Due
<1>6. Closed(L, m, x, j) /\ m[j].act = "rename_to" /\ m[j].cookie = c
  BY <1>4, <1>5 DEF Handled, Sound, Halves, Mated
<1>7. ASSUME NEW y \in f
      PROVE  /\ y[2] \in v
             /\ \E i \in L \ {x} : /\ m[i].act = "rename_to" /\ m[i].cookie = y[1]
                                   /\ m[i].path # y[2]
                                   /\ \A k \in L \ {x} : m[k].path = y[2] => i < k
             /\ \A z \in f2 : y[1] = z[1] \/ y[2] = z[2] => y = z
             /\ \A i \in L \ {x} : m[i].act = "rename_from" => m[i].cookie # y[1]
  <2>1. PICK i \in L : /\ m[i].act = "rename_to" /\ m[i].cookie = y[1] /\ m[i].path # y[2]
                       /\ \A k \in L : m[k].path = y[2] => i < k
    BY DEF Handled, Sound, Sources
  <2>2. i # x
    BY <2>1
  <2>3. y[1] # c /\ y[2] # p
    BY <1>1, <1>4 DEF Handled, Sound, Sources
  <2>4. \A z \in f2 : y[1] = z[1] \/ y[2] = z[2] => y = z
    BY <2>3 DEF Handled, Sound, Sources
  <2> QED BY <2>1, <2>2, <2>4 DEF Handled, Sound, Sources
<1>8. /\ n[1] = c /\ n[2] = p /\ p \in v
      /\ j \in L \ {x} /\ m[j].path # p /\ \A k \in L \ {x} : m[k].path = p => j < k
      /\ \A z \in f2 : c = z[1] \/ p = z[2] => n = z
      /\ \A i \in L \ {x} : m[i].act = "rename_from" => m[i].cookie # c
  <2>1. p \in v /\ n[1] = c /\ n[2] = p
    BY <1>2 DEF Settled
  <2>2. j # x /\ m[j].path # p /\ \A k \in L \ {x} : m[k].path = p => j < k
    BY <1>4, <1>6 DEF Closed, Oldest
  <2>3. \A z \in f : z[1] # c /\ z[2] # p
    BY <1>1, <1>4 DEF Handled, Sound, Sources
  <2>4. \A i \in L \ {x} : m[i].act = "rename_from" => m[i].cookie # c
    BY <1>4 DEF Handled, Sound, Halves, Renames
  <2> QED BY <2>1, <2>2, <2>3, <2>4
<1>9. Sources(v, f2, L \ {x}, m)
  <2>1. f2 = f \cup {n}
    OBVIOUS
  <2> HIDE DEF n, c, p
  <2> QED BY <2>1, <1>6, <1>7, <1>8 DEF Sources
<1>10. Halves(f2, L \ {x}, m)
  <2>1. ASSUME NEW i \in L \ {x}, m[i].act = "rename_to"
        PROVE  (\E y \in f2 : y[1] = m[i].cookie) \/ \E k \in L \ {x} : Mated(m, k, i)
    <3>1. (\E y \in f : y[1] = m[i].cookie) \/ \E k \in L : Mated(m, k, i)
      BY <2>1 DEF Handled, Sound, Halves
    <3>2. Mated(m, x, i) => \E y \in f2 : y[1] = m[i].cookie
      <4>1. n \in f2
        OBVIOUS
      <4> QED BY <4>1, <1>8 DEF Mated
    <3> QED BY <3>1, <3>2
  <2> QED BY <2>1 DEF Handled, Sound, Halves, Closed
<1> QED BY <1>3, <1>9, <1>10 DEF Sound, Handled, Kinds

(* The source paths that wait with the cookie c.                           *)
SourcesOf(f, c) == {y[2] : y \in {z \in f : z[1] = c}}

Adopted(v, f, L, m, R, x, src) ==
  /\ src # {} /\ src \subseteq v
  /\ Sound((v \ src) \cup {m[x].path}, f \ ({m[x].cookie} \X src), L \ {x}, m, R)

LEMMA ToSound ==
  ASSUME NEW v, NEW f, NEW L, NEW m, NEW R, NEW x, Handled(v, f, L, m, R, x),
         m[x].act = "rename_to"
  PROVE  Adopted(v, f, L, m, R, x, SourcesOf(f, m[x].cookie))
<1> DEFINE p == m[x].path
           c == m[x].cookie
           src == SourcesOf(f, c)
           v2 == (v \ src) \cup {p}
           f2 == f \ ({c} \X src)
<1>1. \A y \in f : y[2] # p
  BY NoSourceAtHead
<1>2. x \in L /\ f \in SUBSET (Nat \X Path)
  BY DEF Handled
<1>3. PICK y \in f : y[1] = c
  BY <1>2 DEF Handled, Sound, Halves, Due
<1>4. y[2] \in v /\ \A z \in f : z[1] = c \/ z[2] = y[2] => z = y
  BY <1>3 DEF Handled, Sound, Sources
<1>5. src = {y[2]}
  BY <1>3, <1>4 DEF SourcesOf
<1>6. f2 = f \ {y}
  <2>1. y = <<c, y[2]>> /\ \A z \in f : z = <<z[1], z[2]>>
    BY <1>2, <1>3
  <2>2. {c} \X src = {y}
    BY <2>1, <1>5
  <2> QED BY <2>2
<1> HIDE DEF f2
<1>7. Worth(Settled(v2, f2), L \ {x}, m, R)
  <2>1. p \in Settled(v2, f2) <=> Creates(m[x])
    BY <1>1, <1>6 DEF Settled, Creates
  <2>2. \A q \in Path : q # p => (q \in Settled(v2, f2) <=> q \in Settled(v, f))
    BY <1>3, <1>4, <1>5, <1>6 DEF Settled
  <2>3. Worth(Settled(v, f), L, m, R) /\ Oldest(L, m, x) /\ x \in L /\ L \in SUBSET EventId
        /\ \A i \in L : m[i].path \in Path
    BY DEF Handled, Sound, Due
  <2> HIDE DEF v2
  <2> QED BY <2>1, <2>2, <2>3, WorthApply
<1>8. Sources(v2, f2, L \ {x}, m)
  <2> SUFFICES ASSUME NEW z \in f2
               PROVE  /\ z[2] \in v2
                      /\ \E j \in L \ {x} : /\ m[j].act = "rename_to" /\ m[j].cookie = z[1]
                                            /\ m[j].path # z[2]
                                            /\ \A k \in L \ {x} : m[k].path = z[2] => j < k
                      /\ \A w \in f2 : z[1] = w[1] \/ z[2] = w[2] => z = w
                      /\ \A i \in L \ {x} : m[i].act = "rename_from" => m[i].cookie # z[1]
    BY DEF Sources
  <2>0. z \in f /\ z # y
    BY <1>6
  <2>1. z[2] \in v2
    BY <2>0, <1>4, <1>5 DEF Handled, Sound, Sources
  <2>2. PICK j \in L : /\ m[j].act = "rename_to" /\ m[j].cookie = z[1] /\ m[j].path # z[2]
                       /\ \A k \in L : m[k].path = z[2] => j < k
    BY <2>0 DEF Handled, Sound, Sources
  <2>3. j # x
    BY <2>0, <2>2, <1>4
  <2> QED BY <2>0, <2>1, <2>2, <2>3, <1>6 DEF Handled, Sound, Sources
<1>9. Halves(f2, L \ {x}, m)
  <2>1. ASSUME NEW i \in L \ {x}, m[i].act = "rename_to"
        PROVE  (\E z \in f2 : z[1] = m[i].cookie) \/ \E k \in L \ {x} : Mated(m, k, i)
    <3>1. (\E z \in f : z[1] = m[i].cookie) \/ \E k \in L : Mated(m, k, i)
      BY <2>1 DEF Handled, Sound, Halves
    <3>2. m[i].cookie # c
      BY <2>1, <1>2 DEF Handled, Sound, Halves, Renames
    <3>3. \A k \in L : Mated(m, k, i) => k # x
      BY DEF Mated
    <3> QED BY <3>1, <3>2, <3>3, <1>3, <1>6
  <2> QED BY <2>1 DEF Handled, Sound, Halves, Closed
<1>10. Sound(v2, f2, L \ {x}, m, R)
  BY <1>7, <1>8, <1>9 DEF Sound, Handled, Kinds
<1> QED BY <1>4, <1>5, <1>10 DEF f2, Adopted

(* HandleMsg leaves files that the remaining events turn into R.           *)
(* A state s of the listener from which the remaining events lead to R.    *)
Leads(s, L, m, R) ==
  /\ Sound(s.view, s.froms, L, m, R)
  /\ s.view \in SUBSET Path /\ s.froms \in SUBSET (Nat \X Path)
  /\ s = [view |-> s.view, froms |-> s.froms]

LEMMA HandleSound ==
  ASSUME NEW v, NEW f, NEW L, NEW m, NEW R, NEW x, Handled(v, f, L, m, R, x), m[x] \in Event
  PROVE  Leads(HandleMsg([view |-> v, froms |-> f], m[x]), L \ {x}, m, R)
<1> DEFINE s0 == [view |-> v, froms |-> f]
           s == HandleMsg(s0, m[x])
           e == m[x]
           from == {y[2] : y \in {z \in s0.froms : z[1] = e.cookie}}
<1>0. /\ v \in SUBSET Path /\ f \in SUBSET (Nat \X Path) /\ e.path \in Path
      /\ e.act \in {"new", "delete", "rename_from", "rename_to"}
  BY DEF Handled, Sound, Kinds
<1>1. s.view \in SUBSET Path /\ s.froms \in SUBSET (Nat \X Path)
  BY <1>0, HandleTypes
<1>2. s = CASE e.act = "new"         -> [s0 EXCEPT !.view = @ \cup {e.path}]
            [] e.act = "delete"      -> [s0 EXCEPT !.view = @ \ {e.path}]
            [] e.act = "rename_from" -> [s0 EXCEPT !.froms = @ \cup {<<e.cookie, e.path>>}]
            [] e.act = "rename_to"   ->
                 [view |-> IF from # {} /\ from \subseteq s0.view
                           THEN (s0.view \ from) \cup {e.path} ELSE s0.view,
                  froms |-> s0.froms \ ({e.cookie} \X from)]
            [] OTHER -> s0
  BY DEF HandleMsg
<1>3. s0.view = v /\ s0.froms = f /\ from = {y[2] : y \in {z \in f : z[1] = e.cookie}}
  OBVIOUS
<1> HIDE DEF s
<1> SUFFICES Leads(s, L \ {x}, m, R)
  BY DEF s
<1>4. CASE e.act \in {"new", "delete"}
  <2>1. s = [view |-> IF e.act = "new" THEN v \cup {e.path} ELSE v \ {e.path}, froms |-> f]
    BY <1>2, <1>4
  <2>2. /\ s.view = IF e.act = "new" THEN v \cup {e.path} ELSE v \ {e.path}
        /\ s.froms = f /\ s = [view |-> s.view, froms |-> s.froms]
    BY <2>1
  <2> QED BY <2>2, <1>1, <1>4, PlainSound DEF Leads
<1>5. CASE e.act = "rename_from"
  <2>1. s = [view |-> v, froms |-> f \cup {<<e.cookie, e.path>>}]
    BY <1>2, <1>5
  <2>2. s.view = v /\ s.froms = f \cup {<<e.cookie, e.path>>} /\ s = [view |-> s.view, froms |-> s.froms]
    BY <2>1
  <2> QED BY <2>2, <1>1, <1>5, FromSound DEF Leads
<1>6. CASE e.act = "rename_to"
  <2> DEFINE v2 == (v \ from) \cup {e.path}
             f2 == f \ ({e.cookie} \X from)
  <2>1. from # {} /\ from \subseteq v /\ Sound(v2, f2, L \ {x}, m, R)
    <3>1. from = SourcesOf(f, m[x].cookie)
      BY <1>3 DEF SourcesOf
    <3>2. Adopted(v, f, L, m, R, x, SourcesOf(f, m[x].cookie))
      BY <1>6, ToSound
    <3> QED BY <3>1, <3>2 DEF Adopted
  <2>2. s = [view |-> v2, froms |-> f2]
    <3>1. s = [view |-> IF from # {} /\ from \subseteq s0.view
                        THEN (s0.view \ from) \cup {e.path} ELSE s0.view,
               froms |-> s0.froms \ ({e.cookie} \X from)]
      BY <1>2, <1>6
    <3> HIDE DEF from
    <3> QED BY <3>1, <2>1, <1>3
  <2> HIDE DEF v2, f2
  <2>3. s.view = v2 /\ s.froms = f2 /\ s = [view |-> s.view, froms |-> s.froms]
    BY <2>2
  <2> QED BY <2>1, <2>3, <1>1 DEF v2, f2, Leads
<1> QED BY <1>0, <1>4, <1>5, <1>6

-----------------------------------------------------------------------------
(* Replay                                                                  *)

Handling(s, k) == IF k \in list \cup Batched THEN HandleMsg(s, ev[k]) ELSE s

(* The recursion of Replay has a solution.                                 *)
LEMMA ReplaySteps ==
  /\ Replay[0] = [view |-> view, froms |-> froms]
  /\ \A k \in 1 .. MaxEvent : Replay[k] = Handling(Replay[k - 1], k)
<1> DEFINE s0 == [view |-> view, froms |-> froms]
           Step(f, n) == f = [k \in 0 .. n |-> IF k = 0 THEN s0 ELSE Handling(f[k - 1], k)]
           stuck == {n \in Nat : ~ \E f : Step(f, n)}
<1>1. MaxEvent \in Nat
  BY Assumptions
<1>2. stuck = {}
  <2>1. SUFFICES ASSUME stuck # {} PROVE FALSE
    OBVIOUS
  <2>2. PICK n \in stuck : \A k \in stuck : n <= k
    <3>1. stuck \subseteq Nat
      OBVIOUS
    <3> HIDE DEF stuck
    <3> QED BY <2>1, <3>1, SmallestOf
  <2>3. CASE n = 0
    <3> DEFINE f == [k \in 0 .. 0 |-> s0]
    <3>1. Step(f, 0)
      OBVIOUS
    <3> QED BY <2>2, <2>3, <3>1
  <2>4. CASE n # 0
    <3>1. n \in Nat /\ n - 1 \in Nat /\ n - 1 < n
      BY <2>4
    <3>2. PICK f : Step(f, n - 1)
      <4>1. n - 1 \notin stuck
        <5> HIDE DEF stuck
        <5>1. \A x \in Nat : x - 1 < x => ~(x <= x - 1)
          OBVIOUS
        <5>2. ~(n <= n - 1)
          BY <3>1, <5>1
        <5> QED BY <2>2, <5>2
      <4> QED BY <3>1, <4>1
    <3> DEFINE g == [k \in 0 .. n |-> IF k <= n - 1 THEN f[k] ELSE Handling(f[n - 1], n)]
    <3>3. \A k \in 0 .. n - 1 : f[k] = IF k = 0 THEN s0 ELSE Handling(f[k - 1], k)
      BY <3>2
    <3>4. \A k \in 0 .. n - 1 : g[k] = f[k]
      BY <3>1
    <3>5. g[n] = Handling(f[n - 1], n)
      BY <3>1
    <3>6. \A k \in 0 .. n : k # 0 => k - 1 \in 0 .. n - 1
      BY <3>1
    <3>7. \A k \in 0 .. n : g[k] = IF k = 0 THEN s0 ELSE Handling(g[k - 1], k)
      <4> TAKE k \in 0 .. n
      <4>1. CASE k = n
        <5>1. g[n - 1] = f[n - 1]
          BY <3>1, <3>4
        <5> HIDE DEF g
        <5> QED BY <2>4, <3>5, <4>1, <5>1
      <4>2. CASE k # n
        <5>1. k \in 0 .. n - 1
          BY <3>1, <4>2
        <5> HIDE DEF g
        <5> QED BY <3>3, <3>4, <3>6, <5>1
      <4> QED BY <4>1, <4>2
    <3>8. DOMAIN g = 0 .. n /\ g = [k \in DOMAIN g |-> g[k]]
      OBVIOUS
    <3> HIDE DEF g
    <3>9. Step(g, n)
      BY <3>7, <3>8
    <3> QED BY <2>2, <3>9
  <2> QED BY <2>3, <2>4
<1>3. \E f : Step(f, MaxEvent)
  BY <1>1, <1>2
<1> DEFINE h == CHOOSE f : Step(f, MaxEvent)
<1>4. Step(h, MaxEvent)
  BY <1>3
<1>5. Replay = h
  BY DEF Replay, Handling
<1> HIDE DEF h
<1>6. \A k \in 0 .. MaxEvent : h[k] = IF k = 0 THEN s0 ELSE Handling(h[k - 1], k)
  BY <1>4
<1> QED BY <1>1, <1>5, <1>6

(* With no rename half reported, the oldest event may always be handled.   *)
LEMMA OldestDue ==
  ASSUME NEW v, NEW f, NEW L, NEW m, NEW R, NEW r, Sound(v, f, L, m, R), L \in SUBSET EventId,
         Halved(L, m, r), \A t \in Thread : r[t].cookie = 0,
         \A i \in L : m[i].act \in Renames => m[i].cookie # 0,
         NEW x \in L, \A i \in L : x <= i
  PROVE  Due(L, m, x)
<1>1. \A i \in L : i \in Nat
  BY Assumptions DEF EventId
<1>2. \A i \in L : ~ Mated(m, i, x)
  BY <1>1 DEF Sound, Halves, Closed
<1>3. m[x].act = "rename_from" => \E j \in L : Mated(m, x, j)
  BY DEF Halved, Renames
<1> QED BY <1>2, <1>3 DEF Due, Oldest

Left(k) == {i \in list \cup Batched : k < i}

Replayed(k) == Leads(Replay[k], Left(k), ev, Reported)

LEMMA ReplaySound ==
  ASSUME MonitorInv, Track, \A t \in Thread : rest[t] = Done
  PROVE  \A k \in 0 .. MaxEvent : Replayed(k)
<1> DEFINE bad == {k \in 0 .. MaxEvent : ~ Replayed(k)}
<1>0. /\ MaxEvent \in Nat /\ list \cup Batched \in SUBSET EventId /\ EventId = 1 .. MaxEvent
      /\ ev \in [EventId -> Event]
      /\ \A i \in list \cup Batched : ev[i].path \in Path
      /\ \A i \in list \cup Batched : ev[i].act \in Renames => ev[i].cookie # 0
      /\ view \in SUBSET Path /\ froms \in SUBSET (Nat \X Path)
  BY Assumptions DEF EventId, MonitorInv, IInv, Good, Typed, Cookies, Paths, Named
<1>1. Replayed(0)
  <2>1. Replay[0] = [view |-> view, froms |-> froms]
    BY ReplaySteps
  <2>2. Left(0) = list \cup Batched
    BY <1>0 DEF Left
  <2>3. Replay[0].view = view /\ Replay[0].froms = froms
    BY <2>1
  <2> QED BY <1>0, <2>1, <2>2, <2>3 DEF Replayed, Leads, Track
<1>2. ASSUME NEW k \in 1 .. MaxEvent, Replayed(k - 1) PROVE Replayed(k)
  <2>0. k \in Nat /\ k - 1 \in Nat /\ Replay[k] = Handling(Replay[k - 1], k)
    BY <1>0, ReplaySteps
  <2>1. CASE k \notin list \cup Batched
    <3>1. Left(k) = Left(k - 1)
      BY <2>0, <2>1, <1>0 DEF Left
    <3>2. Replay[k] = Replay[k - 1]
      BY <2>0, <2>1 DEF Handling
    <3> QED BY <3>1, <3>2, <1>2 DEF Replayed
  <2>2. CASE k \in list \cup Batched
    <3> DEFINE L == Left(k - 1)
               v == Replay[k - 1].view
               f == Replay[k - 1].froms
    <3>1. L \in SUBSET EventId /\ k \in L /\ (\A i \in L : k <= i) /\ Left(k) = L \ {k}
      BY <2>0, <2>2, <1>0 DEF Left
    <3>2. Sound(v, f, L, ev, Reported) /\ v \in SUBSET Path /\ f \in SUBSET (Nat \X Path)
          /\ Replay[k - 1] = [view |-> v, froms |-> f]
      BY <1>2 DEF Replayed, Leads
    <3>3. Halved(L, ev, rest)
      <4> SUFFICES ASSUME NEW i \in L, ev[i].act = "rename_from"
                   PROVE  (\E j \in L : Mated(ev, i, j)) \/ \E t \in Thread : rest[t].cookie = ev[i].cookie
        BY DEF Halved
      <4>1. i \in list \cup Batched /\ i \in Nat /\ k - 1 < i
        BY <1>0 DEF Left
      <4>2. ASSUME NEW j \in list \cup Batched, Mated(ev, i, j) PROVE j \in L
        <5>1. i < j
          BY <4>1, <4>2 DEF Track, Sound, Halves, Closed
        <5>2. j \in Nat
          BY <1>0
        <5> QED BY <4>1, <5>1, <5>2, <2>0 DEF Left
      <4> QED BY <4>1, <4>2 DEF Track, Fronts, Halved
    <3>4. \A t \in Thread : rest[t].cookie = 0
      BY DoneEvent
    <3>5. \A i \in L : i \in list \cup Batched
      BY DEF Left
    <3> HIDE DEF L, v, f
    <3>6. Due(L, ev, k)
      BY <1>0, <3>1, <3>2, <3>3, <3>4, <3>5, OldestDue
    <3>7. Handled(v, f, L, ev, Reported, k)
      BY <1>0, <3>1, <3>2, <3>5, <3>6 DEF Handled
    <3>8. Replay[k] = HandleMsg([view |-> v, froms |-> f], ev[k])
      BY <2>0, <2>2, <3>2 DEF Handling
    <3>9. ev[k] \in Event
      BY <1>0, <2>2
    <3>10. Leads(HandleMsg([view |-> v, froms |-> f], ev[k]), L \ {k}, ev, Reported)
      BY <3>7, <3>9, HandleSound
    <3> QED BY <3>1, <3>8, <3>10 DEF Replayed
  <2> QED BY <2>1, <2>2
<1>3. bad = {}
  <2>1. SUFFICES ASSUME bad # {} PROVE FALSE
    OBVIOUS
  <2>2. PICK n \in bad : \A k \in bad : n <= k
    <3>1. bad \subseteq Nat
      OBVIOUS
    <3> HIDE DEF bad
    <3> QED BY <2>1, <3>1, SmallestOf
  <2>3. n \in 1 .. MaxEvent /\ n - 1 \in 0 .. MaxEvent
    BY <1>0, <1>1, <2>2
  <2>4. ~ (n <= n - 1)
    BY <2>3
  <2>5. n - 1 \notin bad
    <3> HIDE DEF bad
    <3> QED BY <2>2, <2>4
  <2> QED BY <1>2, <2>2, <2>3, <2>5
<1> QED BY <1>3

(* Nothing is on its way: the listener has the files reported.             *)
LEMMA NothingLeft ==
  ASSUME NEW v \in SUBSET Path, NEW f, NEW m, NEW R \in SUBSET Path, Sound(v, f, {}, m, R)
  PROVE  f = {} /\ R \subseteq v /\ (Exact => v = R)
<1>1. f = {}
  BY DEF Sound, Sources
<1>2. \A p \in Path : p \in R => p \in Settled(v, f)
  BY DEF Sound, Worth, Floor
<1>3. Exact => \A p \in Path : p \in Settled(v, f) <=> p \in R
  BY DEF Sound, Worth, Line
<1> QED BY <1>1, <1>2, <1>3 DEF Settled

LEMMA TrackNetEffect == Exact /\ MonitorInv /\ Track => NetEffect
<1> SUFFICES ASSUME Exact, MonitorInv, Track, \A t \in Thread : rest[t] = Done
             PROVE  Replay[MaxEvent] = [view |-> fs, froms |-> {}]
  BY DEF NetEffect
<1>1. Replayed(MaxEvent)
  BY ReplaySound, Assumptions
<1>2. Left(MaxEvent) = {}
  <2>1. list \cup Batched \subseteq 1 .. MaxEvent /\ MaxEvent \in Nat
    BY Assumptions DEF MonitorInv, IInv, Good, Typed, EventId
  <2> QED BY <2>1 DEF Left
<1>3. Reported = fs /\ fs \in SUBSET Path
  BY DoneEvent DEF Reported, MonitorInv
<1> DEFINE s == Replay[MaxEvent]
<1>4. Leads(s, {}, ev, fs)
  BY <1>1, <1>2, <1>3 DEF Replayed
<1> HIDE DEF s
<1>5. /\ s.view \in SUBSET Path /\ Sound(s.view, s.froms, {}, ev, fs)
      /\ s = [view |-> s.view, froms |-> s.froms]
  BY <1>4 DEF Leads
<1>6. s.froms = {} /\ s.view = fs
  BY <1>3, <1>5, NothingLeft
<1> QED BY <1>5, <1>6 DEF s

LEMMA TrackQuiet ==
  ASSUME MonitorInv, Track, Quiet
  PROVE  fs \subseteq view /\ (Exact => view = fs)
<1>1. Reported = fs /\ fs \in SUBSET Path /\ view \in SUBSET Path
  BY DoneEvent DEF Quiet, Reported, MonitorInv
<1>2. Sound(view, froms, {}, ev, Reported)
  BY DEF Quiet, Track
<1> QED BY <1>1, <1>2, NothingLeft

-----------------------------------------------------------------------------
(* Sending                                                                 *)

LEMMA FrontsSend ==
  ASSUME NEW l \in SUBSET EventId, NEW o, NEW f, NEW m, NEW r, NEW x \in o, NEW m2, NEW f2,
         Fronts(l, o, f, m, r, l \cup o), l \cap o = {}, Pairs(l, m), Due(l \cup o, m, x),
         \A i \in (l \cup o) \ {x} : m2[i] = m[i],
         \A y \in f2 : y \in f \/ (m[x].act = "rename_from" /\ y[1] = m[x].cookie)
  PROVE  Fronts(l, o \ {x}, f2, m2, r, l \cup (o \ {x}))
<1> DEFINE K == l \cup (o \ {x})
<1>1. /\ K \subseteq l \cup o /\ x \notin K /\ \A i \in K : m2[i] = m[i]
      /\ \A i \in l : i \in K
  OBVIOUS
<1>2. Behind(l, o \ {x}, m2)
  BY <1>1 DEF Fronts, Behind
<1>3. Unspent(l, m2, K)
  BY <1>1 DEF Fronts, Unspent, Creates
<1>4. Foremost(l, m2)
  BY <1>1 DEF Fronts, Foremost, Oldest
<1>5. Coupled(l, m2)
  BY <1>1 DEF Fronts, Coupled, Pairs
<1>6. Halved(K, m2, r)
  <2> SUFFICES ASSUME NEW i \in K, m2[i].act = "rename_from"
               PROVE  (\E j \in K : Mated(m2, i, j)) \/ \E t \in Thread : r[t].cookie = m2[i].cookie
    BY DEF Halved
  <2>1. i \in l \cup o /\ m2[i] = m[i]
    BY <1>1
  <2>2. CASE \E t \in Thread : r[t].cookie = m[i].cookie
    BY <2>1, <2>2
  <2>3. CASE \E j \in l \cup o : Mated(m, i, j)
    <3>1. PICK j \in l \cup o : Mated(m, i, j)
      BY <2>3
    <3>2. j # x
      BY <2>1, <3>1 DEF Due, Mated
    <3>3. j \in K /\ m2[j] = m[j]
      BY <3>2, <1>1
    <3> QED BY <2>1, <3>1, <3>3 DEF Mated
  <2> QED BY <2>1, <2>2, <2>3 DEF Fronts, Halved
<1>7. Waits(l, K, f2, m2, r)
  <2> SUFFICES ASSUME NEW t \in Thread, r[t].cookie # 0
               PROVE  /\ \A y \in f2 : y[1] # r[t].cookie
                      /\ \A i \in K : m2[i].cookie = r[t].cookie =>
                            /\ i \in l /\ m2[i].path # r[t].path /\ Newest(K, m2, i)
                            /\ \A k \in K : m2[k].path = r[t].path => k < i
    BY DEF Waits
  <2>1. \A y \in f : y[1] # r[t].cookie
    BY DEF Fronts, Waits
  <2>2. m[x].cookie # r[t].cookie
    BY DEF Fronts, Waits
  <2>3. \A y \in f2 : y[1] # r[t].cookie
    BY <2>1, <2>2
  <2>4. ASSUME NEW i \in K, m2[i].cookie = r[t].cookie
        PROVE  /\ i \in l /\ m2[i].path # r[t].path /\ Newest(K, m2, i)
               /\ \A k \in K : m2[k].path = r[t].path => k < i
    <3>1. i \in l \cup o /\ m[i].cookie = r[t].cookie
      BY <2>4, <1>1
    <3>2. /\ i \in l /\ m[i].path # r[t].path /\ Newest(l \cup o, m, i)
          /\ \A k \in l \cup o : m[k].path = r[t].path => k < i
      BY <3>1 DEF Fronts, Waits
    <3> QED BY <3>2, <1>1 DEF Newest
  <2> QED BY <2>3, <2>4
<1> QED BY <1>2, <1>3, <1>4, <1>5, <1>6, <1>7 DEF Fronts

LEMMA HandleFroms ==
  ASSUME NEW v, NEW f, NEW e, NEW y \in HandleMsg([view |-> v, froms |-> f], e).froms
  PROVE  y \in f \/ (e.act = "rename_from" /\ y = <<e.cookie, e.path>>)
<1> DEFINE s0 == [view |-> v, froms |-> f]
           src == {z[2] : z \in {w \in s0.froms : w[1] = e.cookie}}
           s == HandleMsg(s0, e)
<1>1. s0.view = v /\ s0.froms = f
  OBVIOUS
<1>2. s = CASE e.act = "new"         -> [s0 EXCEPT !.view = @ \cup {e.path}]
            [] e.act = "delete"      -> [s0 EXCEPT !.view = @ \ {e.path}]
            [] e.act = "rename_from" -> [s0 EXCEPT !.froms = @ \cup {<<e.cookie, e.path>>}]
            [] e.act = "rename_to"   ->
                 [view |-> IF src # {} /\ src \subseteq s0.view
                           THEN (s0.view \ src) \cup {e.path} ELSE s0.view,
                  froms |-> s0.froms \ ({e.cookie} \X src)]
            [] OTHER -> s0
  BY DEF HandleMsg
<1> HIDE DEF src, s
<1>3. \A z \in s.froms : z \in f \/ (e.act = "rename_from" /\ z = <<e.cookie, e.path>>)
  BY <1>1, <1>2
<1> QED BY <1>3 DEF s

(* The oldest event of the only array may be handled.                      *)
LEMMA SenderDue ==
  ASSUME MonitorInv, Track, NEW c \in Context, \A d \in Context : d # c => batch[d] = {},
         NEW x \in batch[c], \A i \in batch[c] : x <= i
  PROVE  Due(list \cup Batched, ev, x)
<1>0. /\ batch[c] = Batched /\ x \in Batched
      /\ list \cup Batched \subseteq EventId /\ list \cap Batched = {}
      /\ FromFirst(list, ev, Batched)
      /\ \A i \in list \cup Batched : ev[i].act \in Renames => ev[i].cookie # 0
  BY DEF Batched, MonitorInv, IInv, Good, Typed, Owned, Cookies
<1>1. \A i \in list \cup Batched : i \in Nat
  BY <1>0, Assumptions DEF EventId
<1>2. \A i \in list : i < x => ev[i].path # ev[x].path /\ ev[i].act \in {"delete", "rename_from"}
  BY <1>0 DEF Track, Fronts, Behind
<1>3. Oldest(list \cup Batched, ev, x)
  BY <1>0, <1>1, <1>2 DEF Oldest
<1>4. \A j \in list \cup Batched : ev[j].act = "rename_to" => x <= j
  BY <1>0, <1>1, <1>2
<1>5. ev[x].act = "rename_to" => \A i \in list \cup Batched : ~ Mated(ev, i, x)
  <2> SUFFICES ASSUME NEW i \in list \cup Batched, Mated(ev, i, x) PROVE FALSE
    OBVIOUS
  <2>1. i < x
    BY <1>0 DEF Track, Sound, Halves, Closed
  <2>2. i \in list
    BY <1>0, <1>1, <2>1
  <2> QED BY <1>0, <2>2 DEF FromFirst, Mated
<1>6. ev[x].act = "rename_from" => \E j \in list \cup Batched : Mated(ev, x, j)
  BY <1>0 DEF Track, Fronts, Halved, Waits, Renames
<1> QED BY <1>3, <1>4, <1>5, <1>6 DEF Due

LEMMA DeliverTrack ==
  ASSUME MonitorInv, Track, OneSender, NEW c \in Context, Deliver(c)
  PROVE  Track'
<1> DEFINE x == Min(batch[c])
           L == list \cup Batched
           s == HandleMsg([view |-> view, froms |-> froms], ev[x])
<1>1. /\ batch[c] # {} /\ batch' = [batch EXCEPT ![c] = @ \ {x}] /\ ev' = Freed(ev, {x})
      /\ UNCHANGED <<list, quit, rest, fs, held>> /\ view' = s.view /\ froms' = s.froms
  BY DEF Deliver, Send
<1>2. /\ batch \in [Context -> SUBSET EventId] /\ ev \in [EventId -> Event]
      /\ \A d, e \in Context : d # e => batch[d] \cap batch[e] = {}
      /\ list \cap Batched = {} /\ list \in SUBSET EventId /\ L \in SUBSET EventId
      /\ Pairs(list, ev) /\ \A i \in L : ev[i].path \in Path
      /\ froms \in SUBSET (Nat \X Path) /\ view \in SUBSET Path
  BY DEF MonitorInv, Paths, Named, IInv, Good, Typed, Owned, Arrays, Batched
<1>3. x \in batch[c] /\ \A i \in batch[c] : x <= i
  BY <1>1, <1>2, MinExists
<1> HIDE DEF x
<1>4. x \in Batched /\ x \in EventId /\ Batched' = Batched \ {x}
  BY <1>1, <1>2, <1>3 DEF Batched
<1>5. Due(L, ev, x)
  BY <1>1, <1>3, SenderDue DEF OneSender
<1>6. /\ \A i \in EventId \ {x} : ev'[i] = ev[i]
      /\ list' \cup Batched' = L \ {x} /\ Reported' = Reported
  BY <1>1, <1>2, <1>4 DEF Freed, Reported
<1>7. Sound(view', froms', L \ {x}, ev', Reported)
  <2>1. Handled(view, froms, L, ev, Reported, x)
    BY <1>2, <1>4, <1>5 DEF Handled, Track
  <2>2. Leads(s, L \ {x}, ev, Reported)
    BY <2>1, <1>2, <1>4, HandleSound
  <2>3. Sound(view', froms', L \ {x}, ev, Reported)
    BY <2>2, <1>1 DEF Leads
  <2>4. \A i \in L \ {x} : ev'[i] = ev[i]
    BY <1>2, <1>6
  <2> HIDE DEF L
  <2> QED BY <2>3, <2>4, SoundSame
<1>8. Fronts(list', Batched', froms', ev', rest', list' \cup Batched')
  <2>1. \A y \in froms' : y \in froms \/ (ev[x].act = "rename_from" /\ y[1] = ev[x].cookie)
    BY <1>1, HandleFroms
  <2>2. Fronts(list, Batched, froms, ev, rest, list \cup Batched)
    BY DEF Track
  <2>3. \A i \in (list \cup Batched) \ {x} : ev'[i] = ev[i]
    BY <1>2, <1>6
  <2>4. Fronts(list, Batched \ {x}, froms', ev', rest, list \cup (Batched \ {x}))
    BY <2>1, <2>2, <2>3, <1>2, <1>4, <1>5, FrontsSend
  <2> QED BY <2>4, <1>1, <1>4
<1>9. Locks'
  BY <1>1, <1>2, <1>6 DEF Locks, Track
<1> QED BY <1>6, <1>7, <1>8, <1>9 DEF Track

-----------------------------------------------------------------------------
(* An event arrives.                                                       *)

(* The event x arrives in the memory m2, and r2 is still to be submitted:  *)
(* a rename_from takes a new cookie, a rename_to finds its rename_from,    *)
(* and nobody else waits for anything on its path.                         *)
Enters(l, o, f, m, r, x, m2, r2) ==
  /\ \A i \in l \cup o :
        /\ i < x /\ m2[i].act = m[i].act /\ m2[i].path = m[i].path /\ m2[i].cookie = m[i].cookie
        /\ m2[i].pair = m[i].pair \/ m[i].act = "rename_from"
  /\ m2[x].act \in {"new", "delete", "rename_from", "rename_to"}
  /\ m2[x].act = "rename_from" =>
        /\ \A i \in l \cup o : m[i].cookie # m2[x].cookie
        /\ \A y \in f : y[1] # m2[x].cookie
        /\ \E t \in Thread : r2[t].cookie = m2[x].cookie
  /\ m2[x].act = "rename_to" =>
        /\ m2[x].pair \in l /\ m2[m2[x].pair].cookie = m2[x].cookie
        /\ m[m2[x].pair].act = "rename_from"
        /\ \E t \in Thread : /\ r[t].cookie = m2[x].cookie /\ r[t].cookie # 0
                             /\ m2[x].path = r[t].path
  /\ \A t \in Thread : r2[t].cookie # 0 =>
        \/ /\ m2[x].cookie # r2[t].cookie /\ r2[t] = r[t] /\ m2[x].path # r[t].path
           /\ \A i \in l \cup o : m[i].cookie = r[t].cookie => m[i].path # m2[x].path
        \/ /\ m2[x].act = "rename_from" /\ m2[x].cookie = r2[t].cookie
           /\ m2[x].path # r2[t].path
  /\ \A t \in Thread : r[t].cookie # 0 =>
        \/ r2[t].cookie = r[t].cookie
        \/ m2[x].act = "rename_to" /\ m2[x].cookie = r[t].cookie
        \/ \A i \in l \cup o : m[i].cookie # r[t].cookie

LEMMA EntersFronts ==
  ASSUME NEW l \in SUBSET EventId, NEW o \in SUBSET EventId, NEW f, NEW m, NEW r,
         NEW x \in EventId, NEW m2, NEW r2, Enters(l, o, f, m, r, x, m2, r2),
         Fronts(l, o, f, m, r, l \cup o), Pairs(l, m),
         \A i \in l \cup o : m[i].act \in Renames => m[i].cookie # 0
  PROVE  Fronts(l \cup {x}, o, f, m2, r2, l \cup o)
<1> DEFINE L == l \cup o
           l2 == l \cup {x}
           L2 == l2 \cup o
<1>0. /\ \A i \in L : /\ i < x /\ i \in Nat
                      /\ m2[i].act = m[i].act /\ m2[i].path = m[i].path /\ m2[i].cookie = m[i].cookie
                      /\ m2[i].pair = m[i].pair \/ m[i].act = "rename_from"
      /\ \A i \in l2 : i \in l \/ i = x
      /\ \A i \in L2 : i \in L \/ i = x
      /\ x \in Nat /\ l \subseteq L /\ o \subseteq L /\ l \subseteq l2 /\ L \subseteq L2
      /\ ~ (x < x)
  BY Assumptions DEF Enters, EventId
<1>1. Behind(l2, o, m2)
  <2> SUFFICES ASSUME NEW i \in l2, NEW j \in o, i < j
               PROVE  m2[i].path # m2[j].path /\ m2[i].act \in {"delete", "rename_from"}
    BY DEF Behind
  <2>1. i \in l /\ i \in L /\ j \in L
    BY <1>0
  <2>2. m[i].path # m[j].path /\ m[i].act \in {"delete", "rename_from"}
    BY <2>1 DEF Fronts, Behind
  <2> HIDE DEF L
  <2> QED BY <2>1, <2>2, <1>0
<1>2. Unspent(l2, m2, L)
  <2> SUFFICES ASSUME NEW h \in l2, NEW n \in L, Open(m2[h]), m2[n].path = m2[h].path, h < n
               PROVE  Creates(m2[n])
    BY DEF Unspent
  <2>1. h \in l /\ n \in Nat /\ x \in Nat /\ n < x
    <3>1. n \in Nat /\ x \in Nat /\ n < x
      BY <1>0
    <3>2. h # x
      BY <3>1
    <3> QED BY <3>1, <3>2, <1>0
  <2>2. Open(m[h]) /\ m[n].path = m[h].path
    BY <2>1, <1>0 DEF Open
  <2>3. Creates(m[n])
    BY <2>1, <2>2 DEF Fronts, Unspent
  <2> QED BY <2>3, <1>0 DEF Creates
<1>3. Foremost(l2, m2)
  <2> SUFFICES ASSUME NEW j \in l2, m2[j].act = "rename_to", m2[j].pair = Null
               PROVE  Oldest(l2, m2, j)
    BY DEF Foremost
  <2>1. j # x
    BY Assumptions DEF Enters, EventId, Null
  <2>2. j \in l /\ m[j].act = "rename_to" /\ m[j].pair = Null
    BY <2>1, <1>0
  <2>3. Oldest(l, m, j)
    BY <2>2 DEF Fronts, Foremost
  <2> QED BY <2>2, <2>3, <1>0 DEF Oldest
<1>4. Coupled(l2, m2)
  <2> SUFFICES ASSUME NEW j \in l2, m2[j].act = "rename_to", m2[j].pair # Null
               PROVE  m2[m2[j].pair].cookie = m2[j].cookie
    BY DEF Coupled
  <2>1. CASE j = x
    BY <2>1 DEF Enters
  <2>2. CASE j \in l
    <3>1. m[j].act = "rename_to" /\ m[j].pair = m2[j].pair
      BY <2>2, <1>0
    <3>2. m[j].pair \in l /\ m[m[j].pair].cookie = m[j].cookie
      BY <3>1, <2>2 DEF Fronts, Coupled, Pairs
    <3> QED BY <3>1, <3>2, <2>2, <1>0
  <2> QED BY <2>1, <2>2
<1>5. Halved(L2, m2, r2)
  <2> SUFFICES ASSUME NEW i \in L2, m2[i].act = "rename_from"
               PROVE  (\E j \in L2 : Mated(m2, i, j)) \/ \E t \in Thread : r2[t].cookie = m2[i].cookie
    BY DEF Halved
  <2>1. CASE i = x
    BY <2>1 DEF Enters
  <2>2. CASE i \in L /\ \E j \in L : Mated(m, i, j)
    BY <2>2, <1>0 DEF Mated
  <2>3. ASSUME i \in L, NEW t \in Thread, r[t].cookie = m[i].cookie
        PROVE  (\E j \in L2 : Mated(m2, i, j)) \/ \E u \in Thread : r2[u].cookie = m2[i].cookie
    <3>0. m2[i].cookie = m[i].cookie
      BY <2>3, <1>0
    <3>1. CASE r[t].cookie = 0
      <4>1. m[i].act = "rename_from"
        BY <2>3, <1>0
      <4> QED BY <4>1, <3>1, <2>3 DEF Renames
    <3>2. CASE r[t].cookie # 0
      <4>1. r2[t].cookie = r[t].cookie \/ (m2[x].act = "rename_to" /\ m2[x].cookie = r[t].cookie)
        BY <3>2, <2>3 DEF Enters
      <4>2. x \in L2
        OBVIOUS
      <4> QED BY <4>1, <4>2, <3>0, <2>3 DEF Mated
    <3> QED BY <3>1, <3>2
  <2>4. i \in L => (\E j \in L : Mated(m, i, j)) \/ \E t \in Thread : r[t].cookie = m[i].cookie
    BY <1>0 DEF Fronts, Halved
  <2> QED BY <2>1, <2>2, <2>3, <2>4, <1>0
<1>6. Waits(l2, L2, f, m2, r2)
  <2> SUFFICES ASSUME NEW t \in Thread, r2[t].cookie # 0
               PROVE  /\ \A y \in f : y[1] # r2[t].cookie
                      /\ \A i \in L2 : m2[i].cookie = r2[t].cookie =>
                            /\ i \in l2 /\ m2[i].path # r2[t].path /\ Newest(L2, m2, i)
                            /\ \A k \in L2 : m2[k].path = r2[t].path => k < i
    BY DEF Waits
  <2>1. CASE /\ m2[x].cookie # r2[t].cookie /\ r2[t] = r[t] /\ m2[x].path # r[t].path
             /\ \A i \in l \cup o : m[i].cookie = r[t].cookie => m[i].path # m2[x].path
    <3>1. \A y \in f : y[1] # r2[t].cookie
      BY <2>1 DEF Fronts, Waits
    <3>2. ASSUME NEW i \in L2, m2[i].cookie = r2[t].cookie
          PROVE  /\ i \in l2 /\ m2[i].path # r2[t].path /\ Newest(L2, m2, i)
                 /\ \A k \in L2 : m2[k].path = r2[t].path => k < i
      <4>1. i \in L /\ m[i].cookie = r[t].cookie
        BY <2>1, <3>2, <1>0
      <4>2. /\ i \in l /\ m[i].path # r[t].path /\ Newest(L, m, i)
            /\ \A k \in L : m[k].path = r[t].path => k < i
        BY <4>1, <2>1 DEF Fronts, Waits
      <4>3. m2[i].path # m2[x].path /\ m2[i].path = m[i].path
        BY <4>1, <2>1, <1>0
      <4> HIDE DEF L, L2, l2
      <4> QED BY <4>1, <4>2, <4>3, <2>1, <1>0 DEF Newest
    <3> QED BY <3>1, <3>2
  <2>2. CASE /\ m2[x].act = "rename_from" /\ m2[x].cookie = r2[t].cookie
             /\ m2[x].path # r2[t].path
    <3>1. \A y \in f : y[1] # r2[t].cookie
      BY <2>2 DEF Enters
    <3>2. ASSUME NEW i \in L2, m2[i].cookie = r2[t].cookie
          PROVE  i = x
      <4>1. \A j \in L : m[j].cookie # m2[x].cookie
        BY <2>2 DEF Enters
      <4> QED BY <4>1, <3>2, <2>2, <1>0
    <3>3. Newest(L2, m2, x) /\ \A k \in L2 : m2[k].path = r2[t].path => k < x
      BY <2>2, <1>0 DEF Newest
    <3> HIDE DEF L2
    <3> QED BY <3>1, <3>2, <3>3, <2>2
  <2> QED BY <2>1, <2>2 DEF Enters
<1> QED BY <1>1, <1>2, <1>3, <1>4, <1>5, <1>6 DEF Fronts

LEMMA EntersSound ==
  ASSUME NEW l \in SUBSET EventId, NEW o \in SUBSET EventId, NEW v, NEW f, NEW m, NEW r, NEW k0, NEW R,
         NEW x \in EventId, NEW m2, NEW r2, Enters(l, o, f, m, r, x, m2, r2),
         Sound(v, f, l \cup o, m, R), Fronts(l, o, f, m, r, l \cup o), Pending(l, m, o, r, k0),
         \A i \in l \cup o : m[i].path \in Path, m2[x].path \in Path, NEW R2,
         Turns(m2[x], R, R2)
  PROVE  Sound(v, f, (l \cup o) \cup {x}, m2, R2)
<1> DEFINE L == l \cup o
           L2 == L \cup {x}
<1>0. /\ \A i \in L : /\ i < x /\ i \in Nat
                      /\ m2[i].act = m[i].act /\ m2[i].path = m[i].path /\ m2[i].cookie = m[i].cookie
      /\ \A i \in L2 : i \in L \/ i = x
      /\ x \in Nat /\ L \subseteq L2 /\ x \in L2 /\ L \in SUBSET EventId
      /\ ~ (x < x)
  BY Assumptions DEF Enters, EventId
<1>1. Worth(Settled(v, f), L2, m2, R2)
  <2>1. Worth(Settled(v, f), L, m2, R)
    <3>1. Worth(Settled(v, f), L, m, R)
      BY DEF Sound
    <3> HIDE DEF L
    <3> QED BY <3>1, <1>0, WorthSame DEF Creates
  <2>2. \A i \in L : m2[i].path \in Path
    BY <1>0
  <2> HIDE DEF L
  <2> QED BY <1>0, <2>1, <2>2, WorthAppend
<1>2. Sources(v, f, L2, m2)
  <2> SUFFICES ASSUME NEW y \in f
               PROVE  /\ y[2] \in v
                      /\ \E j \in L2 : /\ m2[j].act = "rename_to" /\ m2[j].cookie = y[1] /\ m2[j].path # y[2]
                                       /\ \A k \in L2 : m2[k].path = y[2] => j < k
                      /\ \A z \in f : y[1] = z[1] \/ y[2] = z[2] => y = z
                      /\ \A i \in L2 : m2[i].act = "rename_from" => m2[i].cookie # y[1]
    BY DEF Sources
  <2>1. y[2] \in v /\ \A z \in f : y[1] = z[1] \/ y[2] = z[2] => y = z
    BY DEF Sound, Sources
  <2>2. PICK j \in L : /\ m[j].act = "rename_to" /\ m[j].cookie = y[1] /\ m[j].path # y[2]
                       /\ \A k \in L : m[k].path = y[2] => j < k
    BY DEF Sound, Sources
  <2>3. /\ m2[j].act = "rename_to" /\ m2[j].cookie = y[1] /\ m2[j].path # y[2]
        /\ \A k \in L2 : m2[k].path = y[2] => j < k
    BY <1>0, <2>2
  <2>4. \A i \in L : m[i].act = "rename_from" => m[i].cookie # y[1]
    BY DEF Sound, Sources
  <2>5. m2[x].act = "rename_from" => m2[x].cookie # y[1]
    BY DEF Enters
  <2>6. \A i \in L2 : m2[i].act = "rename_from" => m2[i].cookie # y[1]
    BY <1>0, <2>4, <2>5
  <2> QED BY <1>0, <2>1, <2>2, <2>3, <2>6
(* The rename_to that x may be, and the rename_from it pairs with.         *)
<1>3. ASSUME m2[x].act = "rename_to"
      PROVE  /\ \A i \in L : m2[i].cookie = m2[x].cookie => m2[i].act = "rename_from"
             /\ \A i \in L : m2[i].cookie = m2[x].cookie => Closed(L2, m2, i, x)
             /\ \E i \in L : Mated(m2, i, x)
  <2>1. PICK t \in Thread : r[t].cookie = m2[x].cookie /\ r[t].cookie # 0 /\ m2[x].path = r[t].path
    BY <1>3 DEF Enters
  <2>2. \A i \in L : m2[i].cookie = m2[x].cookie => m2[i].act = "rename_from"
    BY <2>1, <1>0 DEF Pending
  <2>3. ASSUME NEW i \in L, m2[i].cookie = m2[x].cookie PROVE Closed(L2, m2, i, x)
    <3>1. m[i].cookie = r[t].cookie /\ i < x /\ m2[i].path = m[i].path
      BY <2>1, <2>3, <1>0
    <3>2. /\ m[i].path # r[t].path /\ Newest(L, m, i)
          /\ \A k \in L : m[k].path = r[t].path => k < i
      BY <2>1, <3>1 DEF Fronts, Waits
    <3>3. \A k \in L : m2[k].path = m2[i].path => k <= i
      BY <3>1, <3>2, <1>0 DEF Newest
    <3>4. \A k \in L : m2[k].path = m2[x].path => k < i
      BY <3>2, <2>1, <1>0
    <3>5. m2[i].path # m2[x].path
      BY <3>1, <3>2, <2>1
    <3> HIDE DEF L, L2
    <3>6. \A k \in L2 : m2[k].path = m2[i].path /\ i < k => x < k
      BY <1>0, <3>3, <3>5
    <3> QED BY <1>0, <3>1, <3>4, <3>5, <3>6 DEF Closed
  <2>4. \E i \in L : Mated(m2, i, x)
    <3>1. m2[x].pair \in L /\ m2[m2[x].pair].cookie = m2[x].cookie /\ m[m2[x].pair].act = "rename_from"
      BY <1>3 DEF Enters
    <3> QED BY <3>1, <1>3, <1>0 DEF Mated
  <2> QED BY <2>2, <2>3, <2>4
<1>4. m2[x].act = "rename_from" => \A i \in L : m2[i].cookie # m2[x].cookie
  BY <1>0 DEF Enters
<1>5. Halves(f, L2, m2)
  <2>1. ASSUME NEW j \in L2, m2[j].act = "rename_to"
        PROVE  (\E y \in f : y[1] = m2[j].cookie) \/ \E i \in L2 : Mated(m2, i, j)
    <3>1. CASE j = x
      BY <3>1, <2>1, <1>3
    <3>2. CASE j \in L
      <4>1. (\E y \in f : y[1] = m[j].cookie) \/ \E i \in L : Mated(m, i, j)
        BY <3>2, <2>1, <1>0 DEF Sound, Halves
      <4> HIDE DEF L, L2
      <4> QED BY <4>1, <3>2, <1>0 DEF Mated
    <3> QED BY <3>1, <3>2
  <2>2. ASSUME NEW i \in L2, NEW j \in L2, Mated(m2, i, j) PROVE Closed(L2, m2, i, j)
    <3>1. CASE j = x
      <4>1. i # x
        BY <3>1, <2>2 DEF Mated
      <4> QED BY <4>1, <3>1, <2>2, <1>3 DEF Mated
    <3>2. CASE i = x
      <4>1. j # x
        BY <3>2, <2>2 DEF Mated
      <4> QED BY <4>1, <3>2, <2>2, <1>4 DEF Mated
    <3>3. CASE i \in L /\ j \in L
      <4>1. Mated(m, i, j)
        BY <3>3, <2>2, <1>0 DEF Mated
      <4>2. Closed(L, m, i, j)
        BY <4>1, <3>3 DEF Sound, Halves
      <4>3. \A k \in L2 : m2[k].path = m2[i].path /\ i < k => j < k
        BY <4>2, <3>3, <1>0 DEF Closed
      <4>4. \A k \in L2 : m2[k].path = m2[j].path /\ k < j => k < i
        <5>1. ~ (x < j)
          BY <3>3, <1>0
        <5> QED BY <5>1, <4>2, <3>3, <1>0 DEF Closed
      <4> QED BY <4>2, <4>3, <4>4, <3>3, <1>0 DEF Closed
    <3> QED BY <3>1, <3>2, <3>3
  <2>3. ASSUME NEW i \in L2, NEW j \in L2, m2[i].act \in Renames, m2[j].act = m2[i].act,
               m2[i].cookie = m2[j].cookie
        PROVE  i = j
    <3>1. CASE i \in L /\ j \in L
      BY <3>1, <2>3, <1>0 DEF Sound, Halves
    <3>2. m2[x].act \in Renames => \A n \in L : ~ (m2[n].act = m2[x].act /\ m2[n].cookie = m2[x].cookie)
      BY <1>3, <1>4 DEF Renames
    <3> HIDE DEF L, L2
    <3> QED BY <3>1, <3>2, <2>3, <1>0
  <2> QED BY <2>1, <2>2, <2>3 DEF Halves
<1>6. Kinds(L2, m2)
  BY <1>0 DEF Sound, Kinds, Enters
<1> QED BY <1>1, <1>2, <1>5, <1>6 DEF Sound

-----------------------------------------------------------------------------
(* What an event that arrives merges with.                                 *)

(* The event x is the newest of all, and joins the list.                   *)
Joins(l, o, m, x) ==
  /\ l \in SUBSET EventId /\ o \in SUBSET EventId /\ l \cap o = {} /\ x \in EventId
  /\ \A i \in l \cup o : i < x

(* An event that merges with nothing in the list.                          *)
LEMMA NoHit ==
  ASSUME NEW l, NEW o, NEW f, NEW m, NEW r, NEW x, Joins(l, o, m, x),
         Kinds((l \cup o) \cup {x}, m),
         Fronts(l \cup {x}, o, f, m, r, l \cup o),
         \A i \in l : ~ Merges(m[i], m[x])
  PROVE  Fronts(l \cup {x}, o, f, m, r, (l \cup o) \cup {x})
<1> DEFINE L == l \cup o
           L2 == L \cup {x}
<1>0. /\ \A i \in L : i < x /\ i \in Nat
      /\ \A i \in L2 : i \in L \/ i = x
      /\ x \in Nat /\ l \subseteq L /\ L \subseteq L2 /\ x \in L2 /\ ~ (x < x)
  BY Assumptions DEF Joins, EventId
<1>1. Unspent(l \cup {x}, m, L2)
  <2> SUFFICES ASSUME NEW h \in l \cup {x}, NEW n \in L2, Open(m[h]), m[n].path = m[h].path, h < n
               PROVE  Creates(m[n])
    BY DEF Unspent
  <2>1. CASE n \in L
    BY <2>1 DEF Fronts, Unspent
  <2>2. CASE n = x
    <3>1. h \in l
      BY <2>2, <1>0
    <3>2. m[x].act \notin {"delete", "rename_from"}
      BY <3>1, <2>2 DEF Open, Merges
    <3> QED BY <3>2, <2>2, <1>0 DEF Kinds, Creates
  <2> QED BY <2>1, <2>2
<1>2. (l \cup {x}) \cup o = L2
  OBVIOUS
<1> QED BY <1>1, <1>2 DEF Fronts

(* x undoes the last event of the list that it merges with.                *)
LEMMA HitUndone ==
  ASSUME NEW s, NEW l, NEW o, NEW f, NEW m, NEW r, NEW R, NEW x, Joins(l, o, m, x),
         Floor(s, (l \cup o) \cup {x}, m, R), Kinds((l \cup o) \cup {x}, m),
         Fronts(l \cup {x}, o, f, m, r, l \cup o),
         NEW h \in l, Merges(m[h], m[x]), \A i \in l : Merges(m[i], m[x]) => i <= h
  PROVE  Undoes((l \cup o) \cup {x}, m, h, x)
<1> DEFINE L == l \cup o
           L2 == L \cup {x}
<1>0. /\ \A i \in L : i < x /\ i \in Nat
      /\ \A i \in L2 : i \in L \/ i = x
      /\ x \in Nat /\ l \subseteq L /\ L \subseteq L2 /\ x \in L2 /\ ~ (x < x)
      /\ m[h].path = m[x].path /\ h < x /\ L \in SUBSET EventId /\ h \in L
  BY Assumptions DEF Joins, EventId, Merges
<1>1. Creates(m[h]) <=> ~ Creates(m[x])
  BY DEF Merges, Creates
<1>2. ASSUME ~ Open(m[h]), NEW k \in L, m[k].path = m[h].path, h < k PROVE k \in l
  <2>1. m[h].act \in {"delete", "rename_from"}
    BY <1>2 DEF Merges, Open
  <2>2. k \notin o
    BY <2>1, <1>2, <1>0 DEF Fronts, Behind
  <2> QED BY <2>2, <1>2
<1>3. ASSUME NEW k \in L, m[k].path = m[h].path, h < k, ~ Creates(m[k]) PROVE FALSE
  <2>1. ~ Open(m[h])
    BY <1>3 DEF Fronts, Unspent
  <2>2. k \in l /\ m[k].act \in {"delete", "rename_from"} /\ h \in Nat /\ k \in Nat
    BY <2>1, <1>0, <1>2, <1>3 DEF Kinds, Creates
  <2>3. ~ Merges(m[k], m[x])
    BY <2>2, <1>3
  <2>4. m[h].act = "delete"
    BY <2>1, <2>2, <2>3, <1>0, <1>3 DEF Merges, Open
(* Something made the path exist between h and k.                          *)
  <2> DEFINE U == {i \in L : m[i].path = m[h].path /\ h < i}
  <2>5. PICK c \in U : \A i \in U : c <= i
    <3>1. U \subseteq EventId /\ k \in U
      BY <1>0, <1>3
    <3> HIDE DEF U
    <3> QED BY <3>1, MinExists
  <2>6. c \in L /\ m[c].path = m[h].path /\ h < c /\ c \in Nat /\ c <= k
    <3>1. k \in U
      BY <1>3
    <3> QED BY <3>1, <2>5, <1>0
  <2>7. \A i \in L2 : m[i].path = m[h].path => i <= h \/ c <= i
    <3> SUFFICES ASSUME NEW i \in L2, m[i].path = m[h].path PROVE i <= h \/ c <= i
      OBVIOUS
    <3>1. i \in U \/ i = x \/ ~ (h < i)
      BY <1>0
    <3>2. i \in Nat /\ c <= x
      BY <2>6, <1>0
    <3> HIDE DEF U
    <3> QED BY <3>1, <3>2, <2>2, <2>5
  <2> HIDE DEF U
  <2>8. Follows(L2, m, h, c)
    BY <2>6, <2>7 DEF Follows
  <2>9. Creates(m[c])
    <3>1. Creates(m[h]) \/ Creates(m[c])
      BY <2>6, <2>8, <1>0 DEF Floor
    <3> QED BY <3>1, <2>4 DEF Creates
  <2>10. c \in l /\ c < k
    <3>1. c # k
      BY <2>9, <1>3
    <3> QED BY <3>1, <2>1, <2>2, <2>6, <1>2
  <2>11. ~ Open(m[c])
    BY <2>6, <2>10, <1>3 DEF Fronts, Unspent
  <2>12. Oldest(l \cup {x}, m, c)
    BY <2>9, <2>10, <2>11 DEF Open, Creates, Fronts, Foremost
  <2>13. c <= h
    BY <2>6, <2>12 DEF Oldest
  <2> QED BY <2>2, <2>6, <2>13
<1>4. \A k \in L2 \ {x} : m[k].path = m[h].path /\ h < k => Creates(m[k])
  BY <1>0, <1>3
<1> QED BY <1>0, <1>1, <1>4 DEF Undoes

-----------------------------------------------------------------------------
(* What is left when two events have merged.                               *)

(* The half of a rename that the merge concerns, once h absorbs x.         *)
Severed(m, h, x, i) == Mated(m, i, h) \/ Mated(m, h, i) \/ Mated(m, i, x)

Retagging(m, m3, i) ==
  /\ m3[i].act \in {"new", "delete"} /\ m3[i].cookie = 0 /\ m[i].act \in Renames
  /\ m[i].act = "rename_from" => m3[i].act = "delete"
  /\ m[i].act = "rename_to" => m3[i].act = "new" /\ m[i].pair # Null /\ m3[i].pair = m[i].pair

(* Of the events left, the other half of the rename concerned, and only    *)
(* it, is no longer one.                                                   *)
Cuts(l, o, m, m3, h, x) ==
  /\ \A i \in (l \cup o) \ {h} :
        /\ m3[i].path = m[i].path
        /\ m3[i] = m[i] \/ (i \in l /\ Retagging(m, m3, i) /\ Severed(m, h, x, i))
        /\ Severed(m, h, x, i) => Retagging(m, m3, i)
  /\ m[h].act = "rename_to" => \E i \in l : Mated(m, i, h)
  /\ m[x].act = "rename_to" => \E i \in l : Mated(m, i, x)

(* m3 is the memory m in which h has absorbed x.                           *)
Absorbs(m, m3, h, x) ==
  /\ Absorbing(m, m3, h, x)
  /\ \A i \in EventId \ {h, x} : m3[i].path = m[i].path /\ m3[i].pair = m[i].pair

LEMMA AbsorbCuts ==
  ASSUME NEW l, NEW o, NEW f, NEW m, NEW r, NEW a, NEW k, NEW x, Joins(l, o, m, x), NEW h \in l,
         Good(l \cup {x}, m, o, r, a, k), Fronts(l \cup {x}, o, f, m, r, l \cup o),
         Halves(f, (l \cup o) \cup {x}, m), m[h].path = m[x].path,
         NEW m3, Absorbs(m, m3, h, x)
  PROVE  Cuts(l, o, m, m3, h, x)
<1> DEFINE L == l \cup o
           L2 == L \cup {x}
           g == Retag(m[h], m[x]).of
           as == Retag(m[h], m[x]).as
<1>0. /\ \A i \in L : i < x /\ i \in Nat /\ i # x
      /\ \A i \in L2 : i \in L \/ i = x
      /\ x \in Nat /\ l \subseteq L /\ L \subseteq L2 /\ x \in L2 /\ ~ (x < x)
      /\ L \in SUBSET EventId /\ Null \notin EventId /\ h \in L /\ L2 \subseteq EventId
  BY Assumptions DEF Joins, EventId, Null
<1>1. /\ Pairs(l \cup {x}, m) /\ Coupled(l \cup {x}, m) /\ Merges(m[h], m[x])
      /\ m[x].act # "rename_to" => m[x].pair = Null
  BY DEF Good, Fronts, Absorbs, Absorbing
<1>2. \A i, j \in L2 :
        m[i].act \in Renames /\ m[j].act = m[i].act /\ m[i].cookie = m[j].cookie => i = j
  BY DEF Halves
<1>3. ASSUME m[h].act = "rename_from" PROVE m[h].pair # Null
  <2> SUFFICES ASSUME m[h].pair = Null PROVE FALSE
    OBVIOUS
  <2>1. ~ Sendable(m[h])
    BY <1>3 DEF Sendable
  <2>2. PICK t \in Thread : r[t].act = "rename_to" /\ r[t].cookie = m[h].cookie
    BY <2>1 DEF Good, Awaited
  <2>3. r[t].cookie # 0
    BY <2>2 DEF Good, Pending
  <2>4. Newest((l \cup {x}) \cup o, m, h)
    BY <2>2, <2>3 DEF Fronts, Waits
  <2>5. x <= h
    BY <2>4 DEF Newest
  <2> QED BY <2>5, <1>0
(* Either both events leave nothing behind ...                             *)
<1>4. ASSUME g = Null, m[h].act \notin Renames, m[x].act # "rename_to" PROVE Cuts(l, o, m, m3, h, x)
  <2>1. \A i \in L \ {h} : m3[i] = m[i]
    <3> SUFFICES ASSUME NEW i \in L \ {h} PROVE m3[i] = m[i]
      OBVIOUS
    <3>1. i \in EventId \ {h, x} /\ i # g
      BY <1>0, <1>4
    <3> QED BY <3>1 DEF Absorbs, Absorbing
  <2>2. \A i \in L : ~ Severed(m, h, x, i)
    BY <1>4 DEF Severed, Mated, Renames
  <2> QED BY <2>1, <2>2, <1>4 DEF Cuts, Renames
(* ... or one half of a rename, g.                                         *)
<1>5. ASSUME g \in l \ {h}, m[g].act \in Renames,
             m[g].act = "rename_from" => as = "delete",
             m[g].act = "rename_to" => as = "new" /\ m[g].pair # Null,
             \A i \in L \ {h} : Severed(m, h, x, i) <=> i = g,
             m[h].act = "rename_to" => Mated(m, g, h),
             m[x].act = "rename_to" => Mated(m, g, x)
      PROVE  Cuts(l, o, m, m3, h, x)
  <2>1. g \in EventId \ {h, x} /\ m3[g].act = as /\ m3[g].cookie = 0
        /\ m3[g].path = m[g].path /\ m3[g].pair = m[g].pair
    <3>1. g \in EventId \ {h, x}
      BY <1>0, <1>5
    <3> QED BY <3>1 DEF Absorbs, Absorbing
  <2>2. ASSUME NEW i \in L \ {h}, i # g PROVE m3[i] = m[i]
    <3>1. i \in EventId \ {h, x}
      BY <1>0, <2>2
    <3> QED BY <3>1, <2>2 DEF Absorbs, Absorbing
  <2> HIDE DEF g, as
  <2>3. Retagging(m, m3, g)
    BY <2>1, <1>5 DEF Retagging, Renames
  <2> QED BY <2>1, <2>2, <2>3, <1>5 DEF Cuts
<1>6. CASE m[x].act = "new" /\ m[h].act = "delete"
  BY <1>4, <1>6 DEF Retag, Renames
<1>7. CASE m[x].act = "new" /\ m[h].act = "rename_from"
  <2>0. g = m[h].pair /\ as = "new"
    BY <1>7 DEF Retag
  <2>1. g \in l \cup {x} /\ h < g /\ m[g].act = "rename_to" /\ m[g].pair = h /\ g # Null
    BY <1>1, <1>3, <1>7, <2>0 DEF Pairs
  <2>2. g \in l \ {h} /\ h # Null
    BY <2>1, <1>0, <1>7
  <2>3. Mated(m, h, g)
    BY <2>1, <2>2, <1>1, <1>7 DEF Coupled, Mated
  <2> HIDE DEF g, as
  <2>4. \A i \in L \ {h} : Severed(m, h, x, i) <=> i = g
    <3> SUFFICES ASSUME NEW i \in L \ {h}, Mated(m, h, i) PROVE i = g
      BY <2>3, <1>7 DEF Severed, Mated
    <3>1. g \in L2 /\ i \in L2
      BY <2>2
    <3> QED BY <3>1, <2>3, <1>2 DEF Mated, Renames
  <2> QED BY <2>0, <2>1, <2>2, <2>4, <1>5, <1>7 DEF g, as, Renames
<1>8. CASE m[x].act \in {"delete", "rename_from"} /\ m[h].act = "new"
  BY <1>4, <1>8 DEF Retag, Renames
<1>9. CASE m[x].act \in {"delete", "rename_from"} /\ m[h].act = "rename_to" /\ m[h].pair # Null
  <2>0. g = m[h].pair /\ as = "delete"
    BY <1>9 DEF Retag
  <2>1. g \in l \cup {x} /\ g < h /\ m[g].act = "rename_from" /\ m[g].pair = h
    BY <1>1, <1>9, <2>0 DEF Pairs
  <2>2. g \in l \ {h}
    BY <2>1, <1>0, <1>9
  <2>3. Mated(m, g, h)
    BY <2>0, <2>1, <1>1, <1>9 DEF Coupled, Mated
  <2> HIDE DEF g, as
  <2>4. \A i \in L \ {h} : Severed(m, h, x, i) <=> i = g
    <3> SUFFICES ASSUME NEW i \in L \ {h}, Mated(m, i, h) PROVE i = g
      BY <2>3, <1>9 DEF Severed, Mated
    <3>1. g \in L2 /\ i \in L2
      BY <2>2
    <3> QED BY <3>1, <2>3, <1>2 DEF Mated, Renames
  <2> QED BY <2>0, <2>1, <2>2, <2>3, <2>4, <1>5, <1>9 DEF g, as, Renames
<1>10. CASE m[x].act = "rename_to" /\ m[h].act = "delete" /\ m[x].pair # Null
  <2>0. g = m[x].pair /\ as = "delete"
    BY <1>10 DEF Retag
  <2>1. g \in l \cup {x} /\ g < x /\ m[g].act = "rename_from" /\ m[g].pair = x
    BY <1>1, <1>10, <2>0 DEF Pairs
  <2>2. g \in l \ {h}
    BY <2>1, <1>0, <1>10
  <2>3. Mated(m, g, x)
    BY <2>0, <2>1, <1>1, <1>10 DEF Coupled, Mated
  <2> HIDE DEF g, as
  <2>4. \A i \in L \ {h} : Severed(m, h, x, i) <=> i = g
    <3> SUFFICES ASSUME NEW i \in L \ {h}, Mated(m, i, x) PROVE i = g
      BY <2>3, <1>10 DEF Severed, Mated
    <3>1. g \in L2 /\ i \in L2
      BY <2>2
    <3> QED BY <3>1, <2>3, <1>2 DEF Mated, Renames
  <2> QED BY <2>0, <2>1, <2>2, <2>3, <2>4, <1>5, <1>10 DEF g, as, Renames
<1> QED BY <1>1, <1>6, <1>7, <1>8, <1>9, <1>10 DEF Merges

LEMMA CutSound ==
  ASSUME NEW v, NEW f, NEW l, NEW o, NEW m, NEW R, NEW x, Joins(l, o, m, x), NEW h \in l,
         Sound(v, f, (l \cup o) \cup {x}, m, R), Undoes((l \cup o) \cup {x}, m, h, x),
         NEW m3, Cuts(l, o, m, m3, h, x)
  PROVE  Sound(v, f, (l \ {h}) \cup o, m3, R)
<1> DEFINE L2 == (l \cup o) \cup {x}
           K == (l \cup o) \ {h}
           N == (l \ {h}) \cup o
<1>0. /\ \A i \in L2 : i <= x /\ i \in Nat /\ (i \in K \/ i = h \/ i = x)
      /\ K \subseteq L2 /\ x \in L2 /\ h \in L2 /\ x \notin K /\ h \notin K /\ h < x /\ x \in Nat
      /\ K = L2 \ {h, x} /\ L2 \in SUBSET EventId /\ ~ (x < x)
  BY Assumptions DEF Joins, EventId
<1>1. \A i \in K : /\ m3[i].path = m[i].path
                   /\ m3[i] = m[i] \/ (Retagging(m, m3, i) /\ Severed(m, h, x, i))
                   /\ Severed(m, h, x, i) => Retagging(m, m3, i)
  BY DEF Cuts
<1>2. \A i \in K : m3[i].act \in Renames => m3[i] = m[i] /\ ~ Severed(m, h, x, i)
  BY <1>1 DEF Retagging, Renames
<1>3. Worth(Settled(v, f), K, m3, R)
  <2>1. Newest(L2, m, x)
    BY <1>0 DEF Newest
  <2>2. Worth(Settled(v, f), L2, m, R) /\ Undoes(L2, m, h, x)
    BY DEF Sound
  <2> HIDE DEF L2, K
  <2>3. Worth(Settled(v, f), K, m, R)
    BY <1>0, <2>1, <2>2, WorthCancel
  <2>4. \A i \in K : m3[i].path = m[i].path /\ (Creates(m3[i]) <=> Creates(m[i]))
    BY <1>1 DEF Retagging, Creates, Renames
  <2> QED BY <2>3, <2>4, WorthSame
<1>4. Sources(v, f, K, m3)
  <2> SUFFICES ASSUME NEW y \in f
               PROVE  /\ y[2] \in v
                      /\ \E j \in K : /\ m3[j].act = "rename_to" /\ m3[j].cookie = y[1] /\ m3[j].path # y[2]
                                      /\ \A i \in K : m3[i].path = y[2] => j < i
                      /\ \A z \in f : y[1] = z[1] \/ y[2] = z[2] => y = z
                      /\ \A i \in K : m3[i].act = "rename_from" => m3[i].cookie # y[1]
    BY DEF Sources
  <2>1. /\ y[2] \in v /\ \A z \in f : y[1] = z[1] \/ y[2] = z[2] => y = z
        /\ \A i \in L2 : m[i].act = "rename_from" => m[i].cookie # y[1]
    BY DEF Sound, Sources
  <2>2. PICK j \in L2 : /\ m[j].act = "rename_to" /\ m[j].cookie = y[1] /\ m[j].path # y[2]
                        /\ \A i \in L2 : m[i].path = y[2] => j < i
    BY DEF Sound, Sources
  <2>3. j # h /\ j # x
    <3>1. l \subseteq L2
      OBVIOUS
    <3>2. \A i \in L2 : ~ Mated(m, i, j)
      BY <2>1, <2>2 DEF Mated
    <3> HIDE DEF L2
    <3> QED BY <2>2, <3>1, <3>2 DEF Cuts
  <2>4. j \in K /\ ~ Severed(m, h, x, j)
    BY <2>1, <2>2, <2>3, <1>0 DEF Severed, Mated
  <2>5. m3[j] = m[j]
    BY <2>4, <1>1
  <2>6. \A i \in K : m3[i].path = y[2] => j < i
    BY <1>0, <1>1, <2>2
  <2>7. \A i \in K : m3[i].act = "rename_from" => m3[i].cookie # y[1]
    BY <1>0, <1>2, <2>1 DEF Renames
  <2> QED BY <2>1, <2>2, <2>4, <2>5, <2>6, <2>7
<1>5. Halves(f, K, m3)
  <2>1. ASSUME NEW j \in K, m3[j].act = "rename_to"
        PROVE  (\E y \in f : y[1] = m3[j].cookie) \/ \E i \in K : Mated(m3, i, j)
    <3>1. m3[j] = m[j] /\ ~ Severed(m, h, x, j) /\ j \in L2 /\ m[j].act = "rename_to"
      BY <2>1, <1>0, <1>2 DEF Renames
    <3>2. (\E y \in f : y[1] = m[j].cookie) \/ \E i \in L2 : Mated(m, i, j)
      BY <3>1 DEF Sound, Halves
    <3>3. ASSUME NEW i \in L2, Mated(m, i, j) PROVE \E n \in K : Mated(m3, n, j)
      <4>1. i # h
        BY <3>1, <3>3 DEF Severed
      <4>2. i < j
        BY <3>1, <3>3 DEF Sound, Halves, Closed
      <4>3. i # x
        BY <4>2, <3>1, <1>0
      <4>4. i \in K
        BY <4>1, <4>3, <3>3, <1>0
      <4>5. ~ Severed(m, h, x, i)
        <5> SUFFICES ASSUME Mated(m, i, h) \/ Mated(m, i, x) PROVE FALSE
          BY <2>1, <3>3, <1>0, <3>1 DEF Severed, Mated
        <5>1. j = h \/ j = x
          BY <3>1, <3>3, <1>0 DEF Mated, Sound, Halves, Renames
        <5> QED BY <5>1, <2>1, <1>0
      <4>6. m3[i] = m[i]
        BY <4>4, <4>5, <1>1
      <4> QED BY <4>4, <4>6, <3>1, <3>3 DEF Mated
    <3> QED BY <3>1, <3>2, <3>3
  <2>2. ASSUME NEW i \in K, NEW j \in K, Mated(m3, i, j) PROVE Closed(K, m3, i, j)
    <3>1. m3[i] = m[i] /\ m3[j] = m[j] /\ i \in L2 /\ j \in L2
      BY <2>2, <1>0, <1>2 DEF Mated, Renames
    <3>2. Closed(L2, m, i, j)
      BY <3>1, <2>2 DEF Mated, Sound, Halves
    <3>3. \A n \in K : n \in L2 /\ m3[n].path = m[n].path
      BY <1>0, <1>1
    <3> HIDE DEF K, L2
    <3> QED BY <3>1, <3>2, <3>3 DEF Closed
  <2>3. ASSUME NEW i \in K, NEW j \in K, m3[i].act \in Renames, m3[j].act = m3[i].act,
               m3[i].cookie = m3[j].cookie
        PROVE  i = j
    <3>1. m3[i] = m[i] /\ m3[j] = m[j] /\ i \in L2 /\ j \in L2
      BY <2>3, <1>0, <1>2
    <3> QED BY <3>1, <2>3 DEF Sound, Halves
  <2> HIDE DEF K
  <2> QED BY <2>1, <2>2, <2>3 DEF Halves
<1>6. Kinds(K, m3)
  <2>1. \A i \in K : m[i].act \in {"new", "delete", "rename_from", "rename_to"}
    BY <1>0 DEF Sound, Kinds
  <2> HIDE DEF K
  <2> QED BY <2>1, <1>1 DEF Kinds, Retagging
<1>7. K = N
  <2>1. h \notin o
    BY DEF Joins
  <2> QED BY <2>1
<1> HIDE DEF K
<1>8. Sound(v, f, K, m3, R)
  BY <1>3, <1>4, <1>5, <1>6 DEF Sound
<1> QED BY <1>7, <1>8

LEMMA CutFronts ==
  ASSUME NEW v, NEW f, NEW l, NEW o, NEW m, NEW r, NEW a, NEW k, NEW R, NEW x, Joins(l, o, m, x),
         NEW h \in l, Sound(v, f, (l \cup o) \cup {x}, m, R),
         Fronts(l \cup {x}, o, f, m, r, l \cup o),
         NEW m3, Cuts(l, o, m, m3, h, x), Pairs(l \ {h}, m3)
  PROVE  Fronts(l \ {h}, o, f, m3, r, (l \ {h}) \cup o)
<1> DEFINE L2 == (l \cup o) \cup {x}
           K == (l \ {h}) \cup o
           n == l \ {h}
           l2 == l \cup {x}
<1>0. /\ \A i \in L2 : i <= x /\ i \in Nat /\ (i \in K \/ i = h \/ i = x)
      /\ \A i \in K : i # h /\ i # x /\ i \in L2 /\ i \in l \cup o /\ (i \in n \/ i \in o)
      /\ \A i \in n : i \in l /\ i \in K /\ i \notin o /\ i \in l2
      /\ \A i \in o : i \in K /\ i \notin l
      /\ x \in L2 /\ h \in L2 /\ h < x /\ x \in Nat /\ ~ (x < x)
      /\ n \subseteq l /\ K \subseteq L2
  BY Assumptions DEF Joins, EventId
<1>1. \A i \in K : /\ m3[i].path = m[i].path
                   /\ m3[i] = m[i] \/ (i \in n /\ Retagging(m, m3, i) /\ Severed(m, h, x, i))
                   /\ Severed(m, h, x, i) => Retagging(m, m3, i)
  BY <1>0 DEF Cuts
<1>2. \A i \in K : m3[i].act \in Renames => m3[i] = m[i] /\ ~ Severed(m, h, x, i)
  BY <1>1 DEF Retagging, Renames
<1>3. Behind(n, o, m3)
  <2> SUFFICES ASSUME NEW i \in n, NEW j \in o, i < j
               PROVE  m3[i].path # m3[j].path /\ m3[i].act \in {"delete", "rename_from"}
    BY DEF Behind
  <2>1. m[i].path # m[j].path /\ m[i].act \in {"delete", "rename_from"}
    BY <1>0 DEF Fronts, Behind
  <2>2. m3[i].path = m[i].path /\ m3[j].path = m[j].path
    BY <1>0, <1>1
  <2>3. m3[i] = m[i] \/ Retagging(m, m3, i)
    BY <1>0, <1>1
  <2> QED BY <2>1, <2>2, <2>3 DEF Retagging, Renames
<1>4. Unspent(n, m3, K)
  <2> SUFFICES ASSUME NEW i \in n, NEW j \in K, Open(m3[i]), m3[j].path = m3[i].path, i < j
               PROVE  Creates(m3[j])
    BY DEF Unspent
  <2>1. m3[i] = m[i] \/ Retagging(m, m3, i)
    BY <1>0, <1>1
  <2>2. Open(m[i])
    BY <2>1 DEF Open, Retagging, Renames
  <2>3. i \in l \cup {x} /\ j \in l \cup o /\ m[j].path = m[i].path
    BY <1>0, <1>1
  <2>4. Creates(m[j])
    BY <2>2, <2>3 DEF Fronts, Unspent
  <2>5. m3[j] = m[j] \/ Retagging(m, m3, j)
    BY <1>1
  <2> QED BY <2>4, <2>5 DEF Retagging, Renames, Creates
<1>5. Foremost(n, m3)
  <2> SUFFICES ASSUME NEW j \in n, m3[j].act = "rename_to", m3[j].pair = Null
               PROVE  Oldest(n, m3, j)
    BY DEF Foremost
  <2>1. m3[j] = m[j] /\ j \in l2
    BY <1>0, <1>2 DEF Renames
  <2>2. Oldest(l2, m, j)
    BY <2>1 DEF Fronts, Foremost
  <2>3. \A i \in n : i \in l2 /\ m3[i].path = m[i].path
    BY <1>0, <1>1
  <2> HIDE DEF n, l2
  <2> QED BY <2>1, <2>2, <2>3 DEF Oldest
<1>6. Coupled(n, m3)
  <2> SUFFICES ASSUME NEW j \in n, m3[j].act = "rename_to", m3[j].pair # Null
               PROVE  m3[m3[j].pair].cookie = m3[j].cookie
    BY DEF Coupled
  <2>1. m3[j] = m[j] /\ j \in l2
    BY <1>0, <1>2 DEF Renames
  <2>2. m3[j].pair \in n /\ m3[m3[j].pair].act = "rename_from"
    BY DEF Pairs
  <2>3. m3[m3[j].pair] = m[m3[j].pair]
    BY <2>2, <1>0, <1>2 DEF Renames
  <2>4. m[m[j].pair].cookie = m[j].cookie
    BY <2>1 DEF Fronts, Coupled
  <2> QED BY <2>1, <2>3, <2>4
<1>7. Halved(K, m3, r)
  <2> SUFFICES ASSUME NEW i \in K, m3[i].act = "rename_from"
               PROVE  (\E j \in K : Mated(m3, i, j)) \/ \E t \in Thread : r[t].cookie = m3[i].cookie
    BY DEF Halved
  <2>1. m3[i] = m[i] /\ ~ Severed(m, h, x, i) /\ m[i].act = "rename_from" /\ i \in L2
    BY <1>0, <1>2 DEF Renames
  <2>2. ASSUME NEW j \in L2, Mated(m, i, j) PROVE \E p \in K : Mated(m3, i, p)
    <3>1. j \in K
      BY <2>1, <2>2, <1>0 DEF Severed
    <3>2. ~ Severed(m, h, x, j)
      <4> SUFFICES ASSUME Mated(m, h, j) PROVE FALSE
        BY <2>2, <2>1 DEF Severed, Mated
      <4>1. i = h
        BY <2>1, <2>2, <1>0 DEF Mated, Sound, Halves, Renames
      <4> QED BY <4>1, <1>0
    <3>3. m3[j] = m[j]
      BY <3>1, <3>2, <1>1
    <3> QED BY <3>1, <3>3, <2>1, <2>2 DEF Mated
  <2>3. (\E j \in L2 : Mated(m, i, j)) \/ \E t \in Thread : r[t].cookie = m[i].cookie
    <3>1. Halved((l \cup {x}) \cup o, m, r)
      BY DEF Fronts
    <3>2. (l \cup {x}) \cup o = L2
      OBVIOUS
    <3> QED BY <3>1, <3>2, <2>1 DEF Halved
  <2> QED BY <2>1, <2>2, <2>3
<1>8. Waits(n, K, f, m3, r)
  <2> SUFFICES ASSUME NEW t \in Thread, r[t].cookie # 0
               PROVE  /\ \A y \in f : y[1] # r[t].cookie
                      /\ \A i \in K : m3[i].cookie = r[t].cookie =>
                            /\ i \in n /\ m3[i].path # r[t].path /\ Newest(K, m3, i)
                            /\ \A j \in K : m3[j].path = r[t].path => j < i
    BY DEF Waits
  <2>0. Waits(l2, L2, f, m, r)
    <3>1. (l \cup {x}) \cup o = L2
      OBVIOUS
    <3> QED BY <3>1 DEF Fronts
  <2>1. \A y \in f : y[1] # r[t].cookie
    BY <2>0 DEF Waits
  <2>2. ASSUME NEW i \in K, m3[i].cookie = r[t].cookie
        PROVE  /\ i \in n /\ m3[i].path # r[t].path /\ Newest(K, m3, i)
               /\ \A j \in K : m3[j].path = r[t].path => j < i
    <3>1. m3[i] = m[i] /\ i \in L2
      BY <2>2, <1>0, <1>1 DEF Retagging
    <3>2. /\ i \in l2 /\ m[i].path # r[t].path /\ Newest(L2, m, i)
          /\ \A j \in L2 : m[j].path = r[t].path => j < i
      BY <2>0, <2>2, <3>1 DEF Waits
    <3>3. i \in n
      BY <3>2, <1>0
    <3>4. \A j \in K : j \in L2 /\ m3[j].path = m[j].path
      BY <1>0, <1>1
    <3> HIDE DEF K, L2, n
    <3> QED BY <3>1, <3>2, <3>3, <3>4 DEF Newest
  <2> QED BY <2>1, <2>2
<1> QED BY <1>3, <1>4, <1>5, <1>6, <1>7, <1>8 DEF Fronts

-----------------------------------------------------------------------------
(* Events move to an array.                                                *)

(* The events P move from the list l: those that may be sent come first,   *)
(* and a rename_to left behind loses its rename_from.                      *)
Moves(l, o, m, r, m2, P) ==
  /\ P \subseteq l
  /\ \A i \in l \cup o : m2[i].act = m[i].act /\ m2[i].path = m[i].path /\ m2[i].cookie = m[i].cookie
  /\ \A i \in l \ P : \/ m2[i].pair = m[i].pair
                      \/ m2[i].pair = Null /\ m[i].act = "rename_to" /\ m[i].pair \in P
  /\ \A i \in l, j \in P : i <= j /\ Sendable(m[i]) => i \in P
  /\ (\A i \in P : Sendable(m[i])) \/ \A t \in Thread : r[t].cookie = 0

LEMMA MovesTrack ==
  ASSUME NEW v, NEW f, NEW l, NEW o, NEW m, NEW r, NEW a, NEW k, NEW R,
         Good(l, m, o, r, a, k), Sound(v, f, l \cup o, m, R), Fronts(l, o, f, m, r, l \cup o),
         NEW m2, NEW P, Moves(l, o, m, r, m2, P)
  PROVE  Sound(v, f, l \cup o, m2, R) /\ Fronts(l \ P, o \cup P, f, m2, r, l \cup o)
<1> DEFINE L == l \cup o
           n == l \ P
<1>0. /\ \A i \in L : /\ i \in Nat /\ (i \in n \/ i \in o \/ i \in P)
                      /\ m2[i].act = m[i].act /\ m2[i].path = m[i].path /\ m2[i].cookie = m[i].cookie
      /\ \A i \in n : i \in l /\ i \notin P /\ i \in L
      /\ \A i \in P : i \in l /\ i \in L
      /\ \A i \in l : i \in L
      /\ \A i \in o : i \in L
  BY Assumptions DEF Good, Typed, EventId, Moves
(* What may not be sent waits for the creation that its rename still has   *)
(* to report.                                                              *)
<1>1. ASSUME NEW i \in l, ~ Sendable(m[i])
      PROVE  Newest(L, m, i) /\ m[i].act = "rename_from"
  <2>1. PICK t \in Thread : r[t].act = "rename_to" /\ r[t].cookie = m[i].cookie
    BY <1>1 DEF Good, Awaited
  <2>2. r[t].cookie # 0
    BY <2>1 DEF Good, Pending
  <2> QED BY <2>1, <2>2, <1>0, <1>1 DEF Fronts, Waits, Sendable
<1>2. Sound(v, f, L, m2, R)
  <2> HIDE DEF L
  <2>1. Sound(v, f, L, m, R)
    BY DEF L
  <2> QED BY <1>0, <2>1, SoundSame
<1>3. Behind(n, o \cup P, m2)
  <2> SUFFICES ASSUME NEW i \in n, NEW j \in o \cup P, i < j
               PROVE  m2[i].path # m2[j].path /\ m2[i].act \in {"delete", "rename_from"}
    BY DEF Behind
  <2>1. CASE j \in o
    <3>1. m[i].path # m[j].path /\ m[i].act \in {"delete", "rename_from"}
      BY <2>1, <1>0 DEF Fronts, Behind
    <3> QED BY <3>1, <2>1, <1>0
  <2>2. CASE j \in P
    <3>1. i <= j /\ i \in Nat /\ j \in Nat /\ i \in l /\ i \notin P /\ j \in L
      BY <2>2, <1>0
    <3>2. ~ Sendable(m[i])
      BY <3>1, <2>2 DEF Moves
    <3>3. Newest(L, m, i) /\ m[i].act = "rename_from"
      BY <3>1, <3>2, <1>1
    <3>4. m[i].path # m[j].path
      <4>1. ~ (j <= i)
        BY <3>1
      <4> QED BY <3>1, <3>3, <4>1 DEF Newest
    <3> QED BY <3>1, <3>3, <3>4, <1>0
  <2> QED BY <2>1, <2>2
<1>4. Unspent(n, m2, L)
  <2> SUFFICES ASSUME NEW i \in n, NEW j \in L, Open(m2[i]), m2[j].path = m2[i].path, i < j
               PROVE  Creates(m2[j])
    BY DEF Unspent
  <2>1. Open(m[i]) /\ m[j].path = m[i].path /\ i \in l
    BY <1>0 DEF Moves, Open
  <2>2. Creates(m[j])
    BY <2>1 DEF Fronts, Unspent
  <2> QED BY <2>2, <1>0 DEF Creates
<1>5. Foremost(n, m2)
  <2> SUFFICES ASSUME NEW j \in n, m2[j].act = "rename_to", m2[j].pair = Null,
                      NEW i \in n, m2[i].path = m2[j].path
               PROVE  j <= i
    BY DEF Foremost, Oldest
  <2>0. m[j].act = "rename_to" /\ m[i].path = m[j].path /\ i \in l /\ j \in l /\ i \in Nat /\ j \in Nat
        /\ i \notin P
    BY <1>0
  <2>1. CASE m[j].pair = Null
    <3>1. Oldest(l, m, j)
      BY <2>0, <2>1 DEF Fronts, Foremost
    <3> QED BY <3>1, <2>0 DEF Oldest
  <2>2. CASE m[j].pair # Null /\ m[j].pair \in P
    <3> DEFINE p == m[j].pair
    <3>1. p \in l /\ m[p].act = "rename_from" /\ m[p].pair = j /\ m[p].cookie = m[j].cookie
      BY <2>0, <2>2 DEF Good, Pairs, Fronts, Coupled
    <3>2. Closed(L, m, p, j)
      BY <3>1, <2>0 DEF Sound, Halves, Mated
    <3>3. i < j => i < p
      BY <3>2, <2>0, <1>0 DEF Closed
    <3>4. i < p => ~ Sendable(m[i])
      <4>1. p \in Nat
        BY <3>1, <1>0
      <4>2. i < p => i <= p
        BY <4>1, <2>0
      <4> QED BY <4>2, <2>0, <2>2 DEF Moves
    <3>5. ~ Sendable(m[i]) => j <= i
      BY <1>1, <2>0, <1>0 DEF Newest
    <3> HIDE DEF p
    <3> QED BY <3>3, <3>4, <3>5, <2>0
  <2>3. m2[j].pair = m[j].pair \/ m[j].pair \in P
    BY <1>0 DEF Moves
  <2> QED BY <2>1, <2>2, <2>3
<1>6. Coupled(n, m2)
  <2> SUFFICES ASSUME NEW j \in n, m2[j].act = "rename_to", m2[j].pair # Null
               PROVE  m2[m2[j].pair].cookie = m2[j].cookie
    BY DEF Coupled
  <2>1. m2[j].pair = m[j].pair /\ j \in l /\ m[j].act = "rename_to"
    BY <1>0 DEF Moves
  <2>2. m[j].pair \in l /\ m[m[j].pair].cookie = m[j].cookie
    BY <2>1 DEF Good, Pairs, Fronts, Coupled
  <2> QED BY <2>1, <2>2, <1>0
<1>7. Halved(L, m2, r)
  <2>1. Halved(L, m, r)
    BY DEF Fronts
  <2> HIDE DEF L
  <2> QED BY <2>1, <1>0 DEF Halved, Mated
<1>8. Waits(n, L, f, m2, r)
  <2> SUFFICES ASSUME NEW t \in Thread, r[t].cookie # 0
               PROVE  /\ \A y \in f : y[1] # r[t].cookie
                      /\ \A i \in L : m2[i].cookie = r[t].cookie =>
                            /\ i \in n /\ m2[i].path # r[t].path /\ Newest(L, m2, i)
                            /\ \A j \in L : m2[j].path = r[t].path => j < i
    BY DEF Waits
  <2>1. \A y \in f : y[1] # r[t].cookie
    BY DEF Fronts, Waits
  <2>2. ASSUME NEW i \in L, m2[i].cookie = r[t].cookie
        PROVE  /\ i \in n /\ m2[i].path # r[t].path /\ Newest(L, m2, i)
               /\ \A j \in L : m2[j].path = r[t].path => j < i
    <3>1. /\ i \in l /\ m[i].path # r[t].path /\ Newest(L, m, i)
          /\ \A j \in L : m[j].path = r[t].path => j < i
      BY <2>2, <1>0 DEF Fronts, Waits
    <3>2. ~ Sendable(m[i])
      BY <3>1, <2>2, <1>0 DEF Good, Pending, Sendable
    <3>3. i \in n
      BY <3>1, <3>2 DEF Moves
    <3> HIDE DEF L, n
    <3> QED BY <3>1, <3>3, <1>0 DEF Newest
  <2> QED BY <2>1, <2>2
<1>9. n \cup (o \cup P) = L
  BY DEF Moves
<1> QED BY <1>2, <1>3, <1>4, <1>5, <1>6, <1>7, <1>8, <1>9 DEF Fronts

(* The step leaves the events L as they were in the memory m.              *)
Onward(v, f, r, L, m, R) ==
  /\ Sound(v, f, list' \cup Batched', ev', R)
  /\ Fronts(list', Batched', f, ev', r, list' \cup Batched')
  /\ list' \cup Batched' = L
  /\ \A i \in L : ev'[i].path = m[i].path /\ ev'[i].cookie = m[i].cookie

LEMMA PickTrack ==
  ASSUME NEW v, NEW f, NEW l, NEW m, NEW n, NEW r, NEW a, NEW k, NEW R, NEW c \in Context,
         Good(l, m, Batched, r, a, k), batch \in [Context -> SUBSET EventId], batch[c] = {},
         Sound(v, f, l \cup Batched, m, R), Fronts(l, Batched, f, m, r, l \cup Batched),
         quit => \A t \in Thread : r[t].cookie = 0, PickEvents(c, l, m, n)
  PROVE  Onward(v, f, r, l \cup Batched, m, R)
<1> DEFINE P == Picked(l, m)
           left == {m[i].pair : i \in {j \in P : m[j].act = "rename_from"}}
<1>0. /\ l \in SUBSET EventId /\ Batched \in SUBSET EventId /\ m \in [EventId -> Event]
      /\ Pairs(l, m) /\ Null \notin EventId
  BY Assumptions DEF Good, Typed, EventId, Null
<1>1. /\ P \subseteq l
      /\ ~ quit => \A i \in P : Sendable(m[i])
  BY DEF Picked
<1>2. \A i \in l, j \in P : i <= j /\ Sendable(m[i]) => i \in P
  BY <1>0, PicksInOrder
<1>3. list' = l \ P /\ ev' = Unpaired(m, P) /\ batch' = [batch EXCEPT ![c] = P]
  BY DEF PickEvents
<1> HIDE DEF P
<1>4. Batched' = Batched \cup P
  BY <1>3 DEF Batched
<1>5. \A i \in EventId :
        ev'[i] = IF ~quit /\ i \in left THEN [m[i] EXCEPT !.pair = Null] ELSE m[i]
  BY <1>3 DEF Unpaired
<1>6. ASSUME NEW i \in EventId, ev'[i] # m[i]
      PROVE  m[i].act = "rename_to" /\ m[i].pair \in P
  <2>1. PICK j \in P : m[j].act = "rename_from" /\ m[j].pair = i
    BY <1>5, <1>6
  <2>2. j \in l /\ i # Null
    BY <1>0, <1>1, <2>1
  <2> QED BY <2>1, <2>2, <1>0 DEF Pairs
<1> HIDE DEF left
<1>7. \A i \in EventId :
        /\ ev'[i].act = m[i].act /\ ev'[i].path = m[i].path /\ ev'[i].cookie = m[i].cookie
        /\ ev'[i] = m[i] \/ ev'[i].pair = Null
  <2> SUFFICES ASSUME NEW i \in EventId
               PROVE  /\ ev'[i].act = m[i].act /\ ev'[i].path = m[i].path /\ ev'[i].cookie = m[i].cookie
                      /\ ev'[i] = m[i] \/ ev'[i].pair = Null
    OBVIOUS
  <2>1. m[i] \in Event
    BY <1>0
  <2>2. ev'[i] = [m[i] EXCEPT !.pair = Null] \/ ev'[i] = m[i]
    BY <1>5
  <2> QED BY <2>1, <2>2 DEF Event
<1>8. Moves(l, Batched, m, r, ev', P)
  <2>1. \A i \in l \cup Batched :
          ev'[i].act = m[i].act /\ ev'[i].path = m[i].path /\ ev'[i].cookie = m[i].cookie
    BY <1>0, <1>7
  <2>2. \A i \in l \ P : \/ ev'[i].pair = m[i].pair
                         \/ ev'[i].pair = Null /\ m[i].act = "rename_to" /\ m[i].pair \in P
    BY <1>0, <1>6, <1>7
  <2> QED BY <1>1, <1>2, <2>1, <2>2 DEF Moves
<1>9. /\ Sound(v, f, l \cup Batched, ev', R)
      /\ Fronts(l \ P, Batched \cup P, f, ev', r, l \cup Batched)
  BY <1>8, MovesTrack
<1>10. list' \cup Batched' = l \cup Batched
  BY <1>1, <1>3, <1>4
<1>11. \A i \in l \cup Batched : ev'[i].path = m[i].path /\ ev'[i].cookie = m[i].cookie
  BY <1>0, <1>7
<1>12. Fronts(list', Batched', f, ev', r, l \cup Batched)
  BY <1>3, <1>4, <1>9
<1> QED BY <1>9, <1>10, <1>11, <1>12 DEF Onward

LEMMA CheckTrack ==
  ASSUME NEW v, NEW f, NEW l, NEW m, NEW n, NEW r, NEW a, NEW k, NEW R, NEW c \in Context,
         Good(l, m, Batched, r, a, k), batch \in [Context -> SUBSET EventId], batch[c] = {},
         Sound(v, f, l \cup Batched, m, R), Fronts(l, Batched, f, m, r, l \cup Batched),
         quit => \A t \in Thread : r[t].cookie = 0, CheckEvents(c, l, m, n)
  PROVE  Onward(v, f, r, l \cup Batched, m, R)
<1>1. CASE Keep(l, m, n)
  <2>1. list' = l /\ ev' = m /\ Batched' = Batched
    BY <1>1 DEF Keep, Batched
  <2> QED BY <2>1 DEF Onward
<1>2. CASE PickEvents(c, l, m, n)
  BY <1>2, PickTrack
<1> QED BY <1>1, <1>2 DEF CheckEvents

-----------------------------------------------------------------------------
(* do_event_merge                                                          *)

(* What the step has made of the event x, entered in the memory m: it is   *)
(* merged, and r is still to be submitted.                                 *)
Merged(r, x, m, R) ==
  /\ Sound(view, froms, list' \cup Batched', ev', R)
  /\ Fronts(list', Batched', froms, ev', r, list' \cup Batched')
  /\ \A i \in list' \cup Batched' :
        /\ i \in (list \cup Batched) \cup {x}
        /\ ev'[i].path = m[i].path /\ (ev'[i].cookie = m[i].cookie \/ ev'[i].cookie = 0)

LEMMA MergeTrack ==
  ASSUME MonitorInv, Track, NEW t \in Thread, pc[t] = "idle",
         NEW act, NEW path, NEW c, NEW r, NEW k, NEW x, NEW cur, NEW m, NEW R,
         x = alloc + 1, cur = Incoming(act, path, c), m = Linked(x, cur),
         Entered(x, cur, m, r, k), DoEventMerge(t, act, path, c),
         Enters(list, Batched, froms, ev, rest, x, m, r),
         quit => \A u \in Thread : r[u].cookie = 0, cur.path \in Path,
         Turns(cur, Reported, R)
  PROVE  Merged(r, x, m, R)
<1> DEFINE L == list \cup Batched
           l2 == list \cup {x}
           hits == {i \in list : Merges(m[i], cur)}
           hit == Max(hits)
           after == Freed(Retagged(m, Retag(m[hit], cur)), {hit, x})
<1>1. /\ Good(list, ev, Batched, rest, alloc, cookie) /\ Arrays
      /\ batch \in [Context -> SUBSET EventId] /\ t \in Context /\ batch[t] = {}
      /\ \A i \in L : ev[i].path \in Path
      /\ Pairs(list, ev) /\ Pending(list, ev, Batched, rest, cookie)
      /\ \A i \in L : ev[i].act \in Renames => ev[i].cookie # 0
      /\ list \cap Batched = {} /\ list \in SUBSET EventId /\ Batched \in SUBSET EventId
  BY IdleBatch DEF MonitorInv, IInv, Paths, Named, Good, Typed, Owned, Cookies, Arrays, Context
<1>2. Good(l2, m, Batched, r, x, k) /\ m[x] = cur /\ x \in EventId /\ x \notin L
      /\ m \in [EventId -> Event] /\ cur \in Event
      /\ (cur.act # "rename_to" => cur.pair = Null)
  BY DEF Entered, Good, Typed
<1>3. Joins(list, Batched, m, x)
  BY <1>1, <1>2 DEF Joins, Enters
<1>4. /\ Sound(view, froms, L, ev, Reported)
      /\ Fronts(list, Batched, froms, ev, rest, L)
  BY DEF Track
<1>5. Fronts(l2, Batched, froms, m, r, L)
  BY <1>1, <1>2, <1>4, EntersFronts
<1>6. Sound(view, froms, L \cup {x}, m, R)
  <2> HIDE DEF Track
  <2> QED BY <1>1, <1>2, <1>4, EntersSound
<1>7. \/ hits = {} /\ CheckEvents(t, l2, m, events_number + 1)
      \/ hits # {} /\ CheckEvents(t, list \ {hit}, after, events_number - 1)
  BY DEF DoEventMerge
<1>8. Kinds(L \cup {x}, m) /\ Halves(froms, L \cup {x}, m)
      /\ Floor(Settled(view, froms), L \cup {x}, m, R)
  BY <1>6 DEF Sound, Worth
<1>9. CASE hits = {}
  <2>1. \A i \in list : ~ Merges(m[i], m[x])
    BY <1>2, <1>9
  <2>2. Fronts(l2, Batched, froms, m, r, L \cup {x})
    BY <1>3, <1>5, <1>8, <2>1, NoHit
  <2>3. L \cup {x} = l2 \cup Batched
    OBVIOUS
  <2>4. CheckEvents(t, l2, m, events_number + 1)
    BY <1>7, <1>9
  <2>5. Sound(view, froms, l2 \cup Batched, m, R)
        /\ Fronts(l2, Batched, froms, m, r, l2 \cup Batched)
    BY <1>6, <2>2, <2>3
  <2> HIDE DEF l2, L, hits
  <2>6. Onward(view, froms, r, l2 \cup Batched, m, R)
    BY <1>1, <1>2, <2>4, <2>5, CheckTrack
  <2> QED BY <2>3, <2>6 DEF Onward, Merged, L
<1>10. CASE hits # {}
  <2>1. hit \in list /\ Merges(m[hit], m[x]) /\ \A i \in list : Merges(m[i], m[x]) => i <= hit
    <3>1. hits \subseteq EventId
      BY <1>1
    <3>2. hit \in hits /\ \A i \in hits : i <= hit
      <4> HIDE DEF hits
      <4> QED BY <1>10, <3>1, MaxExists
    <3> HIDE DEF hit
    <3> QED BY <3>2, <1>2
  <2>2. CheckEvents(t, list \ {hit}, after, events_number - 1)
    BY <1>7, <1>10
  <2>3. after = Freed(Retagged(m, Retag(m[hit], m[x])), {hit, x})
    BY <1>2
  <2> HIDE DEF hit, hits, after
  <2>4. Undoes(L \cup {x}, m, hit, x)
    BY <1>3, <1>5, <1>8, <2>1, HitUndone
  <2>5. Good(list \ {hit}, after, Batched, r, x, k)
    BY <1>2, <2>1, <2>3, Absorbed
  <2>6. Absorbs(m, after, hit, x)
    <3> DEFINE rt == Retag(m[hit], m[x])
    <3>1. after \in [EventId -> Event]
      BY <2>5 DEF Good, Typed
    <3>2. \A i \in EventId : after[i] = IF i \in {hit, x} THEN Free
                                        ELSE IF i = rt.of THEN [m[i] EXCEPT !.act = rt.as, !.cookie = 0]
                                        ELSE m[i]
      BY <2>3 DEF Freed, Retagged
    <3> HIDE DEF rt
    <3>3. ASSUME NEW i \in EventId \ {hit, x}
          PROVE  /\ IF i = rt.of THEN after[i].act = rt.as /\ after[i].cookie = 0
                                 ELSE after[i] = m[i]
                 /\ after[i].path = m[i].path /\ after[i].pair = m[i].pair
      <4>1. m[i] \in Event
        BY <1>2
      <4>2. CASE i = rt.of
        <5>1. after[i] = [m[i] EXCEPT !.act = rt.as, !.cookie = 0]
          BY <3>2, <4>2
        <5> QED BY <4>1, <4>2, <5>1 DEF Event
      <4>3. CASE i # rt.of
        BY <3>2, <4>3
      <4> QED BY <4>2, <4>3
    <3>4. after[hit] = Free /\ after[x] = Free
      BY <1>1, <1>2, <2>1, <3>2
    <3>5. m[x].act # "rename_to" => m[x].pair = Null
      BY <1>2
    <3>6. Absorbing(m, after, hit, x)
      BY <2>1, <3>1, <3>3, <3>4, <3>5 DEF Absorbing, rt
    <3> QED BY <3>3, <3>6 DEF Absorbs
  <2>7. Cuts(list, Batched, m, after, hit, x)
    <3>1. m[hit].path = m[x].path
      BY <2>1 DEF Merges
    <3> QED BY <1>2, <1>3, <1>5, <1>8, <2>1, <2>6, <3>1, AbsorbCuts
  <2>8. Sound(view, froms, (list \ {hit}) \cup Batched, after, R)
    BY <1>3, <1>6, <2>1, <2>4, <2>7, CutSound
  <2>9. Fronts(list \ {hit}, Batched, froms, after, r, (list \ {hit}) \cup Batched)
    <3>1. Pairs(list \ {hit}, after)
      BY <2>5 DEF Good
    <3> QED BY <1>2, <1>3, <1>5, <1>6, <2>1, <2>7, <3>1, CutFronts
  <2>10. Onward(view, froms, r, (list \ {hit}) \cup Batched, after, R)
    BY <1>1, <2>2, <2>5, <2>8, <2>9, CheckTrack
  <2>11. \A i \in (list \ {hit}) \cup Batched :
           /\ i \in L
           /\ after[i].path = m[i].path /\ (after[i].cookie = m[i].cookie \/ after[i].cookie = 0)
    <3> SUFFICES ASSUME NEW i \in (list \ {hit}) \cup Batched
                 PROVE  /\ i \in L
                        /\ after[i].path = m[i].path
                        /\ after[i].cookie = m[i].cookie \/ after[i].cookie = 0
      OBVIOUS
    <3>1. i \in L \ {hit}
      BY <1>1, <2>1
    <3> QED BY <2>7, <3>1 DEF Cuts, Retagging
  <2> HIDE DEF L
  <2> QED BY <2>10, <2>11 DEF Onward, Merged, L
<1> QED BY <1>7, <1>9, <1>10

-----------------------------------------------------------------------------
(* The operations                                                          *)

(* A thread that has submitted the first half of a rename has a cookie.    *)
LEMMA RestCookies ==
  ASSUME MonitorInv, Locks
  PROVE  \A u \in Thread : /\ rest[u].cookie # 0 => rest[u] # Done
                           /\ rest[u].act = "rename_to" <=> rest[u].cookie # 0
                           /\ rest[u].cookie <= cookie
<1>1. Pending(list, ev, Batched, rest, cookie)
  BY DEF MonitorInv, IInv, Good
<1> QED BY <1>1, DoneEvent DEF Pending, Locks

(* The path of a rename that another thread has still to report, and of    *)
(* its rename_from, is not one of those that a thread may operate on.      *)
LEMMA OthersApart ==
  ASSUME MonitorInv, Locks, NEW u \in Thread, rest[u].cookie # 0, NEW p, p \notin held[u]
  PROVE  /\ rest[u].path # p
         /\ \A i \in list \cup Batched : ev[i].cookie = rest[u].cookie => ev[i].path # p
BY RestCookies DEF Locks

(* What a step of thread t that holds the paths ps leaves of the locks.    *)
LEMMA LocksAfter ==
  ASSUME MonitorInv, Locks, NEW t \in Thread, NEW ps, ps \subseteq Path,
         \A u \in Thread \ {t} : held[u] \cap ps = {}, Locking(t, ps),
         rest' \in [Thread -> Event], \A u \in Thread \ {t} : rest'[u] = rest[u],
         \A p \in fs \ ps : p \in fs',
         NEW x, \A i \in list' \cup Batched' :
           \/ i = x /\ \A u \in Thread \ {t} : rest[u].cookie # 0 => ev'[i].cookie # rest[u].cookie
           \/ /\ i \in list \cup Batched /\ ev'[i].path = ev[i].path
              /\ ev'[i].cookie = ev[i].cookie \/ ev'[i].cookie = 0,
         rest'[t] # Done =>
           /\ rest'[t].act = "new" => MayDuplicate
           /\ rest'[t].path \in ps \cap fs'
           /\ rest'[t].cookie # 0 =>
                \A i \in list' \cup Batched' : ev'[i].cookie = rest'[t].cookie => ev'[i].path \in ps,
         quit' => \A u \in Thread : rest'[u] = Done
  PROVE  Locks'
<1>1. /\ held \in [Thread -> SUBSET Path]
      /\ held' = [held EXCEPT ![t] = IF pc'[t] = "idle" /\ rest'[t] = Done THEN {} ELSE ps]
  BY DEF MonitorInv, Locking
<1>2. /\ \A u \in Thread \ {t} : held'[u] = held[u]
      /\ held'[t] = {} \/ held'[t] = ps
      /\ rest'[t] # Done => held'[t] = ps
  BY <1>1
<1>3. \A u, w \in Thread : u # w => held'[u] \cap held'[w] = {}
  BY <1>2 DEF Locks
<1>4. ASSUME NEW u \in Thread, rest'[u] # Done
      PROVE  /\ rest'[u].act = "new" => MayDuplicate
             /\ rest'[u].path \in held'[u] \cap fs'
             /\ rest'[u].cookie # 0 =>
                  \A i \in list' \cup Batched' :
                    ev'[i].cookie = rest'[u].cookie => ev'[i].path \in held'[u]
  <2>1. CASE u = t
    BY <1>2, <1>4, <2>1
  <2>2. CASE u # t
    <3>1. rest'[u] = rest[u] /\ held'[u] = held[u] /\ rest[u] # Done
      BY <1>2, <1>4, <2>2
    <3>2. /\ rest[u].act = "new" => MayDuplicate
          /\ rest[u].path \in held[u] \cap fs
          /\ rest[u].cookie # 0 =>
               \A i \in list \cup Batched : ev[i].cookie = rest[u].cookie => ev[i].path \in held[u]
      BY <3>1 DEF Locks
    <3>3. rest[u].path \in fs'
      BY <3>2, <2>2
    <3>4. ASSUME rest[u].cookie # 0, NEW i \in list' \cup Batched', ev'[i].cookie = rest[u].cookie
          PROVE  ev'[i].path \in held[u]
      BY <3>2, <3>4, <2>2
    <3> QED BY <3>1, <3>2, <3>3, <3>4
  <2> QED BY <2>1, <2>2
<1> QED BY <1>3, <1>4 DEF Locks

(* Entering an event that is no half of a rename.                          *)
LEMMA PlainEnters ==
  ASSUME MonitorInv, Track, NEW x, x = alloc + 1, NEW cur, NEW m, NEW k,
         Entered(x, cur, m, rest, k),
         cur.act \in {"new", "delete"}, cur.cookie = 0,
         \A u \in Thread : rest[u].cookie # 0 => cur.path \notin held[u]
  PROVE  Enters(list, Batched, froms, ev, rest, x, m, rest)
<1>0. m[x] = cur
  BY DEF Entered
<1>1. \A i \in list \cup Batched :
        /\ i < x /\ m[i].act = ev[i].act /\ m[i].path = ev[i].path /\ m[i].cookie = ev[i].cookie
        /\ m[i].pair = ev[i].pair \/ ev[i].act = "rename_from"
  <2>1. \A i \in list \cup Batched : i <= alloc /\ i \in Nat
    BY Assumptions DEF MonitorInv, IInv, Good, Owned, Typed, EventId
  <2>2. alloc \in Nat
    BY DEF MonitorInv, IInv, Good, Typed
  <2>3. \A i \in list \cup Batched : i < x
    BY <2>1, <2>2
  <2> QED BY <2>3 DEF Entered, Agree
<1>2. \A u \in Thread : rest[u].cookie # 0 =>
        /\ m[x].cookie # rest[u].cookie /\ m[x].path # rest[u].path
        /\ \A i \in list \cup Batched : ev[i].cookie = rest[u].cookie => ev[i].path # m[x].path
  BY <1>0, OthersApart DEF Track
<1> QED BY <1>0, <1>1, <1>2 DEF Enters

(* Fronts looks at the cookies that are still to be submitted.             *)
LEMMA FrontsRest ==
  ASSUME NEW l, NEW o, NEW f, NEW m, NEW r, NEW r2, NEW K, Fronts(l, o, f, m, r, K),
         \A u \in Thread : r2[u].cookie = r[u].cookie /\ (r[u].cookie # 0 => r2[u] = r[u])
  PROVE  Fronts(l, o, f, m, r2, K)
<1>1. Halved(l \cup o, m, r2)
  BY DEF Fronts, Halved
<1>2. Waits(l, l \cup o, f, m, r2)
  <2> SUFFICES ASSUME NEW t \in Thread, r2[t].cookie # 0
               PROVE  /\ \A x \in f : x[1] # r2[t].cookie
                      /\ \A i \in l \cup o : m[i].cookie = r2[t].cookie =>
                           /\ i \in l /\ m[i].path # r2[t].path /\ Newest(l \cup o, m, i)
                           /\ \A k \in l \cup o : m[k].path = r2[t].path => k < i
    BY DEF Waits
  <2>1. r2[t] = r[t] /\ r[t].cookie # 0
    OBVIOUS
  <2>2. Waits(l, l \cup o, f, m, r)
    BY DEF Fronts
  <2>3. /\ \A x \in f : x[1] # r[t].cookie
        /\ \A i \in l \cup o : m[i].cookie = r[t].cookie =>
             /\ i \in l /\ m[i].path # r[t].path /\ Newest(l \cup o, m, i)
             /\ \A k \in l \cup o : m[k].path = r[t].path => k < i
    BY <2>1, <2>2 DEF Waits
  <2> QED BY <2>1, <2>3
<1> QED BY <1>1, <1>2 DEF Fronts

(* A creation, reported once or twice, or a removal.                       *)
LEMMA PlainTrack ==
  ASSUME MonitorInv, MonitorInv', Track,
         NEW t \in Thread, NEW act \in {"new", "delete"}, NEW p \in Path,
         Submit(t, act, p) \/ (act = "new" /\ MayDuplicate /\ SubmitTwice(t, p)),
         Unlocked(t, {p}), Locking(t, {p}), UNCHANGED <<view, froms>>,
         \/ act = "new" /\ p \notin fs /\ fs' = fs \cup {p}
         \/ act = "delete" /\ p \in fs /\ fs' = fs \ {p}
  PROVE  Track'
<1> DEFINE x == alloc + 1
           cur == Incoming(act, p, 0)
           m == Linked(x, cur)
<1>1. /\ pc[t] = "idle" /\ rest[t] = Done /\ ~ quit /\ DoEventMerge(t, act, p, 0)
      /\ UNCHANGED <<quit, cookie>> /\ alloc < MaxEvent
      /\ \/ rest' = rest
         \/ act = "new" /\ MayDuplicate /\ rest' = [rest EXCEPT ![t] = Fresh("new", p, 0)]
  BY DEF Submit, SubmitTwice, Ready, DoEventMerge
<1>2. /\ IInv /\ Locks /\ list \in SUBSET EventId
      /\ rest \in [Thread -> Event] /\ rest' \in [Thread -> Event]
  BY DEF MonitorInv, IInv, Good, Typed, Track
<1>12. /\ \A u \in Thread \ {t} : rest'[u] = rest[u]
       /\ rest[t].cookie = 0 /\ rest[t].act # "rename_to"
       /\ rest'[t].cookie = 0 /\ rest'[t].act # "rename_to"
       /\ rest'[t] # Done => MayDuplicate /\ act = "new" /\ rest'[t].path = p
  <2>1. LET e == Fresh("new", p, 0) IN e.cookie = 0 /\ e.act = "new" /\ e.path = p
    BY FreshEvent DEF Action
  <2> QED BY <1>1, <1>2, <2>1, DoneEvent
<1>3. Entered(x, cur, m, rest, cookie) /\ cur.act = act /\ cur.cookie = 0
  BY <1>1, <1>2, EnterPlain
<1>4. cur.path = p
  BY <1>2, IncomingPath DEF Action
<1>5. \A u \in Thread : rest[u].cookie # 0 => p \notin held[u]
  BY <1>1, DoneEvent DEF Unlocked
<1>6. \A u \in Thread : rest[u].act = "rename_to" => rest[u].path # p
  BY <1>2, <1>5, OthersApart, RestCookies
<1> HIDE DEF cur, m, x
<1>7. Enters(list, Batched, froms, ev, rest, x, m, rest)
  BY <1>3, <1>4, <1>5, PlainEnters DEF x
<1>8. /\ p \in Reported <=> p \in fs
      /\ p \in Reported' <=> act = "new"
      /\ \A q \in Path : q # p => (q \in Reported' <=> q \in Reported)
  BY <1>1, <1>6, <1>12 DEF Reported
<1>9. Turns(cur, Reported, Reported') /\ cur.path \in Path
  BY <1>3, <1>4, <1>8 DEF Creates, Turns
<1>10. Merged(rest, x, m, Reported')
  BY <1>1, <1>3, <1>7, <1>9, MergeTrack DEF x, cur, m
<1>13. Fronts(list', Batched', froms, ev', rest', list' \cup Batched')
  BY <1>10, <1>12, FrontsRest DEF Merged
<1>11. Locks'
  <2>1. \A i \in list' \cup Batched' :
           \/ i = x /\ \A u \in Thread \ {t} : rest[u].cookie # 0 => ev'[i].cookie # rest[u].cookie
           \/ /\ i \in list \cup Batched /\ ev'[i].path = ev[i].path
              /\ ev'[i].cookie = ev[i].cookie \/ ev'[i].cookie = 0
    <3> SUFFICES ASSUME NEW i \in list' \cup Batched'
                 PROVE  \/ i = x /\ \A u \in Thread : rest[u].cookie # 0 => ev'[i].cookie # rest[u].cookie
                        \/ /\ i \in list \cup Batched /\ ev'[i].path = ev[i].path
                           /\ ev'[i].cookie = ev[i].cookie \/ ev'[i].cookie = 0
      OBVIOUS
    <3>1. /\ i \in (list \cup Batched) \cup {x}
          /\ ev'[i].path = m[i].path /\ (ev'[i].cookie = m[i].cookie \/ ev'[i].cookie = 0)
      BY <1>10 DEF Merged
    <3>2. CASE i = x
      BY <3>1, <3>2, <1>2, <1>3, RestCookies DEF Entered
    <3>3. CASE i \in list \cup Batched
      BY <3>1, <3>3, <1>7 DEF Enters
    <3> QED BY <3>1, <3>2, <3>3
  <2>2. {p} \in SUBSET Path /\ \A u \in Thread \ {t} : held[u] \cap {p} = {}
    BY DEF Unlocked
  <2>3. \A q \in fs \ {p} : q \in fs'
    OBVIOUS
  <2>4. /\ ~ quit'
        /\ rest'[t] # Done =>
             MayDuplicate /\ rest'[t].path \in {p} \cap fs' /\ rest'[t].cookie = 0
    BY <1>1, <1>12
  <2> QED BY <1>2, <1>12, <2>1, <2>2, <2>3, <2>4, LocksAfter
<1> QED BY <1>1, <1>10, <1>11, <1>13 DEF Track, Merged

(* The addresses below x, once x has been entered.                         *)
LEMMA EnteredFrame ==
  ASSUME MonitorInv, NEW x, x = alloc + 1, NEW cur, NEW m, NEW r, NEW k, Entered(x, cur, m, r, k)
  PROVE  \A i \in list \cup Batched :
           /\ i < x /\ m[i].act = ev[i].act /\ m[i].path = ev[i].path /\ m[i].cookie = ev[i].cookie
           /\ m[i].pair = ev[i].pair \/ ev[i].act = "rename_from"
<1>1. \A i \in list \cup Batched : i <= alloc /\ i \in Nat
  BY Assumptions DEF MonitorInv, IInv, Good, Owned, Typed, EventId
<1>2. alloc \in Nat
  BY DEF MonitorInv, IInv, Good, Typed
<1>3. \A i \in list \cup Batched : i < x
  BY <1>1, <1>2
<1> QED BY <1>3 DEF Entered, Agree

(* No event, source or rest has the next cookie.                           *)
LEMMA NewCookie ==
  ASSUME MonitorInv, Track
  PROVE  /\ \A i \in list \cup Batched : ev[i].cookie # cookie + 1
         /\ \A y \in froms : y[1] # cookie + 1
         /\ \A u \in Thread : rest[u].cookie # cookie + 1
         /\ cookie \in Nat /\ cookie + 1 # 0
<1>1. cookie \in Nat /\ \A i \in list \cup Batched : ev[i].cookie <= cookie
  BY DEF MonitorInv, IInv, Good, Typed, Cookies
<1>2. \A i \in list \cup Batched : ev[i].cookie \in Nat
  <2>1. \A i \in list \cup Batched : ev[i] \in Event
    BY DEF MonitorInv, IInv, Good, Typed
  <2> QED BY <2>1, EventFields
<1>3. \A u \in Thread : rest[u].cookie \in Nat /\ rest[u].cookie <= cookie
  BY EventFields DEF MonitorInv, IInv, Good, Typed, Pending
<1>4. \A i \in list \cup Batched : ev[i].cookie # cookie + 1
  BY <1>1, <1>2
<1>5. \A y \in froms : \E j \in list \cup Batched : ev[j].cookie = y[1]
  BY DEF Track, Sound, Sources
<1> QED BY <1>1, <1>3, <1>4, <1>5

LEMMA FromEnters ==
  ASSUME MonitorInv, Track, NEW t \in Thread, rest[t] = Done, NEW x, x = alloc + 1,
         NEW cur, NEW m, NEW r, NEW q, Entered(x, cur, m, r, cookie + 1),
         cur.act = "rename_from", cur.cookie = cookie + 1, cur.path # q,
         r[t].cookie = cookie + 1, r[t].path = q, \A u \in Thread \ {t} : r[u] = rest[u],
         \A u \in Thread : rest[u].cookie # 0 => cur.path \notin held[u]
  PROVE  Enters(list, Batched, froms, ev, rest, x, m, r)
<1>0. m[x] = cur /\ rest[t].cookie = 0
  BY DoneEvent DEF Entered
<1>1. \A u \in Thread \ {t} : rest[u].cookie # 0 =>
        /\ m[x].cookie # rest[u].cookie /\ m[x].path # rest[u].path
        /\ \A i \in list \cup Batched : ev[i].cookie = rest[u].cookie => ev[i].path # m[x].path
  BY <1>0, OthersApart, NewCookie DEF Track
<1>2. \A u \in Thread : r[u].cookie # 0 =>
        \/ /\ m[x].cookie # r[u].cookie /\ r[u] = rest[u] /\ m[x].path # rest[u].path
           /\ \A i \in list \cup Batched : ev[i].cookie = rest[u].cookie => ev[i].path # m[x].path
        \/ /\ m[x].act = "rename_from" /\ m[x].cookie = r[u].cookie
           /\ m[x].path # r[u].path
  BY <1>0, <1>1
<1>3. \A u \in Thread : rest[u].cookie # 0 => r[u].cookie = rest[u].cookie
  BY <1>0
<1> QED BY <1>0, <1>2, <1>3, EnteredFrame, NewCookie DEF Enters

(* What the locks need to know of the events after the step.               *)
LEMMA MergedEvents ==
  ASSUME NEW r, NEW x, NEW m, NEW R, Merged(r, x, m, R),
         \A i \in list \cup Batched : m[i].path = ev[i].path /\ m[i].cookie = ev[i].cookie,
         NEW i \in list' \cup Batched'
  PROVE  \/ i = x /\ ev'[i].path = m[x].path /\ (ev'[i].cookie = m[x].cookie \/ ev'[i].cookie = 0)
         \/ /\ i \in list \cup Batched /\ ev'[i].path = ev[i].path
            /\ ev'[i].cookie = ev[i].cookie \/ ev'[i].cookie = 0
BY DEF Merged

LEMMA RenameTrack ==
  ASSUME MonitorInv, MonitorInv', Track,
         NEW t \in Thread, NEW p \in Path, NEW q \in Path, Rename(t, p, q)
  PROVE  Track'
<1> DEFINE x == alloc + 1
           c == cookie + 1
           e == Fresh("rename_to", q, c)
           cur == Incoming("rename_from", p, c)
           m == Linked(x, cur)
           r == [rest EXCEPT ![t] = e]
<1>1. /\ pc[t] = "idle" /\ rest[t] = Done /\ ~ quit /\ DoEventMerge(t, "rename_from", p, c)
      /\ quit' = quit /\ rest' = r /\ alloc < MaxEvent
      /\ p \in fs /\ p # q /\ (q \in fs => MayOverwrite) /\ fs' = (fs \ {p}) \cup {q}
      /\ Unlocked(t, {p, q}) /\ Locking(t, {p, q}) /\ UNCHANGED <<view, froms>>
  BY DEF Rename, SubmitRename, Ready, DoEventMerge
<1>2. /\ IInv /\ Locks /\ list \in SUBSET EventId /\ rest \in [Thread -> Event]
      /\ rest' \in [Thread -> Event] /\ c \in Nat /\ c # 0
  BY NewCookie DEF MonitorInv, IInv, Good, Typed, Track
<1>3. Entered(x, cur, m, r, c) /\ cur.act = "rename_from" /\ cur.cookie = c
  BY <1>1, <1>2, EnterFrom
<1>4. cur.path = p
  BY <1>2, IncomingPath DEF Action
<1>5. e.act = "rename_to" /\ e.path = q /\ e.cookie = c
  BY <1>2, FreshEvent DEF Action
<1>6. r[t] = e /\ \A u \in Thread \ {t} : r[u] = rest[u]
  BY <1>2
<1>7. \A u \in Thread : rest[u].cookie # 0 => p \notin held[u] /\ q \notin held[u]
  BY <1>1, DoneEvent DEF Unlocked
<1>8. \A u \in Thread : rest[u].act = "rename_to" => rest[u].path # p /\ rest[u].path # q
  BY <1>2, <1>7, OthersApart, RestCookies
<1> HIDE DEF cur, m, x, r, e
<1>9. Enters(list, Batched, froms, ev, rest, x, m, r)
  <2>1. r[t].cookie = cookie + 1 /\ r[t].path = q /\ cur.path # q
    BY <1>1, <1>4, <1>5, <1>6
  <2> QED BY <1>1, <1>3, <1>4, <1>6, <1>7, <2>1, FromEnters DEF x
<1>10. /\ p \in Reported /\ p \notin Reported'
       /\ q \notin Reported' /\ (q \in Reported => MayOverwrite)
       /\ \A a \in Path \ {p, q} : a \in Reported' <=> a \in Reported
  <2>1. \A a \in fs \ {p, q} : a \in Reported' <=> a \in Reported
    <3> SUFFICES ASSUME NEW a \in fs \ {p, q} PROVE a \in Reported' <=> a \in Reported
      OBVIOUS
    <3>1. a # q /\ a \in fs'
      BY <1>1
    <3>2. rest[t].act # "rename_to"
      BY <1>1, DoneEvent
    <3> QED BY <1>1, <1>5, <1>6, <3>1, <3>2 DEF Reported
  <2>2. q \notin Reported'
    BY <1>1, <1>5, <1>6 DEF Reported
  <2> QED BY <1>1, <1>8, <2>1, <2>2 DEF Reported
<1>11. Turns(cur, Reported, Reported') /\ cur.path \in Path
  BY <1>3, <1>4, <1>10 DEF Creates, Turns, Exact
<1>12. Merged(r, x, m, Reported')
  BY <1>1, <1>3, <1>9, <1>11, MergeTrack DEF x, cur, m
<1>13. Locks'
  <2>1. m[x] = cur /\ \A i \in list \cup Batched : m[i].path = ev[i].path /\ m[i].cookie = ev[i].cookie
    BY <1>3, EnteredFrame DEF Entered, x
  <2>2. \A i \in list' \cup Batched' :
           \/ i = x /\ \A u \in Thread \ {t} : rest[u].cookie # 0 => ev'[i].cookie # rest[u].cookie
           \/ /\ i \in list \cup Batched /\ ev'[i].path = ev[i].path
              /\ ev'[i].cookie = ev[i].cookie \/ ev'[i].cookie = 0
    BY <1>2, <1>3, <1>12, <2>1, MergedEvents, RestCookies, NewCookie
  <2>3. \A i \in list' \cup Batched' : ev'[i].cookie = c => ev'[i].path \in {p, q}
    BY <1>2, <1>3, <1>4, <1>12, <2>1, MergedEvents, NewCookie
  <2>4. {p, q} \in SUBSET Path /\ \A u \in Thread \ {t} : held[u] \cap {p, q} = {}
    BY <1>1 DEF Unlocked
  <2>5. \A a \in fs \ {p, q} : a \in fs'
    BY <1>1
  <2>6. /\ rest'[t].act = "rename_to" /\ rest'[t].path \in {p, q} \cap fs' /\ rest'[t].cookie = c
        /\ ~ quit' /\ \A u \in Thread \ {t} : rest'[u] = rest[u]
    BY <1>1, <1>5, <1>6
  <2>7. /\ rest'[t].act # "new" /\ rest'[t].path \in {p, q} \cap fs'
        /\ \A i \in list' \cup Batched' :
             ev'[i].cookie = rest'[t].cookie => ev'[i].path \in {p, q}
    BY <2>3, <2>6
  <2> DEFINE ps == {p, q}
  <2>8. /\ ps \subseteq Path /\ (\A u \in Thread \ {t} : held[u] \cap ps = {}) /\ Locking(t, ps)
        /\ \A a \in fs \ ps : a \in fs'
    BY <1>1, <2>4, <2>5
  <2>9. rest'[t] # Done =>
          /\ rest'[t].act = "new" => MayDuplicate
          /\ rest'[t].path \in ps \cap fs'
          /\ rest'[t].cookie # 0 =>
               \A i \in list' \cup Batched' : ev'[i].cookie = rest'[t].cookie => ev'[i].path \in ps
    BY <2>7
  <2>10. rest' \in [Thread -> Event] /\ (\A u \in Thread \ {t} : rest'[u] = rest[u])
         /\ (quit' => \A u \in Thread : rest'[u] = Done)
    BY <1>2, <2>6
  <2> HIDE DEF ps
  <2> QED BY <1>2, <2>2, <2>8, <2>9, <2>10, LocksAfter
<1> QED BY <1>1, <1>12, <1>13 DEF Track, Merged

LEMMA RestEnters ==
  ASSUME MonitorInv, Track, NEW t \in Thread, rest[t] # Done, NEW x, x = alloc + 1,
         NEW cur, NEW m, NEW r, Entered(x, cur, m, r, cookie), cur.path = rest[t].path,
         \/ /\ cur.act = "new" /\ cur.cookie = 0
            /\ rest[t].cookie # 0 => \A i \in list : ev[i].cookie # rest[t].cookie
         \/ /\ cur.act = "rename_to" /\ cur.cookie = rest[t].cookie
            /\ rest[t].act = "rename_to"
            /\ cur.pair \in list /\ ev[cur.pair].cookie = cur.cookie,
         r[t].cookie = 0, \A u \in Thread \ {t} : r[u] = rest[u]
  PROVE  Enters(list, Batched, froms, ev, rest, x, m, r)
<1>0. m[x] = cur /\ (rest[t].act = "rename_to" => rest[t].cookie # 0)
  BY RestCookies DEF Entered, Track
<1>1. \A u \in Thread \ {t} : rest[u].cookie # 0 =>
        /\ m[x].cookie # rest[u].cookie /\ m[x].path # rest[u].path
        /\ \A i \in list \cup Batched : ev[i].cookie = rest[u].cookie => ev[i].path # m[x].path
  <2> SUFFICES ASSUME NEW u \in Thread \ {t}, rest[u].cookie # 0
               PROVE  /\ cur.cookie # rest[u].cookie /\ cur.path # rest[u].path
                      /\ \A i \in list \cup Batched : ev[i].cookie = rest[u].cookie => ev[i].path # cur.path
    BY <1>0
  <2>1. cur.path \notin held[u]
    BY DEF Track, Locks
  <2>2. rest[t].cookie # rest[u].cookie
    BY <1>0 DEF MonitorInv, IInv, Good, Pending
  <2> QED BY <2>1, <2>2, OthersApart DEF Track
<1>2. cur.act = "rename_to" =>
        /\ cur.pair \in list /\ m[cur.pair].cookie = cur.cookie /\ ev[cur.pair].act = "rename_from"
        /\ rest[t].cookie = cur.cookie
  <2> SUFFICES ASSUME cur.act = "rename_to"
               PROVE  /\ cur.pair \in list /\ m[cur.pair].cookie = cur.cookie
                      /\ ev[cur.pair].act = "rename_from" /\ rest[t].cookie = cur.cookie
    OBVIOUS
  <2>1. cur.pair \in list /\ ev[cur.pair].cookie = rest[t].cookie /\ rest[t].cookie = cur.cookie
    OBVIOUS
  <2>2. ev[cur.pair].act = "rename_from"
    BY <1>0, <2>1 DEF MonitorInv, IInv, Good, Pending
  <2> QED BY <2>1, <2>2, EnteredFrame
<1>3. cur.act = "new" /\ rest[t].cookie # 0 =>
        \A i \in list \cup Batched : ev[i].cookie # rest[t].cookie
  <2> SUFFICES ASSUME cur.act = "new", rest[t].cookie # 0, NEW i \in list \cup Batched, ev[i].cookie = rest[t].cookie
               PROVE  i \in list
    BY <1>0
  <2> QED BY <1>0 DEF Track, Fronts, Waits
<1>4. \A u \in Thread : r[u].cookie # 0 =>
        /\ m[x].cookie # r[u].cookie /\ r[u] = rest[u] /\ m[x].path # rest[u].path
        /\ \A i \in list \cup Batched : ev[i].cookie = rest[u].cookie => ev[i].path # m[x].path
  BY <1>1
<1>5. \A u \in Thread : rest[u].cookie # 0 =>
        \/ r[u].cookie = rest[u].cookie
        \/ m[x].act = "rename_to" /\ m[x].cookie = rest[u].cookie
        \/ \A i \in list \cup Batched : ev[i].cookie # rest[u].cookie
  <2> SUFFICES ASSUME NEW u \in Thread, rest[u].cookie # 0
               PROVE  \/ r[u].cookie = rest[u].cookie
                      \/ cur.act = "rename_to" /\ cur.cookie = rest[u].cookie
                      \/ \A i \in list \cup Batched : ev[i].cookie # rest[u].cookie
    BY <1>0
  <2>1. CASE u = t
    BY <1>2, <1>3, <2>1
  <2>2. CASE u # t
    BY <2>2
  <2> QED BY <2>1, <2>2
<1> QED BY <1>0, <1>2, <1>4, <1>5, EnteredFrame DEF Enters

LEMMA RestTrack ==
  ASSUME MonitorInv, MonitorInv', Track, NEW t \in Thread, ReportRest(t)
  PROVE  Track'
<1> DEFINE x == alloc + 1
           e == rest[t]
           cur == Incoming(e.act, e.path, e.cookie)
           m == Linked(x, cur)
           r == [rest EXCEPT ![t] = Done]
<1>1. /\ pc[t] = "idle" /\ e # Done /\ DoEventMerge(t, e.act, e.path, e.cookie)
      /\ quit' = quit /\ rest' = r /\ alloc < MaxEvent
      /\ Locking(t, held[t]) /\ UNCHANGED <<fs, view, froms>>
  BY DEF ReportRest, SubmitRest, DoEventMerge
<1>2. /\ IInv /\ Locks /\ list \in SUBSET EventId /\ rest \in [Thread -> Event]
      /\ rest' \in [Thread -> Event] /\ held \in [Thread -> SUBSET Path] /\ e.path \in Path
  BY <1>1 DEF MonitorInv, IInv, Good, Typed, Track, Paths
<1>3. /\ e.act \in {"new", "rename_to"} /\ (e.act = "new" => MayDuplicate)
      /\ e.path \in held[t] \cap fs /\ ~ quit
  BY <1>1, <1>2 DEF Locks, IInv, Good, Pending
<1>4. /\ Entered(x, cur, m, r, cookie)
      /\ \/ /\ cur.act = "new" /\ cur.cookie = 0
            /\ rest[t].cookie # 0 => \A i \in list : ev[i].cookie # rest[t].cookie
         \/ /\ cur.act = "rename_to" /\ cur.cookie = rest[t].cookie
            /\ rest[t].act = "rename_to"
            /\ cur.pair \in list /\ ev[cur.pair].cookie = cur.cookie
  BY <1>1, <1>2, EnterRest
<1>5. cur.path = e.path
  <2>1. e.cookie \in Nat
    BY <1>2 DEF Event
  <2> QED BY <1>2, <1>3, <2>1, IncomingPath DEF Action
<1>6. r[t] = Done /\ \A u \in Thread \ {t} : r[u] = rest[u]
  BY <1>2
<1> HIDE DEF cur, m, x, r
<1>7. Enters(list, Batched, froms, ev, rest, x, m, r)
  <2>1. r[t].cookie = 0 /\ cur.path = rest[t].path /\ rest[t] # Done
    BY <1>1, <1>5, <1>6, DoneEvent
  <2> QED BY <1>4, <1>6, <2>1, RestEnters DEF x
<1>8. /\ e.path \in Reported' /\ (e.path \in Reported => MayDuplicate)
      /\ \A a \in Path : a # e.path => (a \in Reported' <=> a \in Reported)
  <2>1. \A u \in Thread \ {t} : rest[u].act = "rename_to" => rest[u].path # e.path
    <3> SUFFICES ASSUME NEW u \in Thread \ {t}, rest[u].act = "rename_to"
                 PROVE  rest[u].path \in held[u]
      BY <1>2, <1>3 DEF Locks
    <3> QED BY <1>2, RestCookies DEF Locks
  <2>2. Done.act # "rename_to"
    BY DoneEvent
  <2>3. e.path \in Reported => MayDuplicate
    BY <1>3 DEF Reported
  <2>4. e.path \in Reported'
    BY <1>1, <1>3, <1>6, <2>1, <2>2 DEF Reported
  <2>5. ASSUME NEW a \in Path, a # e.path PROVE a \in Reported' <=> a \in Reported
    BY <1>1, <1>6, <2>2, <2>5 DEF Reported
  <2> QED BY <2>3, <2>4, <2>5
<1>9. Turns(cur, Reported, Reported') /\ cur.path \in Path
  BY <1>2, <1>4, <1>5, <1>8 DEF Creates, Turns, Exact
<1>10. Merged(r, x, m, Reported')
  BY <1>1, <1>3, <1>4, <1>7, <1>9, MergeTrack DEF x, cur, m
<1>11. Locks'
  <2>1. m[x] = cur /\ \A i \in list \cup Batched : m[i].path = ev[i].path /\ m[i].cookie = ev[i].cookie
    BY <1>4, EnteredFrame DEF Entered, x
  <2>2. \A u \in Thread \ {t} : rest[u].cookie # 0 => rest[u].cookie # e.cookie
    BY DEF MonitorInv, IInv, Good, Pending
  <2>3. \A i \in list' \cup Batched' :
           \/ i = x /\ \A u \in Thread \ {t} : rest[u].cookie # 0 => ev'[i].cookie # rest[u].cookie
           \/ /\ i \in list \cup Batched /\ ev'[i].path = ev[i].path
              /\ ev'[i].cookie = ev[i].cookie \/ ev'[i].cookie = 0
    BY <1>4, <1>10, <2>1, <2>2, MergedEvents
  <2>4. held[t] \in SUBSET Path /\ \A u \in Thread \ {t} : held[u] \cap held[t] = {}
    BY <1>2 DEF Locks
  <2>5. rest'[t] = Done /\ ~ quit' /\ (\A u \in Thread \ {t} : rest'[u] = rest[u]) /\ fs' = fs
    BY <1>1, <1>3, <1>6
  <2> QED BY <1>1, <1>2, <2>3, <2>4, <2>5, LocksAfter
<1> QED BY <1>1, <1>10, <1>11 DEF Track, Merged

LEMMA OperateTrack ==
  ASSUME MonitorInv, MonitorInv', Track, NEW t \in Thread, Operate(t)
  PROVE  Track'
<1>1. CASE \E p \in Path : Create(t, p)
  <2>1. PICK p \in Path : Create(t, p)
    BY <1>1
  <2>2. /\ Submit(t, "new", p) \/ (MayDuplicate /\ SubmitTwice(t, p))
        /\ Unlocked(t, {p}) /\ Locking(t, {p}) /\ UNCHANGED <<view, froms>>
        /\ p \notin fs /\ fs' = fs \cup {p}
    BY <2>1 DEF Create
  <2> QED BY <2>2, PlainTrack
<1>2. CASE \E p \in Path : Unlink(t, p)
  <2>1. PICK p \in Path : Unlink(t, p)
    BY <1>2
  <2>2. /\ Submit(t, "delete", p) /\ Unlocked(t, {p}) /\ Locking(t, {p}) /\ UNCHANGED <<view, froms>>
        /\ p \in fs /\ fs' = fs \ {p}
    BY <2>1 DEF Unlink
  <2> QED BY <2>2, PlainTrack
<1>3. CASE \E p, q \in Path : Rename(t, p, q)
  BY <1>3, RenameTrack
<1> QED BY <1>1, <1>2, <1>3 DEF Operate

-----------------------------------------------------------------------------
(* The other steps                                                         *)

(* A step that changes no event; a thread may drop its locks.              *)
LEMMA StillTrack ==
  ASSUME Track, UNCHANGED <<ev, list, batch, rest, fs, view, froms>>,
         \A u \in Thread : held'[u] = held[u] \/ (held'[u] = {} /\ rest[u] = Done),
         quit' => \A u \in Thread : rest[u] = Done
  PROVE  Track'
<1>1. Batched' = Batched /\ Reported' = Reported
  BY DEF Batched, Reported
<1>2. Locks'
  BY <1>1 DEF Track, Locks
<1> QED BY <1>1, <1>2 DEF Track

LEMMA EndNotifyTrack ==
  ASSUME MonitorInv, Track, NEW c \in Context, EndNotify(c)
  PROVE  Track'
<1>1. UNCHANGED <<ev, list, batch, rest, fs, view, froms, quit>>
  BY DEF EndNotify, NotifyRead, NotifyRearm, bufferVars
<1>2. \A u \in Thread : held'[u] = held[u] \/ (held'[u] = {} /\ rest[u] = Done)
  BY <1>1 DEF EndNotify, Locking, MonitorInv
<1> QED BY <1>1, <1>2, StillTrack DEF Track, Locks

LEMMA CallbackTrack ==
  ASSUME MonitorInv, Track, Callback
  PROVE  Track'
<1>1. /\ PickEvents(Timer, list, ev, events_number) /\ pc[Timer] = "expired"
      /\ UNCHANGED <<quit, rest, fs, held, view, froms>>
  BY DEF Callback, TimerCallback, monitorVars
<1>2. /\ Good(list, ev, Batched, rest, alloc, cookie) /\ Timer \in Context
      /\ batch \in [Context -> SUBSET EventId] /\ batch[Timer] = {}
      /\ quit => \A u \in Thread : rest[u].cookie = 0
  BY <1>1, DoneEvent DEF MonitorInv, IInv, Arrays, Context, Track, Locks
<1>3. Onward(view, froms, rest, list \cup Batched, ev, Reported)
  BY <1>1, <1>2, PickTrack DEF Track
<1>4. Reported' = Reported
  BY <1>1 DEF Reported
<1>5. Locks'
  BY <1>1, <1>3 DEF Onward, Track, Locks
<1> QED BY <1>1, <1>3, <1>4, <1>5 DEF Onward, Track

LEMMA QuietTrack ==
  ASSUME Track, Expire \/ Unload \/ UNCHANGED allVars
  PROVE  Track'
<1>1. UNCHANGED <<ev, list, batch, rest, fs, held, view, froms>>
  BY DEF Expire, TimerExpire, Unload, Unregister, ClearupSetQuit, SetQuit, ClearupDone,
         CleanupGenl, CleanupCache, allVars, vars, monitorVars, bufferVars
<1>2. quit' => quit \/ \A u \in Thread : rest[u] = Done
  BY DEF Expire, TimerExpire, Unload, Unregister, ClearupSetQuit, SetQuit, ClearupDone,
         CleanupGenl, CleanupCache, allVars, vars, monitorVars, bufferVars, Ready
<1> QED BY <1>1, <1>2, StillTrack DEF Track, Locks

LEMMA NextTrack ==
  ASSUME MonitorInv, MonitorInv', OneSender, Track, [MonitorNext]_allVars
  PROVE  Track'
<1>1. ASSUME NEW t \in Thread, Operate(t) PROVE Track'
  BY <1>1, OperateTrack
<1>2. ASSUME NEW t \in Thread, ReportRest(t) PROVE Track'
  BY <1>2, RestTrack
<1>3. ASSUME NEW c \in Context, Deliver(c) PROVE Track'
  BY <1>3, DeliverTrack
<1>4. ASSUME NEW c \in Context, EndNotify(c) PROVE Track'
  BY <1>4, EndNotifyTrack
<1>5. CASE Callback
  BY <1>5, CallbackTrack
<1>6. CASE Expire \/ Unload \/ UNCHANGED allVars
  BY <1>6, QuietTrack
<1> QED BY <1>1, <1>2, <1>3, <1>4, <1>5, <1>6 DEF MonitorNext

LEMMA InitTrack == MonitorInit => Track
<1> SUFFICES ASSUME MonitorInit PROVE Track
  OBVIOUS
<1>1. /\ list = {} /\ Batched = {} /\ froms = {} /\ view = fs /\ ~ quit
      /\ \A t \in Thread : rest[t] = Done /\ held[t] = {}
  BY DEF MonitorInit, Init, Batched
<1>2. Reported = fs /\ Settled(view, froms) = view
  BY <1>1, DoneEvent DEF Reported, Settled
<1>3. Worth(view, {}, ev, fs)
  BY <1>1 DEF Worth, Floor, Line
<1>4. Sound(view, froms, list \cup Batched, ev, Reported)
  BY <1>1, <1>2, <1>3 DEF Sound, Sources, Halves, Kinds
<1>5. Fronts(list, Batched, froms, ev, rest, list \cup Batched)
  BY <1>1, DoneEvent DEF Fronts, Behind, Unspent, Foremost, Coupled, Halved, Waits
<1>6. Locks
  BY <1>1 DEF Locks
<1> QED BY <1>4, <1>5, <1>6 DEF Track

-----------------------------------------------------------------------------
(* When nothing but the timer sends                                        *)

(* One more event does not bring the buffer to its limit.                  *)
Roomy == events_number + 1 < BufferSize

OnlyTimer == \A t \in Thread : batch[t] = {}

LEMMA MergeKeepsBatch ==
  ASSUME IInv, Roomy, NEW t \in Thread, NEW act, NEW path, NEW c, DoEventMerge(t, act, path, c)
  PROVE  UNCHANGED batch
<1>1. list \in SUBSET EventId /\ events_number = Cardinality(list)
  BY DEF IInv, Good, Typed
<1>2. events_number \in Nat
  BY <1>1, FiniteLists
<1>3. ASSUME NEW l, NEW m, NEW n \in {events_number - 1, events_number + 1}, CheckEvents(t, l, m, n)
      PROVE  UNCHANGED batch
  <2>1. ~ (n >= BufferSize)
    BY <1>2, Assumptions DEF Roomy
  <2> QED BY <1>3, <2>1 DEF CheckEvents, Keep
<1> QED BY <1>3 DEF DoEventMerge

LEMMA NextOnlyTimer ==
  ASSUME MonitorInv, Roomy, OnlyTimer, [MonitorNext]_allVars
  PROVE  OnlyTimer'
<1>0. IInv /\ batch \in [Context -> SUBSET EventId] /\ Thread \subseteq Context
  BY DEF MonitorInv, IInv, Arrays, Context
<1>1. ASSUME NEW t \in Thread, Operate(t) PROVE OnlyTimer'
  <2>1. Handler(t)
    BY <1>1, OperateIsHandler
  <2>2. UNCHANGED batch
    BY <1>0, <2>1, MergeKeepsBatch DEF Handler, Submit, SubmitTwice, SubmitRename
  <2> QED BY <2>2 DEF OnlyTimer
<1>2. ASSUME NEW t \in Thread, ReportRest(t) PROVE OnlyTimer'
  <2>1. UNCHANGED batch
    BY <1>0, <1>2, MergeKeepsBatch DEF ReportRest, SubmitRest
  <2> QED BY <2>1 DEF OnlyTimer
<1>3. ASSUME NEW c \in Context, Deliver(c) PROVE OnlyTimer'
  BY <1>0, <1>3 DEF Deliver, Send, OnlyTimer
<1>4. ASSUME NEW c \in Context, EndNotify(c) PROVE OnlyTimer'
  BY <1>4 DEF EndNotify, NotifyRead, NotifyRearm, OnlyTimer
<1>5. CASE Callback
  <2>1. batch' = [batch EXCEPT ![Timer] = Picked(list, ev)]
    BY <1>5 DEF Callback, TimerCallback, PickEvents
  <2> QED BY <1>0, <2>1, Assumptions DEF OnlyTimer
<1>6. CASE Expire \/ Unload \/ UNCHANGED allVars
  BY <1>6 DEF Expire, TimerExpire, Unload, Unregister, ClearupSetQuit, SetQuit, ClearupDone,
         CleanupGenl, CleanupCache, allVars, vars, OnlyTimer
<1> QED BY <1>1, <1>2, <1>3, <1>4, <1>5, <1>6 DEF MonitorNext

(* As long as the buffer stays below its limit, only the timer callback    *)
(* moves events out of it, and no two contexts send at the same time.      *)
THEOREM RoomMeansOneSender == MonitorSpec /\ []Roomy => []OneSender
<1>1. MonitorInit => MonitorInv /\ OnlyTimer
  BY MonitorInitTypes DEF MonitorInit, Init, OnlyTimer, Context
<1>2. (MonitorInv /\ OnlyTimer) /\ Roomy /\ [MonitorNext]_allVars => (MonitorInv /\ OnlyTimer)'
  BY MonitorNextTypes, NextOnlyTimer
<1>3. OnlyTimer => OneSender
  BY DEF OnlyTimer, OneSender, Context
<1> QED BY <1>1, <1>2, <1>3, PTL DEF MonitorSpec

-----------------------------------------------------------------------------
(* Where no rename replaces a file and no creation is reported twice, and  *)
(* while no two contexts send at the same time, the events on their way    *)
(* are worth what was reported: merging a creation with the removal of the *)
(* same path, taking a rename apart and moving events out of the buffer    *)
(* lose nothing and bring nothing back.                                    *)
THEOREM MergingKeepsEffect ==
  ASSUME ~ MayOverwrite, ~ MayDuplicate
  PROVE  MonitorSpec /\ []OneSender => []NetEffect
<1>1. MonitorInit => MonitorInv /\ Track
  BY MonitorInitTypes, InitTrack
<1>2. (MonitorInv /\ Track) /\ OneSender /\ [MonitorNext]_allVars => (MonitorInv /\ Track)'
  BY MonitorNextTypes, NextTrack
<1>3. MonitorInv /\ Track => NetEffect
  BY TrackNetEffect DEF Exact
<1> QED BY <1>1, <1>2, <1>3, PTL DEF MonitorSpec

(* Under the same conditions the listener's index is the file system       *)
(* whenever everything that was reported has been sent.                    *)
THEOREM IndexConverges ==
  ASSUME ~ MayOverwrite, ~ MayDuplicate
  PROVE  MonitorSpec /\ []OneSender => []Converged
<1>1. MonitorInit => MonitorInv /\ Track
  BY MonitorInitTypes, InitTrack
<1>2. (MonitorInv /\ Track) /\ OneSender /\ [MonitorNext]_allVars => (MonitorInv /\ Track)'
  BY MonitorNextTypes, NextTrack
<1>3. MonitorInv /\ Track => Converged
  BY TrackQuiet DEF Converged, Exact
<1> QED BY <1>1, <1>2, <1>3, PTL DEF MonitorSpec

(* Whatever renames replace and whatever is reported twice, merging never  *)
(* takes the last creation of a path away: while no two contexts send at   *)
(* the same time, every file that exists is in the listener's index        *)
(* whenever everything that was reported has been sent.                    *)
THEOREM NoFileMissing == MonitorSpec /\ []OneSender => []NothingMissing
<1>1. MonitorInit => MonitorInv /\ Track
  BY MonitorInitTypes, InitTrack
<1>2. (MonitorInv /\ Track) /\ OneSender /\ [MonitorNext]_allVars => (MonitorInv /\ Track)'
  BY MonitorNextTypes, NextTrack
<1>3. MonitorInv /\ Track => NothingMissing
  BY TrackQuiet DEF NothingMissing
<1> QED BY <1>1, <1>2, <1>3, PTL DEF MonitorSpec

LEMMA SenderKnowsSource ==
  ASSUME MonitorInv, Track, OneSender
  PROVE  SourceKnown
<1> DEFINE L == list \cup Batched
<1> SUFFICES ASSUME NEW c \in Context, batch[c] # {}, ev[Min(batch[c])].act = "rename_to"
             PROVE  \E y \in froms : y[1] = ev[Min(batch[c])].cookie
  BY DEF SourceKnown
<1> DEFINE x == Min(batch[c])
<1>1. batch[c] \in SUBSET EventId
  BY DEF MonitorInv, IInv, Arrays, Good, Typed
<1>2. x \in batch[c] /\ \A i \in batch[c] : x <= i
  BY <1>1, MinExists
<1> HIDE DEF x
<1>3. x \in L
  BY <1>2 DEF Batched
<1>4. Due(L, ev, x)
  BY <1>2, SenderDue DEF OneSender
<1>5. (\E y \in froms : y[1] = ev[x].cookie) \/ \E i \in L : Mated(ev, i, x)
  BY <1>3 DEF Track, Sound, Halves, x
<1>6. \A i \in L : ~ Mated(ev, i, x)
  BY <1>4 DEF Due, x
<1> QED BY <1>5, <1>6 DEF x

(* Whatever is merged, taken apart and picked, every rename_to that is     *)
(* about to be sent finds its source with the listener, while no two       *)
(* contexts send at the same time.                                         *)
THEOREM SourcesKnown == MonitorSpec /\ []OneSender => []SourceKnown
<1>1. MonitorInit => MonitorInv /\ Track
  BY MonitorInitTypes, InitTrack
<1>2. (MonitorInv /\ Track) /\ OneSender /\ [MonitorNext]_allVars => (MonitorInv /\ Track)'
  BY MonitorNextTypes, NextTrack
<1>3. MonitorInv /\ Track /\ OneSender => SourceKnown
  BY SenderKnowsSource
<1> QED BY <1>1, <1>2, <1>3, PTL DEF MonitorSpec
=============================================================================
