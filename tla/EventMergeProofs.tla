-------------------------- MODULE EventMergeProofs --------------------------
EXTENDS EventMerge, TLAPS, WellFoundedInduction, FiniteSetTheorems

(***************************************************************************)
(* The inductive invariant.  Good relates the values of the variables that *)
(* a locked section changes, so that the lemmas below can speak of the     *)
(* values between its stages: l is the list, m the memory, o the events    *)
(* moved to some array, r the events still to submit, a the number of      *)
(* events that arrived, k the last cookie.                                 *)
(***************************************************************************)
Renames == {"rename_from", "rename_to"}

Typed(l, m, o, r, a, k) ==
  /\ l \in SUBSET EventId /\ o \in SUBSET EventId
  /\ m \in [EventId -> Event] /\ r \in [Thread -> Event]
  /\ a \in 0..MaxEvent /\ k \in Nat

(* Memory holds an event exactly at the addresses in use.                  *)
Owned(l, m, o, a) ==
  /\ l \cap o = {}
  /\ \A i \in EventId : i \notin l \cup o => m[i] = Free
  /\ \A i \in l \cup o : i <= a /\ m[i].act # "free"

(* Exactly the halves of renames carry a cookie, one already given out.    *)
Cookies(l, m, o, k) ==
  \A i \in l \cup o :
    /\ m[i].cookie <= k
    /\ m[i].act \in Renames <=> m[i].cookie # 0

(* Two listed events with one cookie are a rename that is paired.          *)
Mates(l, m) ==
  \A i, j \in l :
    i < j /\ m[i].cookie # 0 /\ m[j].cookie = m[i].cookie =>
      m[i].act = "rename_from" /\ m[j].act = "rename_to" /\ m[i].pair = j /\ m[j].pair = i

(* PairsLive, of these values.                                             *)
Pairs(l, m) ==
  \A i \in l :
    /\ m[i].act = "rename_from" /\ m[i].pair # Null =>
         /\ m[i].pair \in l /\ i < m[i].pair
         /\ m[m[i].pair].act = "rename_to" /\ m[m[i].pair].pair = i
    /\ m[i].act = "rename_to" /\ m[i].pair # Null =>
         /\ m[i].pair \in l /\ m[i].pair < i
         /\ m[m[i].pair].act = "rename_from" /\ m[m[i].pair].pair = i

(* A rename_to still to be submitted has a cookie of its own, which only   *)
(* its rename_from shares, unpaired if it is listed.                       *)
Pending(l, m, o, r, k) ==
  \A t \in Thread :
    /\ r[t] = Done \/ r[t].act \in {"new", "rename_to"}
    /\ r[t].cookie <= k
    /\ r[t].act = "rename_to" <=> r[t].cookie # 0
    /\ r[t].cookie # 0 =>
         /\ \A i \in l : m[i].cookie = r[t].cookie => m[i].act = "rename_from" /\ m[i].pair = Null
         /\ \A i \in o : m[i].cookie = r[t].cookie => m[i].act = "rename_from"
         /\ \A u \in Thread : r[u].cookie = r[t].cookie => u = t

FromFirst(l, m, o) ==
  \A i \in o, j \in l :
    m[i].act = "rename_to" /\ m[j].act = "rename_from" => m[i].cookie # m[j].cookie

(* A listed rename_from that may not be sent yet waits for a rename_to     *)
(* that a thread has still to submit.                                      *)
Awaited(l, m, r) ==
  \A i \in l : ~Sendable(m[i]) =>
    \E t \in Thread : r[t].act = "rename_to" /\ r[t].cookie = m[i].cookie

Good(l, m, o, r, a, k) ==
  /\ Typed(l, m, o, r, a, k)
  /\ Owned(l, m, o, a)
  /\ Cookies(l, m, o, k)
  /\ Mates(l, m)
  /\ Pairs(l, m)
  /\ Pending(l, m, o, r, k)
  /\ FromFirst(l, m, o)
  /\ Awaited(l, m, r)

Arrays ==
  /\ batch \in [Context -> SUBSET EventId]
  /\ \A c, d \in Context : c # d => batch[c] \cap batch[d] = {}
  /\ pc \in [Context -> {"idle", "expired", "notify", "rearm"}]
  /\ \A c \in Context : pc[c] # "notify" => batch[c] = {}

IInv ==
  /\ Good(list, ev, Batched, rest, alloc, cookie)
  /\ events_number = Cardinality(list)
  /\ Arrays
  /\ quit \in BOOLEAN /\ armed \in BOOLEAN

(* Two memories agree on the addresses S.                                  *)
Agree(S, m, n) == \A i \in S : m[i] = n[i]

(* A step leaves the events that contexts are sending as they were in m.   *)
Undisturbed(m) == Agree(Batched, ev', m)

-----------------------------------------------------------------------------
(* The least and the greatest element of a set of addresses.               *)

LEMMA SmallestOf ==
  ASSUME NEW T, T \subseteq Nat, T # {}
  PROVE  \E n \in T : \A m \in T : n <= m
<1>1. PICK n \in T : \A m \in T : ~ (<<m, n>> \in OpToRel(<, Nat))
  <2> DEFINE R == OpToRel(<, Nat)
  <2>1. IsWellFoundedOn(R, Nat)
    BY NatLessThanWellFounded
  <2> HIDE DEF R
  <2>2. \E x \in T : \A y \in T : ~ (<<y, x>> \in R)
    BY <2>1, WFMin
  <2> QED BY <2>2 DEF R
<1>2. \A m \in T : ~(m < n)
  BY <1>1 DEF OpToRel
<1> QED BY <1>2

LEMMA MinExists ==
  ASSUME NEW S, S \subseteq EventId, S # {}
  PROVE  Min(S) \in S /\ \A x \in S : Min(S) <= x
<1>1. S \subseteq Nat
  BY Assumptions DEF EventId
<1>2. \E n \in S : \A m \in S : n <= m
  BY <1>1, SmallestOf
<1>3. QED BY <1>2 DEF Min

LEMMA MaxExists ==
  ASSUME NEW S, S \subseteq EventId, S # {}
  PROVE  Max(S) \in S /\ \A x \in S : x <= Max(S)
<1> DEFINE T == {n \in Nat : \E x \in S : n = MaxEvent - x}
<1>1. \A x \in S : x \in Nat /\ MaxEvent - x \in T
  BY Assumptions DEF EventId
<1>2. T \subseteq Nat /\ T # {}
  BY <1>1
<1>3. \E n \in T : \A m \in T : n <= m
  <2> HIDE DEF T
  <2> QED BY <1>2, SmallestOf
<1>4. PICK n \in T : \A m \in T : n <= m
  BY <1>3
<1>5. PICK x \in S : n = MaxEvent - x
  BY <1>4
<1>6. \A y \in S : x >= y
  BY <1>1, <1>4, <1>5, Assumptions
<1>7. QED BY <1>1, <1>6 DEF Max

-----------------------------------------------------------------------------
(* The stages of a locked section.                                         *)

LEMMA EventFields ==
  ASSUME NEW e \in Event
  PROVE  e.cookie \in Nat /\ e.pair \in EventId \cup {Null} /\ e.act \in Action \cup {"free"}
BY DEF Event

(* Appending an event that is no half of a rename.                         *)
LEMMA AppendPlain ==
  ASSUME NEW l, NEW m, NEW o, NEW r, NEW a, NEW k,
         Good(l, m, o, r, a, k), a < MaxEvent,
         NEW cur \in Event, cur.act \in {"new", "delete", "other"},
         cur.cookie = 0, cur.pair = Null,
         NEW m2 \in [EventId -> Event], m2[a + 1] = cur,
         \A i \in EventId \ {a + 1} : m2[i] = m[i]
  PROVE  Good(l \cup {a + 1}, m2, o, r, a + 1, k)
<1> DEFINE id == a + 1
           l2 == l \cup {id}
<1>1. Typed(l, m, o, r, a, k) /\ Owned(l, m, o, a)
  BY DEF Good
<1>2. id \in EventId /\ id \notin l /\ id \notin o /\ a \in Nat
  BY <1>1, Assumptions DEF Typed, Owned, EventId
<1>3. m2[id] = cur /\ \A i \in l \cup o : i \in EventId /\ i # id /\ m2[i] = m[i]
  BY <1>1, <1>2 DEF Typed
<1>4. Typed(l2, m2, o, r, id, k)
  BY <1>1, <1>2, Assumptions DEF Typed
<1>5. Owned(l2, m2, o, id)
  BY <1>1, <1>2, <1>3 DEF Typed, Owned, EventId
<1> HIDE DEF id
<1>6. Cookies(l2, m2, o, k)
  BY <1>1, <1>3 DEF Typed, Good, Cookies, Renames
<1>7. Mates(l2, m2)
  BY <1>3 DEF Good, Mates
<1>8. Pairs(l2, m2)
  BY <1>3 DEF Good, Pairs
<1>9. Pending(l2, m2, o, r, k)
  BY <1>3 DEF Good, Pending
<1>10. FromFirst(l2, m2, o)
  BY <1>3 DEF Good, FromFirst
<1>11. Awaited(l2, m2, r)
  BY <1>3 DEF Good, Awaited, Sendable
<1> QED BY <1>4, <1>5, <1>6, <1>7, <1>8, <1>9, <1>10, <1>11 DEF Good, id

(* Appending the rename_from of a rename with a new cookie, whose          *)
(* rename_to its thread has still to submit.                               *)
LEMMA AppendFrom ==
  ASSUME NEW l, NEW m, NEW o, NEW r, NEW a, NEW k,
         Good(l, m, o, r, a, k), a < MaxEvent,
         NEW cur \in Event, cur.act = "rename_from",
         cur.cookie = k + 1, cur.pair = Null,
         NEW m2 \in [EventId -> Event], m2[a + 1] = cur,
         \A i \in EventId \ {a + 1} : m2[i] = m[i],
         NEW t \in Thread, r[t] = Done, NEW e \in Event,
         e.act = "rename_to", e.cookie = k + 1
  PROVE  Good(l \cup {a + 1}, m2, o, [r EXCEPT ![t] = e], a + 1, k + 1)
<1> DEFINE id == a + 1
           l2 == l \cup {id}
           r2 == [r EXCEPT ![t] = e]
<1>1. Typed(l, m, o, r, a, k) /\ Owned(l, m, o, a)
  BY DEF Good
<1>2. id \in EventId /\ id \notin l /\ id \notin o /\ a \in Nat /\ k \in Nat
  BY <1>1, Assumptions DEF Typed, Owned, EventId
<1>3. m2[id] = cur /\ \A i \in l \cup o : i \in EventId /\ i # id /\ m2[i] = m[i]
  BY <1>1, <1>2 DEF Typed
<1>4. Typed(l2, m2, o, r2, id, k + 1)
  BY <1>1, <1>2, Assumptions DEF Typed
<1>5. Owned(l2, m2, o, id)
  BY <1>1, <1>2, <1>3 DEF Typed, Owned, EventId
<1>11. \A i \in l \cup o : m2[i].cookie \in Nat /\ m2[i].cookie <= k
  <2> SUFFICES ASSUME NEW i \in l \cup o
               PROVE  m2[i].cookie \in Nat /\ m2[i].cookie <= k
    OBVIOUS
  <2>1. m[i] \in Event
    BY <1>1, <1>3 DEF Typed
  <2> QED BY <2>1, <1>3, EventFields DEF Good, Cookies
<1>12. \A u \in Thread : r[u].cookie \in Nat /\ r[u].cookie <= k
  <2> SUFFICES ASSUME NEW u \in Thread
               PROVE  r[u].cookie \in Nat /\ r[u].cookie <= k
    OBVIOUS
  <2>1. r[u] \in Event
    BY <1>1 DEF Typed
  <2> QED BY <2>1, EventFields DEF Good, Pending
<1>13. r2[t] = e /\ \A u \in Thread : u # t => r2[u] = r[u]
  BY <1>1 DEF Typed
<1> HIDE DEF id, r2
<1>6. Cookies(l2, m2, o, k + 1)
  BY <1>2, <1>3, <1>11 DEF Good, Cookies, Renames
<1>7. Mates(l2, m2)
  <2> SUFFICES ASSUME NEW i \in l2, NEW j \in l2, i < j,
                      m2[i].cookie # 0, m2[j].cookie = m2[i].cookie
               PROVE  /\ m2[i].act = "rename_from" /\ m2[j].act = "rename_to"
                      /\ m2[i].pair = j /\ m2[j].pair = i
    BY DEF Mates
  <2>1. i \in Nat /\ j \in Nat /\ i # j
    BY <1>1, <1>2, Assumptions DEF Typed, EventId
  <2>2. ~(i = id /\ j \in l)
    BY <1>2, <1>3, <1>11
  <2>3. ~(j = id /\ i \in l)
    BY <1>2, <1>3, <1>11
  <2>4. i \in l /\ j \in l
    BY <2>1, <2>2, <2>3
  <2> QED BY <2>4, <1>3 DEF Good, Mates
<1>8. Pairs(l2, m2)
  BY <1>3 DEF Good, Pairs
<1>9. Pending(l2, m2, o, r2, k + 1)
  <2> SUFFICES ASSUME NEW u \in Thread
               PROVE  /\ r2[u] = Done \/ r2[u].act \in {"new", "rename_to"}
                      /\ r2[u].cookie <= k + 1
                      /\ r2[u].act = "rename_to" <=> r2[u].cookie # 0
                      /\ r2[u].cookie # 0 =>
                           /\ \A i \in l2 : m2[i].cookie = r2[u].cookie =>
                                m2[i].act = "rename_from" /\ m2[i].pair = Null
                           /\ \A i \in o : m2[i].cookie = r2[u].cookie => m2[i].act = "rename_from"
                           /\ \A v \in Thread : r2[v].cookie = r2[u].cookie => v = u
    BY DEF Pending
  <2>1. CASE u = t
    BY <2>1, <1>2, <1>3, <1>11, <1>12, <1>13
  <2>2. CASE u # t
    BY <2>2, <1>2, <1>3, <1>11, <1>12, <1>13 DEF Good, Pending
  <2> QED BY <2>1, <2>2
<1>10. FromFirst(l2, m2, o)
  BY <1>2, <1>3, <1>11 DEF Good, FromFirst
<1>14. Awaited(l2, m2, r2)
  <2> SUFFICES ASSUME NEW i \in l2, ~Sendable(m2[i])
               PROVE  \E u \in Thread : r2[u].act = "rename_to" /\ r2[u].cookie = m2[i].cookie
    BY DEF Awaited
  <2>1. CASE i = id
    BY <2>1, <1>3, <1>13
  <2>2. CASE i # id
    <3>1. PICK u \in Thread : r[u].act = "rename_to" /\ r[u].cookie = m[i].cookie
      BY <2>2, <1>3 DEF Good, Awaited
    <3>2. u # t
      BY <3>1 DEF Done, Free
    <3> QED BY <2>2, <3>1, <3>2, <1>3, <1>13
  <2> QED BY <2>1, <2>2
<1> QED BY <1>4, <1>5, <1>6, <1>7, <1>8, <1>9, <1>10, <1>14 DEF Good, id, r2

(* Appending the rename_to that its thread has still to submit, paired     *)
(* with the listed event p that has its cookie.                            *)
LEMMA AppendTo ==
  ASSUME NEW l, NEW m, NEW o, NEW r, NEW a, NEW k,
         Good(l, m, o, r, a, k), a < MaxEvent,
         NEW t \in Thread, r[t].act = "rename_to",
         NEW p \in l, m[p].cookie = r[t].cookie,
         NEW cur \in Event, cur.act = "rename_to",
         cur.cookie = r[t].cookie, cur.pair = p,
         NEW m2 \in [EventId -> Event], m2[a + 1] = cur,
         m2[p].act = m[p].act, m2[p].cookie = m[p].cookie, m2[p].pair = a + 1,
         \A i \in EventId \ {a + 1, p} : m2[i] = m[i],
         NEW e \in Event, e = Done \/ e.act = "new", e.act # "rename_to", e.cookie = 0
  PROVE  Good(l \cup {a + 1}, m2, o, [r EXCEPT ![t] = e], a + 1, k)
<1> DEFINE id == a + 1
           l2 == l \cup {id}
           r2 == [r EXCEPT ![t] = e]
<1>1. Typed(l, m, o, r, a, k) /\ Owned(l, m, o, a)
  BY DEF Good
<1>2. /\ id \in EventId /\ id \notin l /\ id \notin o /\ a \in Nat /\ k \in Nat
      /\ p \in EventId /\ p # id /\ p \notin o /\ id # Null
  BY <1>1, Assumptions DEF Typed, Owned, EventId, Null
<1>3. /\ m2[id] = cur
      /\ \A i \in (l \cup o) \ {p} : i \in EventId /\ i # id /\ m2[i] = m[i]
  BY <1>1, <1>2 DEF Typed
<1>4. m2[p].act = m[p].act /\ m2[p].cookie = m[p].cookie /\ m2[p].pair = id
  OBVIOUS
<1>5. /\ m[p].act = "rename_from" /\ m[p].pair = Null /\ r[t].cookie # 0
      /\ \A i \in l : m[i].cookie = r[t].cookie => i = p
  <2>1. r[t].cookie # 0
    BY DEF Good, Pending
  <2>2. \A i \in l : m[i].cookie = r[t].cookie => m[i].act = "rename_from"
    BY <2>1 DEF Good, Pending
  <2>3. m[p].act = "rename_from" /\ m[p].pair = Null
    BY <2>1 DEF Good, Pending
  <2>4. \A i \in l : i < p \/ p < i \/ i = p
    BY <1>1, Assumptions DEF Typed, EventId
  <2> QED BY <2>1, <2>2, <2>3, <2>4 DEF Good, Mates
<1>6. r2[t] = e /\ \A u \in Thread : u # t => r2[u] = r[u]
  BY <1>1 DEF Typed
<1>7. \A i \in l : i < id
  BY <1>1, Assumptions DEF Typed, Owned, EventId
<1>9. Typed(l2, m2, o, r2, id, k)
  BY <1>1, <1>2, Assumptions DEF Typed
<1>10. Owned(l2, m2, o, id)
  BY <1>1, <1>2, <1>3, <1>4, <1>7 DEF Typed, Owned, EventId
<1>11. \A i \in l2 : i # p /\ i # id => i \in l /\ m2[i] = m[i]
  BY <1>3
<1> HIDE DEF id, r2
<1>12. Cookies(l2, m2, o, k)
  <2>1. r[t].cookie <= k
    BY DEF Good, Pending
  <2> QED BY <2>1, <1>3, <1>4, <1>5 DEF Good, Cookies, Renames
<1>13. Mates(l2, m2)
  <2> SUFFICES ASSUME NEW i \in l2, NEW j \in l2, i < j,
                      m2[i].cookie # 0, m2[j].cookie = m2[i].cookie
               PROVE  /\ m2[i].act = "rename_from" /\ m2[j].act = "rename_to"
                      /\ m2[i].pair = j /\ m2[j].pair = i
    BY DEF Mates
  <2>1. i \in Nat /\ j \in Nat /\ i # j
    BY <1>1, <1>2, Assumptions DEF Typed, EventId
  <2>2. CASE i = p /\ j = id
    BY <2>2, <1>3, <1>4, <1>5
  <2>3. CASE i = id
    BY <2>1, <2>3, <1>2, <1>7 DEF id
  <2>4. CASE i # id /\ ~(i = p /\ j = id)
    <3>1. j # id
      BY <2>4, <1>2, <1>3, <1>4, <1>5, <1>11
    <3>2. i # p /\ j # p
      BY <3>1, <2>1, <2>4, <1>3, <1>4, <1>5, <1>11
    <3> QED BY <3>1, <3>2, <2>4, <1>11 DEF Good, Mates
  <2> QED BY <2>2, <2>3, <2>4
<1>14. Pairs(l2, m2)
  <2> SUFFICES ASSUME NEW i \in l2, m2[i].act \in Renames, m2[i].pair # Null
               PROVE  /\ m2[i].act = "rename_from" =>
                          /\ m2[i].pair \in l2 /\ i < m2[i].pair
                          /\ m2[m2[i].pair].act = "rename_to" /\ m2[m2[i].pair].pair = i
                      /\ m2[i].act = "rename_to" =>
                          /\ m2[i].pair \in l2 /\ m2[i].pair < i
                          /\ m2[m2[i].pair].act = "rename_from" /\ m2[m2[i].pair].pair = i
    BY DEF Pairs, Renames
  <2>1. CASE i = id
    BY <2>1, <1>3, <1>4, <1>5, <1>7
  <2>2. CASE i = p
    BY <2>2, <1>3, <1>4, <1>5, <1>7
  <2>3. CASE i # id /\ i # p
    <3>1. i \in l /\ m2[i] = m[i] /\ m[i].act \in Renames /\ m[i].pair # Null
      BY <2>3, <1>11
    <3>2. m[i].pair \in l /\ m[m[i].pair].pair = i
      BY <3>1 DEF Good, Pairs, Renames
    <3>3. i # Null
      BY <1>1, <3>1, Assumptions DEF Typed, EventId, Null
    <3>4. m[i].pair # p /\ m[i].pair # id
      BY <3>2, <3>3, <1>2, <1>5
    <3>5. m2[m2[i].pair] = m[m[i].pair] /\ m2[i].pair \in l2
      BY <3>1, <3>2, <3>4, <1>11
    <3>6. Pairs(l, m)
      BY DEF Good
    <3> QED BY <3>1, <3>2, <3>5, <3>6 DEF Pairs
  <2> QED BY <2>1, <2>2, <2>3
<1>15. Pending(l2, m2, o, r2, k)
  <2> SUFFICES ASSUME NEW u \in Thread
               PROVE  /\ r2[u] = Done \/ r2[u].act \in {"new", "rename_to"}
                      /\ r2[u].cookie <= k
                      /\ r2[u].act = "rename_to" <=> r2[u].cookie # 0
                      /\ r2[u].cookie # 0 =>
                           /\ \A i \in l2 : m2[i].cookie = r2[u].cookie =>
                                m2[i].act = "rename_from" /\ m2[i].pair = Null
                           /\ \A i \in o : m2[i].cookie = r2[u].cookie => m2[i].act = "rename_from"
                           /\ \A v \in Thread : r2[v].cookie = r2[u].cookie => v = u
    BY DEF Pending
  <2>1. CASE u = t
    BY <2>1, <1>2, <1>6
  <2>2. CASE u # t
    <3>1. r2[u] = r[u]
      BY <2>2, <1>6
    <3>2. r[u].cookie # 0 => r[u].cookie # r[t].cookie
      BY <2>2 DEF Good, Pending
    <3>3. r[u].cookie # 0 => \A i \in l2 : m2[i].cookie = r[u].cookie =>
             i \in l /\ m2[i] = m[i]
      BY <3>2, <1>3, <1>4, <1>11
    <3>4. \A i \in o : m2[i] = m[i]
      BY <1>2, <1>3
    <3>5. \A v \in Thread : r2[v].cookie = r[v].cookie \/ r2[v].cookie = 0
      BY <1>6
    <3>6. Pending(l, m, o, r, k)
      BY DEF Good
    <3> HIDE DEF l2
    <3>7. r[u].cookie # 0 =>
            /\ \A i \in l2 : m2[i].cookie = r[u].cookie =>
                 m2[i].act = "rename_from" /\ m2[i].pair = Null
            /\ \A i \in o : m2[i].cookie = r[u].cookie => m2[i].act = "rename_from"
      BY <3>3, <3>4, <3>6 DEF Pending
    <3>8. r[u].cookie # 0 => \A v \in Thread : r2[v].cookie = r[u].cookie => v = u
      BY <3>5, <3>6 DEF Pending
    <3> QED BY <3>1, <3>6, <3>7, <3>8 DEF Pending
  <2> QED BY <2>1, <2>2
<1>16. FromFirst(l2, m2, o)
  BY <1>2, <1>3, <1>4, <1>5, <1>11 DEF Good, FromFirst
<1>17. Awaited(l2, m2, r2)
  <2> SUFFICES ASSUME NEW i \in l2, ~Sendable(m2[i])
               PROVE  \E u \in Thread : r2[u].act = "rename_to" /\ r2[u].cookie = m2[i].cookie
    BY DEF Awaited
  <2>1. i # id /\ i # p
    BY <1>2, <1>3, <1>4 DEF Sendable
  <2>2. i \in l /\ m2[i] = m[i]
    BY <2>1, <1>11
  <2>3. PICK u \in Thread : r[u].act = "rename_to" /\ r[u].cookie = m[i].cookie
    BY <2>2 DEF Good, Awaited
  <2>4. u # t
    BY <2>1, <2>2, <2>3, <1>5
  <2> QED BY <2>2, <2>3, <2>4, <1>6
<1> QED BY <1>9, <1>10, <1>12, <1>13, <1>14, <1>15, <1>16, <1>17 DEF Good, id, r2

(* m2 is m with the event x, which is not paired, freed ...                *)
Single(m, m2, x) ==
  /\ m[x].act \in Renames => m[x].pair = Null
  /\ m2 \in [EventId -> Event] /\ m2[x] = Free
  /\ \A i \in EventId \ {x} : m2[i] = m[i]

(* ... or with x freed and its other half turned into a new or a delete.   *)
Half(m, m2, x, p) ==
  /\ m[x].act \in Renames /\ p = m[x].pair /\ p # Null
  /\ m2 \in [EventId -> Event] /\ m2[x] = Free
  /\ m2[p].act \in {"new", "delete"} /\ m2[p].cookie = 0
  /\ \A i \in EventId \ {x, p} : m2[i] = m[i]

(* Removing a listed event that is not paired.                             *)
LEMMA Drop ==
  ASSUME NEW l, NEW m, NEW o, NEW r, NEW a, NEW k,
         Good(l, m, o, r, a, k), NEW x \in l, NEW m2, Single(m, m2, x)
  PROVE  Good(l \ {x}, m2, o, r, a, k)
<1> DEFINE l2 == l \ {x}
<1>0. /\ m[x].act \in Renames => m[x].pair = Null
      /\ m2 \in [EventId -> Event] /\ m2[x] = Free
      /\ \A i \in EventId \ {x} : m2[i] = m[i]
  BY DEF Single
<1>1. Typed(l, m, o, r, a, k) /\ Owned(l, m, o, a)
  BY DEF Good
<1>2. \A i \in l2 \cup o : i \in EventId /\ i \in l \cup o /\ i # x /\ m2[i] = m[i]
  BY <1>0, <1>1 DEF Typed, Owned
<1>3. Typed(l2, m2, o, r, a, k) /\ Owned(l2, m2, o, a)
  BY <1>0, <1>1, <1>2 DEF Typed, Owned
<1>4. Cookies(l2, m2, o, k) /\ Mates(l2, m2) /\ FromFirst(l2, m2, o)
  BY <1>2 DEF Good, Cookies, Mates, FromFirst
<1>5. Pending(l2, m2, o, r, k)
  BY <1>2 DEF Good, Pending
<1>6. Pairs(l2, m2)
  <2>1. Pairs(l, m)
    BY DEF Good
  <2>2. \A i \in l2 : m[i].act \in Renames /\ m[i].pair # Null => m[i].pair \in l2
    <3> SUFFICES ASSUME NEW i \in l2, m[i].act \in Renames, m[i].pair # Null
                 PROVE  m[i].pair \in l2
      OBVIOUS
    <3>1. /\ m[i].pair \in l /\ m[m[i].pair].pair = i
          /\ m[m[i].pair].act \in Renames
      BY <2>1 DEF Pairs, Renames
    <3>2. i # Null
      BY <1>2, Assumptions DEF EventId, Null
    <3> QED BY <3>1, <3>2, <1>0
  <2> QED BY <1>2, <2>1, <2>2 DEF Pairs, Renames
<1>7. Awaited(l2, m2, r)
  BY <1>2 DEF Good, Awaited
<1> QED BY <1>3, <1>4, <1>5, <1>6, <1>7 DEF Good

(* Removing one half of a paired rename and turning the other into a new   *)
(* or a delete.                                                            *)
LEMMA DropHalf ==
  ASSUME NEW l, NEW m, NEW o, NEW r, NEW a, NEW k,
         Good(l, m, o, r, a, k),
         NEW x \in l, NEW p, NEW m2, Half(m, m2, x, p)
  PROVE  Good(l \ {x}, m2, o, r, a, k)
<1> DEFINE l2 == l \ {x}
<1>0. /\ m[x].act \in Renames /\ p = m[x].pair /\ p # Null
      /\ m2 \in [EventId -> Event] /\ m2[x] = Free
      /\ m2[p].act \in {"new", "delete"} /\ m2[p].cookie = 0
      /\ \A i \in EventId \ {x, p} : m2[i] = m[i]
  BY DEF Half
<1>1. Typed(l, m, o, r, a, k) /\ Owned(l, m, o, a) /\ Pairs(l, m)
  BY DEF Good
<1>2. p \in l2 /\ p \in EventId /\ m[p].act \in Renames /\ m[p].pair = x /\ p \notin o
  <2>1. p \in l /\ m[p].act \in Renames /\ m[p].pair = x
    BY <1>0, <1>1 DEF Pairs, Renames
  <2>2. m[x].act # m[p].act
    BY <1>0, <1>1 DEF Pairs, Renames
  <2> QED BY <1>1, <2>1, <2>2 DEF Typed, Owned
<1>3. \A i \in (l2 \cup o) \ {p} : i \in EventId /\ i \in l \cup o /\ i # x /\ m2[i] = m[i]
  BY <1>0, <1>1 DEF Typed, Owned
<1>4. Typed(l2, m2, o, r, a, k) /\ Owned(l2, m2, o, a)
  BY <1>0, <1>1, <1>2, <1>3 DEF Typed, Owned
<1>5. Cookies(l2, m2, o, k)
  <2>1. k \in Nat
    BY <1>1 DEF Typed
  <2> QED BY <2>1, <1>0, <1>2, <1>3 DEF Good, Cookies, Renames
<1>6. Mates(l2, m2)
  BY <1>0, <1>2, <1>3 DEF Good, Mates
<1>7. FromFirst(l2, m2, o)
  BY <1>0, <1>2, <1>3 DEF Good, FromFirst
<1>8. Pending(l2, m2, o, r, k)
  BY <1>0, <1>2, <1>3 DEF Good, Pending
<1>9. Pairs(l2, m2)
  <2>1. \A i \in l2 : m2[i].act \in Renames => i # p /\ m2[i] = m[i]
    BY <1>0, <1>2, <1>3 DEF Renames
  <2>2. \A i \in l2 : i # p /\ m[i].act \in Renames /\ m[i].pair # Null =>
                       m[i].pair \in l2 /\ m[i].pair # p
    <3> SUFFICES ASSUME NEW i \in l2, i # p, m[i].act \in Renames, m[i].pair # Null
                 PROVE  m[i].pair \in l2 /\ m[i].pair # p
      OBVIOUS
    <3>1. m[i].pair \in l /\ m[m[i].pair].pair = i
      BY <1>0, <1>1 DEF Pairs, Renames
    <3> QED BY <3>1, <1>0, <1>2
  <2>3. \A i \in l2 : i # p /\ m[i].act \in Renames /\ m[i].pair # Null =>
                       m2[m[i].pair] = m[m[i].pair]
    BY <1>3, <2>2
  <2> QED BY <1>1, <2>1, <2>2, <2>3 DEF Pairs, Renames
<1>10. Awaited(l2, m2, r)
  BY <1>0, <1>3 DEF Good, Awaited, Sendable
<1> QED BY <1>4, <1>5, <1>6, <1>7, <1>8, <1>9, <1>10 DEF Good

(* Freeing an event that has been sent.                                    *)
LEMMA SendOne ==
  ASSUME NEW l, NEW m, NEW o, NEW r, NEW a, NEW k,
         Good(l, m, o, r, a, k), NEW x \in o,
         NEW m2 \in [EventId -> Event], m2[x] = Free,
         \A i \in EventId \ {x} : m2[i] = m[i]
  PROVE  Good(l, m2, o \ {x}, r, a, k)
<1> DEFINE o2 == o \ {x}
<1>1. Typed(l, m, o, r, a, k) /\ Owned(l, m, o, a)
  BY DEF Good
<1>2. \A i \in l \cup o2 : i \in EventId /\ i \in l \cup o /\ i # x /\ m2[i] = m[i]
  BY <1>1 DEF Typed, Owned
<1>3. Typed(l, m2, o2, r, a, k) /\ Owned(l, m2, o2, a)
  BY <1>1, <1>2 DEF Typed, Owned
<1>4. Cookies(l, m2, o2, k) /\ Mates(l, m2) /\ FromFirst(l, m2, o2)
  BY <1>2 DEF Good, Cookies, Mates, FromFirst
<1>5. Pending(l, m2, o2, r, k)
  BY <1>2 DEF Good, Pending
<1>6. Pairs(l, m2)
  BY <1>2 DEF Good, Pairs, Renames
<1>7. Awaited(l, m2, r)
  BY <1>2 DEF Good, Awaited
<1> QED BY <1>3, <1>4, <1>5, <1>6, <1>7 DEF Good

(* Moving the events P to an array, when a rename_from that is paired      *)
(* never stays behind its rename_to, and a rename_to left behind is        *)
(* unpaired.                                                               *)
LEMMA Move ==
  ASSUME NEW l, NEW m, NEW o, NEW r, NEW a, NEW k,
         Good(l, m, o, r, a, k), NEW P, P \subseteq l,
         NEW m2 \in [EventId -> Event],
         \A i \in EventId : m2[i].act = m[i].act /\ m2[i].cookie = m[i].cookie,
         \A i \in EventId \ l : m2[i] = m[i],
         \A i \in l \ P : m[i].act = "rename_from" => m2[i].pair = m[i].pair,
         \A i \in l \ P : m[i].act = "rename_to" =>
            m2[i].pair = (IF m[i].pair \in P THEN Null ELSE m[i].pair),
         \A i \in l \ P : m[i].act = "rename_from" => m[i].pair \notin P
  PROVE  Good(l \ P, m2, o \cup P, r, a, k)
<1> DEFINE l2 == l \ P
           o2 == o \cup P
<1>1. Typed(l, m, o, r, a, k) /\ Owned(l, m, o, a) /\ Pairs(l, m)
  BY DEF Good
<1>2. \A i \in l2 \cup o2 : i \in EventId /\ i \in l \cup o
  BY <1>1 DEF Typed
<1>3. Typed(l2, m2, o2, r, a, k)
  BY <1>1 DEF Typed
<1>4. Owned(l2, m2, o2, a)
  BY <1>1, <1>2 DEF Typed, Owned
<1>5. Cookies(l2, m2, o2, k)
  BY <1>2 DEF Good, Cookies
<1>6. Mates(l2, m2)
  <2>1. Mates(l, m)
    BY DEF Good
  <2> QED BY <1>2, <2>1 DEF Mates
<1>7. FromFirst(l2, m2, o2)
  <2> SUFFICES ASSUME NEW i \in o2, NEW j \in l2,
                      m[i].act = "rename_to", m[j].act = "rename_from",
                      m[i].cookie = m[j].cookie
               PROVE  FALSE
    BY <1>2 DEF FromFirst
  <2>1. CASE i \in o
    BY <2>1 DEF Good, FromFirst
  <2>2. CASE i \in P
    <3>1. m[j].cookie # 0
      BY DEF Good, Cookies, Renames
    <3>2. i < j \/ j < i
      BY <1>1, <1>2, Assumptions DEF EventId
    <3>3. j < i /\ m[j].pair = i
      BY <2>2, <3>1, <3>2 DEF Good, Mates
    <3> QED BY <2>2, <3>3
  <2> QED BY <2>1, <2>2
<1>8. Pending(l2, m2, o2, r, k)
  <2> SUFFICES ASSUME NEW t \in Thread
               PROVE  r[t].cookie # 0 =>
                        /\ \A i \in l2 : m2[i].cookie = r[t].cookie =>
                             m2[i].act = "rename_from" /\ m2[i].pair = Null
                        /\ \A i \in o2 : m2[i].cookie = r[t].cookie => m2[i].act = "rename_from"
    BY DEF Good, Pending
  <2> QED BY <1>2 DEF Good, Pending
<1>9. Pairs(l2, m2)
  <2> SUFFICES ASSUME NEW i \in l2, m[i].act \in Renames, m2[i].pair # Null
               PROVE  /\ m[i].act = "rename_from" =>
                          /\ m2[i].pair \in l2 /\ i < m2[i].pair
                          /\ m2[m2[i].pair].act = "rename_to" /\ m2[m2[i].pair].pair = i
                      /\ m[i].act = "rename_to" =>
                          /\ m2[i].pair \in l2 /\ m2[i].pair < i
                          /\ m2[m2[i].pair].act = "rename_from" /\ m2[m2[i].pair].pair = i
    BY <1>2 DEF Pairs, Renames
  <2>1. m2[i].pair = m[i].pair /\ m[i].pair \notin P
    BY DEF Renames
  <2>2. m[i].pair \in l2 /\ m[i].pair \in EventId
    BY <2>1, <1>1, <1>2 DEF Pairs, Renames
  <2>3. m[m[i].pair].pair = i /\ i \notin P
    BY <2>1, <1>1 DEF Pairs, Renames
  <2>4. m2[m[i].pair].pair = i
    BY <2>1, <2>2, <2>3, <1>1 DEF Pairs, Renames
  <2> QED BY <2>1, <2>2, <2>4, <1>1 DEF Pairs, Renames
<1>10. Awaited(l2, m2, r)
  BY <1>2 DEF Good, Awaited, Sendable
<1> QED BY <1>3, <1>4, <1>5, <1>6, <1>7, <1>8, <1>9, <1>10 DEF Good

-----------------------------------------------------------------------------
(* The locked sections.                                                    *)

LEMMA FiniteLists ==
  ASSUME NEW l \in SUBSET EventId
  PROVE  IsFiniteSet(l) /\ Cardinality(l) \in Nat
<1>1. IsFiniteSet(EventId)
  BY Assumptions, FS_Interval DEF EventId
<1> QED BY <1>1, FS_Subset, FS_CardinalityType

(* pick_events moves a rename_from whenever it moves the rename_to it is   *)
(* paired with.                                                            *)
LEMMA PicksInOrder ==
  ASSUME NEW l \in SUBSET EventId, NEW m, NEW i \in l, NEW j \in Picked(l, m),
         i <= j, Sendable(m[i])
  PROVE  i \in Picked(l, m)
<1> DEFINE able == {x \in l : Sendable(m[x])}
           U(y) == {x \in able : x <= y}
<1>1. CASE quit
  BY <1>1 DEF Picked
<1>2. CASE ~quit
  <2>1. j \in able /\ Cardinality(U(j)) <= DumpSize
    BY <1>2 DEF Picked
  <2>2. U(i) \subseteq U(j)
    <3>1. \A x \in able \cup {i} : x \in Nat
      BY Assumptions DEF EventId
    <3> HIDE DEF able
    <3>2. \A x \in able : x <= i => x <= j
      BY <2>1, <3>1
    <3> QED BY <3>2
  <2>3. U(j) \in SUBSET EventId
    OBVIOUS
  <2>4. IsFiniteSet(U(j)) /\ Cardinality(U(j)) \in Nat
    BY <2>3, FiniteLists
  <2>5. Cardinality(U(i)) <= Cardinality(U(j)) /\ Cardinality(U(i)) \in Nat
    <3> HIDE DEF U
    <3>1. IsFiniteSet(U(i)) /\ Cardinality(U(i)) <= Cardinality(U(j))
      BY <2>2, <2>4, FS_Subset
    <3> QED BY <3>1, FS_CardinalityType
  <2>6. Cardinality(U(i)) <= DumpSize
    BY <2>1, <2>4, <2>5, Assumptions
  <2> QED BY <1>2, <2>6 DEF Picked
<1> QED BY <1>1, <1>2

LEMMA PickSafe ==
  ASSUME NEW l, NEW m, NEW n, NEW r, NEW a, NEW k, NEW c \in Context,
         Good(l, m, Batched, r, a, k), n = Cardinality(l),
         Arrays, batch[c] = {}, PickEvents(c, l, m, n)
  PROVE  /\ Good(list', ev', Batched', r, a, k)
         /\ events_number' = Cardinality(list')
         /\ Arrays' /\ Undisturbed(m)
<1> DEFINE P == Picked(l, m)
<1>1. Typed(l, m, Batched, r, a, k) /\ Owned(l, m, Batched, a) /\ Pairs(l, m)
  BY DEF Good
<1>2. P \subseteq l /\ l \in SUBSET EventId
  BY <1>1 DEF Picked, Typed
<1>3. /\ list' = l \ P /\ ev' = Unpaired(m, P) /\ events_number' = n - Cardinality(P)
      /\ batch' = [batch EXCEPT ![c] = P]
      /\ pc' = [pc EXCEPT ![c] = IF P = {} THEN "idle" ELSE "notify"]
  BY DEF PickEvents
<1>4. \A i \in P : ~quit => Sendable(m[i])
  BY DEF Picked
<1>5. quit => P = l
  BY DEF Picked
<1> HIDE DEF P
<1>6. Batched' = Batched \cup P
  BY <1>3 DEF Batched, Arrays
<1>7. Arrays'
  <2>1. P \cap Batched = {}
    BY <1>1, <1>2 DEF Owned
  <2>2. \A d \in Context : batch[d] \cap P = {}
    BY <2>1 DEF Batched
  <2> QED BY <1>2, <1>3, <2>2 DEF Arrays
<1>8. events_number' = Cardinality(list')
  <2>1. IsFiniteSet(l) /\ IsFiniteSet(P) /\ P \cap l = P
    BY <1>2, FiniteLists
  <2>2. Cardinality(l \ P) = Cardinality(l) - Cardinality(l \cap P)
    BY <2>1, FS_Difference
  <2> QED BY <1>3, <2>1, <2>2
<1>9. /\ Good(l \ P, ev', Batched \cup P, r, a, k)
      /\ \A i \in EventId \ l : ev'[i] = m[i]
  <2> DEFINE left == {m[i].pair : i \in {j \in P : m[j].act = "rename_from"}}
  <2>1. /\ ev' \in [EventId -> Event]
        /\ \A i \in EventId : ev'[i].act = m[i].act /\ ev'[i].cookie = m[i].cookie
        /\ \A i \in EventId : ev'[i] = IF ~quit /\ i \in left THEN [m[i] EXCEPT !.pair = Null] ELSE m[i]
    <3>1. m \in [EventId -> Event]
      BY <1>1 DEF Typed
    <3>2. ev' = [i \in EventId |-> IF ~quit /\ i \in left THEN [m[i] EXCEPT !.pair = Null] ELSE m[i]]
      BY <1>3 DEF Unpaired
    <3> HIDE DEF left
    <3>3. \A i \in EventId : [m[i] EXCEPT !.pair = Null] \in Event
      BY <3>1 DEF Event
    <3> QED BY <3>1, <3>2, <3>3 DEF Event
  <2>2. ~quit => \A j \in left : j \in l /\ m[j].act = "rename_to"
    <3> SUFFICES ASSUME ~quit, NEW i \in P, m[i].act = "rename_from"
                 PROVE  m[i].pair \in l /\ m[m[i].pair].act = "rename_to"
      OBVIOUS
    <3>1. m[i].pair # Null
      BY <1>4 DEF Sendable
    <3> QED BY <3>1, <1>1, <1>2 DEF Pairs
  <2>3. \A i \in EventId \ l : ev'[i] = m[i]
    BY <2>1, <2>2
  <2>4. \A i \in l \ P : m[i].act = "rename_from" => ev'[i].pair = m[i].pair
    BY <1>2, <2>1, <2>2
  <2>5. \A i \in l \ P : m[i].act = "rename_to" =>
           ev'[i].pair = (IF m[i].pair \in P THEN Null ELSE m[i].pair)
    <3> SUFFICES ASSUME NEW i \in l \ P, m[i].act = "rename_to"
                 PROVE  ev'[i].pair = (IF m[i].pair \in P THEN Null ELSE m[i].pair)
      OBVIOUS
    <3>1. ~quit
      BY <1>5
    <3>2. m[i] \in Event /\ i \in EventId
      BY <1>1, <1>2 DEF Typed
    <3>3. CASE m[i].pair \in P
      <4>1. m[i].pair # Null
        BY <3>3, <1>2, Assumptions DEF EventId, Null
      <4>2. m[m[i].pair].act = "rename_from" /\ m[m[i].pair].pair = i
        BY <4>1, <1>1 DEF Pairs
      <4>3. i \in left
        BY <4>2, <3>3
      <4> HIDE DEF left
      <4>4. ev'[i] = [m[i] EXCEPT !.pair = Null]
        BY <2>1, <3>1, <3>2, <4>3
      <4> QED BY <3>2, <3>3, <4>4 DEF Event
    <3>4. CASE m[i].pair \notin P
      <4>1. i \in left => m[i].pair \in P
        <5> SUFFICES ASSUME NEW j \in P, m[j].act = "rename_from", m[j].pair = i
                     PROVE  m[i].pair \in P
          OBVIOUS
        <5>1. i # Null
          BY <3>2, Assumptions DEF EventId, Null
        <5> QED BY <5>1, <1>1, <1>2 DEF Pairs
      <4> QED BY <2>1, <3>2, <3>4, <4>1
    <3> QED BY <3>3, <3>4
  <2>6. \A i \in l \ P : m[i].act = "rename_from" => m[i].pair \notin P
    <3> SUFFICES ASSUME NEW i \in l \ P, m[i].act = "rename_from", m[i].pair \in P
                 PROVE  FALSE
      OBVIOUS
    <3>0. i \in EventId /\ m[i].pair \in EventId
      BY <1>2
    <3>1. m[i].pair # Null /\ i \in Nat /\ m[i].pair \in Nat
      BY <3>0, Assumptions DEF EventId, Null
    <3>2. i < m[i].pair
      BY <3>1, <1>1 DEF Pairs
    <3>3. i <= m[i].pair /\ Sendable(m[i])
      BY <3>1, <3>2 DEF Sendable
    <3> QED BY <3>3, <1>2, PicksInOrder DEF P
  <2> HIDE DEF left
  <2>7. Good(l \ P, ev', Batched \cup P, r, a, k)
    BY <1>2, <2>1, <2>3, <2>4, <2>5, <2>6, Move
  <2> QED BY <2>3, <2>7
<1>10. Undisturbed(m)
  BY <1>1, <1>9 DEF Typed, Owned, Agree, Undisturbed
<1> QED BY <1>3, <1>6, <1>7, <1>8, <1>9, <1>10

(* check_events, whichever branch it takes.                                *)
LEMMA CheckSafe ==
  ASSUME NEW l, NEW m, NEW n, NEW r, NEW a, NEW k, NEW c \in Context,
         Good(l, m, Batched, r, a, k), n = Cardinality(l),
         Arrays, armed \in BOOLEAN, batch[c] = {}, CheckEvents(c, l, m, n)
  PROVE  /\ Good(list', ev', Batched', r, a, k)
         /\ events_number' = Cardinality(list')
         /\ Arrays' /\ armed' \in BOOLEAN /\ Undisturbed(m)
<1>1. CASE Keep(l, m, n) /\ armed' \in BOOLEAN
  <2>1. list' = l /\ ev' = m /\ events_number' = n /\ batch' = batch /\ pc' = pc
    BY <1>1 DEF Keep
  <2>2. Batched' = Batched
    BY <2>1 DEF Batched
  <2>3. Arrays'
    BY <2>1 DEF Arrays
  <2>4. Undisturbed(m)
    BY <2>1 DEF Agree, Undisturbed
  <2> QED BY <1>1, <2>1, <2>2, <2>3, <2>4
<1>2. CASE PickEvents(c, l, m, n) /\ armed' \in BOOLEAN
  BY <1>2, PickSafe
<1> QED BY <1>1, <1>2 DEF CheckEvents

(* m3 is m once the incoming event id has been absorbed by h: both are     *)
(* freed and the partner of the rename concerned is retagged.              *)
Absorbing(m, m3, h, id) ==
  /\ Merges(m[h], m[id])
  /\ m[id].act # "rename_to" => m[id].pair = Null
  /\ m3 \in [EventId -> Event] /\ m3[h] = Free /\ m3[id] = Free
  /\ \A i \in EventId \ {h, id} :
        IF i = Retag(m[h], m[id]).of
        THEN m3[i].act = Retag(m[h], m[id]).as /\ m3[i].cookie = 0
        ELSE m3[i] = m[i]

(* Two events that merge are removed, the partner of the rename concerned  *)
(* being retagged.                                                         *)
LEMMA Absorb ==
  ASSUME NEW l, NEW m, NEW o, NEW r, NEW a, NEW k, NEW id,
         Good(l \cup {id}, m, o, r, a, k), id \notin l,
         NEW h \in l, NEW m3, Absorbing(m, m3, h, id)
  PROVE  Good(l \ {h}, m3, o, r, a, k)
<1> DEFINE e == m[h]
           cur == m[id]
           g == Retag(e, cur).of
           s == Retag(e, cur).as
           mid == [i \in EventId |-> IF i = id THEN Free ELSE m[i]]
<1>1. /\ Typed(l \cup {id}, m, o, r, a, k) /\ Pairs(l \cup {id}, m)
      /\ h \in EventId /\ id \in EventId /\ h # id /\ e \in Event /\ cur \in Event
      /\ h # Null /\ id # Null /\ m \in [EventId -> Event]
  BY Assumptions DEF Good, Typed, EventId, Null
<1>0. /\ Merges(e, cur) /\ (cur.act # "rename_to" => cur.pair = Null)
      /\ m3 \in [EventId -> Event] /\ m3[h] = Free /\ m3[id] = Free
      /\ \A i \in EventId \ {h, id} : IF i = g THEN m3[i].act = s /\ m3[i].cookie = 0
                                               ELSE m3[i] = m[i]
  BY DEF Absorbing
<1>2. e.pair \in EventId \cup {Null} /\ cur.pair \in EventId \cup {Null}
  BY <1>1, EventFields
<1>3. /\ cur.act \in {"new", "delete", "rename_from", "rename_to"}
      /\ cur.act = "new" => e.act \in {"delete", "rename_from"}
      /\ cur.act \in {"delete", "rename_from"} =>
           e.act = "new" \/ (e.act = "rename_to" /\ e.pair # Null)
      /\ cur.act = "rename_to" => e.act = "delete" /\ cur.pair # Null
  BY <1>0 DEF Merges
<1>4. /\ g \in EventId \cup {Null}
      /\ s \in {"new", "delete", "free"} /\ (g # Null => s # "free")
  BY <1>2, <1>3 DEF Retag
<1>5. /\ cur.act = "new" /\ e.act = "rename_from" => g = e.pair
      /\ cur.act \in {"delete", "rename_from"} /\ e.act = "rename_to" => g = e.pair
      /\ cur.act = "rename_to" => g = cur.pair
      /\ e.act \in {"delete", "new"} /\ cur.act # "rename_to" => g = Null
  BY <1>3 DEF Retag
<1>6. /\ \A i \in EventId \ {h, id} : i # g => m3[i] = m[i]
      /\ g \in EventId \ {h, id} => m3[g].act = s /\ m3[g].cookie = 0
  BY <1>0
<1> HIDE DEF g, s
<1>7. /\ mid \in [EventId -> Event] /\ mid[id] = Free
      /\ \A i \in EventId \ {id} : mid[i] = m[i]
  BY <1>1 DEF Free, Event, Null
<1>8. (l \cup {id}) \ {id} = l /\ id \in l \cup {id}
  OBVIOUS
<1> HIDE DEF mid
<1> HIDE DEF e, cur
<1>9. CASE cur.act # "rename_to"
  <2>1. Good(l, mid, o, r, a, k)
    <3>1. Single(m, mid, id)
      BY <1>0, <1>7, <1>9 DEF Single, cur
    <3>2. Good((l \cup {id}) \ {id}, mid, o, r, a, k)
      BY <3>1, <1>8, Drop
    <3> QED BY <3>2, <1>8
  <2>2. mid[h] = e
    BY <1>1, <1>7 DEF e
  <2>3. CASE g = Null
    <3>1. e.act \in Renames => e.pair = Null
      BY <2>3, <1>3, <1>5, <1>9 DEF Renames
    <3>2. g \notin EventId
      BY <2>3, Assumptions DEF EventId, Null
    <3>3. Single(mid, m3, h)
      BY <2>2, <3>1, <3>2, <1>0, <1>6, <1>7 DEF Single
    <3> QED BY <2>1, <3>3, Drop
  <2>4. CASE g # Null
    <3>1. e.act \in Renames /\ g = e.pair /\ e.pair # Null
      BY <2>4, <1>3, <1>5, <1>9 DEF Renames
    <3>2. g \in EventId /\ g # h /\ m[g].pair = h
      BY <3>1, <1>1, <1>2, <2>4 DEF Pairs, Renames, e
    <3>3. g # id
      BY <3>2, <1>0, <1>1, <1>9 DEF cur
    <3>4. m3[g].act \in {"new", "delete"} /\ m3[g].cookie = 0
      BY <3>2, <3>3, <2>4, <1>4, <1>6
    <3>5. \A i \in EventId \ {h, g} : m3[i] = mid[i]
      BY <1>0, <1>6, <1>7
    <3>6. Half(mid, m3, h, g)
      BY <2>2, <3>1, <3>4, <3>5, <1>0 DEF Half
    <3> QED BY <2>1, <3>6, DropHalf
  <2> QED BY <2>3, <2>4
<1>10. CASE cur.act = "rename_to"
  <2> DEFINE mh == [i \in EventId |-> IF i = h THEN e ELSE m3[i]]
  <2>1. /\ mh \in [EventId -> Event] /\ mh[h] = e
        /\ \A i \in EventId \ {h} : mh[i] = m3[i]
    BY <1>0, <1>1, <1>6
  <2> HIDE DEF mh
  <2>2. e.act = "delete" /\ cur.pair # Null /\ g = cur.pair
    BY <1>3, <1>5, <1>10
  <2>3. g \in EventId /\ g # h /\ g # id
    <3>1. m[g].act = "rename_from"
      BY <2>2, <1>1, <1>10 DEF Pairs, cur
    <3> QED BY <3>1, <2>2, <1>2, <1>10 DEF e, cur
  <2>4. mh[id] = Free /\ mh[g].act \in {"new", "delete"} /\ mh[g].cookie = 0
    BY <2>1, <2>2, <2>3, <1>0, <1>1, <1>4, <1>6
  <2>5. \A i \in EventId \ {id, g} : mh[i] = m[i]
    BY <2>1, <1>6 DEF e
  <2>6. Good((l \cup {id}) \ {id}, mh, o, r, a, k)
    <3>1. Half(m, mh, id, g)
      BY <2>1, <2>2, <2>4, <2>5, <1>10 DEF Half, Renames, cur
    <3> QED BY <3>1, <1>8, DropHalf
  <2>7. Good(l, mh, o, r, a, k)
    BY <2>6, <1>8
  <2>8. Single(mh, m3, h)
    BY <2>1, <2>2, <1>0 DEF Single, Renames
  <2> QED BY <2>7, <2>8, Drop
<1> QED BY <1>9, <1>10

LEMMA RetagKinds ==
  ASSUME NEW e \in Event, NEW cur \in Event
  PROVE  /\ Retag(e, cur).of \in EventId \cup {Null}
         /\ Retag(e, cur).as \in {"new", "delete", "free"}
<1>1. e.pair \in EventId \cup {Null} /\ cur.pair \in EventId \cup {Null}
  BY EventFields
<1> QED BY <1>1 DEF Retag

(* Absorb, of the memory that the code leaves.                             *)
LEMMA Absorbed ==
  ASSUME NEW l, NEW m, NEW o, NEW r, NEW a, NEW k, NEW id,
         Good(l \cup {id}, m, o, r, a, k), id \notin l,
         NEW h \in l, Merges(m[h], m[id]),
         m[id].act # "rename_to" => m[id].pair = Null
  PROVE  Good(l \ {h}, Freed(Retagged(m, Retag(m[h], m[id])), {h, id}), o, r, a, k)
<1>1. m \in [EventId -> Event] /\ h \in EventId /\ id \in EventId
  BY DEF Good, Typed
<1> DEFINE rt == Retag(m[h], m[id])
           retagged == Retagged(m, rt)
           after == Freed(retagged, {h, id})
<1>2. rt.of \in EventId \cup {Null} /\ rt.as \in {"new", "delete", "free"}
  <2>1. m[h] \in Event /\ m[id] \in Event
    BY <1>1
  <2> QED BY <2>1, RetagKinds
<1>3. /\ retagged \in [EventId -> Event]
      /\ \A i \in EventId : i # rt.of => retagged[i] = m[i]
      /\ \A i \in EventId : i = rt.of => retagged[i].act = rt.as /\ retagged[i].cookie = 0
  <2> HIDE DEF rt
  <2>1. retagged = [i \in EventId |-> IF i = rt.of THEN [m[i] EXCEPT !.act = rt.as, !.cookie = 0] ELSE m[i]]
    BY DEF Retagged
  <2>2. \A i \in EventId : [m[i] EXCEPT !.act = rt.as, !.cookie = 0] \in Event
    BY <1>1, <1>2 DEF Event, Action
  <2> HIDE DEF retagged
  <2>3. retagged \in [EventId -> Event]
    BY <2>1, <2>2, <1>1
  <2>4. \A i \in EventId : i = rt.of => retagged[i].act = rt.as /\ retagged[i].cookie = 0
    <3> SUFFICES ASSUME NEW i \in EventId, i = rt.of
                 PROVE  retagged[i].act = rt.as /\ retagged[i].cookie = 0
      OBVIOUS
    <3>1. retagged[i] = [m[i] EXCEPT !.act = rt.as, !.cookie = 0] /\ m[i] \in Event
      BY <2>1, <1>1
    <3> QED BY <3>1 DEF Event
  <2> QED BY <2>1, <2>3, <2>4
<1> HIDE DEF retagged
<1>5. /\ after \in [EventId -> Event] /\ after[h] = Free /\ after[id] = Free
      /\ \A i \in EventId \ {h, id} : after[i] = retagged[i]
  <2>1. after = [i \in EventId |-> IF i \in {h, id} THEN Free ELSE retagged[i]]
    BY DEF Freed
  <2>2. Free \in Event
    BY DEF Free, Event, Null
  <2> HIDE DEF after
  <2> QED BY <2>1, <2>2, <1>1, <1>3
<1> HIDE DEF after
<1>6. /\ \A i \in EventId \ {h, id} : i # rt.of => after[i] = m[i]
      /\ \A i \in EventId \ {h, id} : i = rt.of => after[i].act = rt.as /\ after[i].cookie = 0
  BY <1>3, <1>5
<1>7. Absorbing(m, after, h, id)
  BY <1>5, <1>6 DEF Absorbing
<1>8. Good(l \ {h}, after, o, r, a, k)
  BY <1>7, Absorb
<1> QED BY <1>8 DEF after, retagged

(* The events that a merge frees or retags are in the list, the incoming   *)
(* one included.                                                           *)
LEMMA RetagListed ==
  ASSUME NEW l, NEW m, NEW h \in l, NEW id \in l, Pairs(l, m),
         Merges(m[h], m[id]), m[id].act # "rename_to" => m[id].pair = Null
  PROVE  Retag(m[h], m[id]).of \in l \cup {Null}
BY DEF Pairs, Merges, Retag

LEMMA AbsorbedFrame ==
  ASSUME NEW l, NEW m, NEW o, NEW r, NEW a, NEW k, NEW id,
         Good(l \cup {id}, m, o, r, a, k),
         NEW h \in l, Merges(m[h], m[id]),
         m[id].act # "rename_to" => m[id].pair = Null
  PROVE  Agree(o, Freed(Retagged(m, Retag(m[h], m[id])), {h, id}), m)
<1> DEFINE rt == Retag(m[h], m[id])
<1>1. /\ o \subseteq EventId /\ (l \cup {id}) \cap o = {}
      /\ Pairs(l \cup {id}, m)
  BY DEF Good, Typed, Owned
<1>2. rt.of \in l \cup {id} \cup {Null}
  BY <1>1, RetagListed
<1>3. Null \notin EventId
  BY Assumptions DEF EventId, Null
<1> HIDE DEF rt
<1>4. \A i \in o : i \in EventId /\ i # rt.of /\ i \notin {h, id}
  BY <1>1, <1>2, <1>3
<1>5. \A i \in o : Retagged(m, rt)[i] = m[i]
  BY <1>4 DEF Retagged
<1>6. \A i \in o : Freed(Retagged(m, rt), {h, id})[i] = Retagged(m, rt)[i]
  BY <1>4 DEF Freed
<1> QED BY <1>5, <1>6 DEF rt, Agree

(* The rest of do_event_merge, once the incoming event has been paired:    *)
(* what holds of the buffer with the event appended holds after the step.  *)
LEMMA MergeStep ==
  ASSUME NEW r, NEW k, NEW t \in Thread, NEW act, NEW path, NEW c,
         Good(list \cup {alloc + 1}, Linked(alloc + 1, Incoming(act, path, c)),
              Batched, r, alloc + 1, k),
         alloc + 1 \notin list,
         Incoming(act, path, c).act # "rename_to" => Incoming(act, path, c).pair = Null,
         Agree(Batched, Linked(alloc + 1, Incoming(act, path, c)), ev),
         events_number = Cardinality(list), Arrays, armed \in BOOLEAN, batch[t] = {},
         DoEventMerge(t, act, path, c)
  PROVE  /\ Good(list', ev', Batched', r, alloc', k)
         /\ events_number' = Cardinality(list')
         /\ Arrays' /\ armed' \in BOOLEAN /\ Undisturbed(ev)
<1> DEFINE id == alloc + 1
           cur == Incoming(act, path, c)
           mem == Linked(id, cur)
           hits == {i \in list : Merges(mem[i], cur)}
           hit == Max(hits)
           after == Freed(Retagged(mem, Retag(mem[hit], cur)), {hit, id})
<1>1. /\ alloc' = id
      /\ \/ hits = {} /\ CheckEvents(t, list \cup {id}, mem, events_number + 1)
         \/ hits # {} /\ CheckEvents(t, list \ {hit}, after, events_number - 1)
  BY DEF DoEventMerge
<1>2. t \in Context
  BY DEF Context
<1>3. list \in SUBSET EventId /\ id \in EventId /\ mem \in [EventId -> Event]
  BY DEF Good, Typed
<1>4. IsFiniteSet(list) /\ Cardinality(list) \in Nat
  BY <1>3, FiniteLists
<1>7. mem[id] = cur
  BY <1>3 DEF Linked
<1>8. /\ Good(list \cup {id}, mem, Batched, r, id, k) /\ id \notin list
      /\ cur.act # "rename_to" => cur.pair = Null
      /\ Agree(Batched, mem, ev)
  OBVIOUS
<1> HIDE DEF hit, after, mem, cur, id
<1>5. CASE hits = {}
  <2>1. Cardinality(list \cup {id}) = events_number + 1
    BY <1>4, <1>8, FS_AddElement
  <2>2. CheckEvents(t, list \cup {id}, mem, events_number + 1)
    BY <1>1, <1>5
  <2>3. /\ Good(list', ev', Batched', r, id, k)
        /\ events_number' = Cardinality(list')
        /\ Arrays' /\ armed' \in BOOLEAN /\ Undisturbed(mem)
    BY <2>1, <2>2, <1>2, <1>8, CheckSafe
  <2> QED BY <2>3, <1>1, <1>8 DEF Agree, Undisturbed
<1>6. CASE hits # {}
  <2>1. hit \in list /\ Merges(mem[hit], mem[id])
    <3>1. hits \subseteq EventId
      BY <1>3
    <3>2. hit \in hits
      <4> HIDE DEF hits
      <4> QED BY <1>6, <3>1, MaxExists DEF hit
    <3> QED BY <3>2, <1>7
  <2>2. Cardinality(list \ {hit}) = events_number - 1
    BY <2>1, <1>4, FS_RemoveElement
  <2>3. CheckEvents(t, list \ {hit}, after, events_number - 1)
    BY <1>1, <1>6
  <2>4. mem[id].act # "rename_to" => mem[id].pair = Null
    BY <1>7, <1>8
  <2>7. Good(list \ {hit}, after, Batched, r, id, k)
    <3>1. Good(list \ {hit}, Freed(Retagged(mem, Retag(mem[hit], mem[id])), {hit, id}),
               Batched, r, id, k)
      BY <2>1, <2>4, <1>8, Absorbed
    <3> QED BY <3>1, <1>7 DEF after
  <2>8. /\ Good(list', ev', Batched', r, id, k)
        /\ events_number' = Cardinality(list')
        /\ Arrays' /\ armed' \in BOOLEAN /\ Undisturbed(after)
    BY <2>2, <2>3, <2>7, <1>2, CheckSafe
  <2>9. Agree(Batched, after, mem)
    <3>1. Agree(Batched, Freed(Retagged(mem, Retag(mem[hit], mem[id])), {hit, id}), mem)
      BY <2>1, <2>4, <1>8, AbsorbedFrame
    <3> QED BY <3>1, <1>7 DEF after
  <2> QED BY <2>8, <2>9, <1>1, <1>8 DEF Agree, Undisturbed
<1> QED BY <1>1, <1>5, <1>6

(* An event that pairs with nothing only takes its own address.            *)
LEMMA LinkedAlone ==
  ASSUME NEW id \in EventId, NEW cur \in Event, cur.pair = Null,
         ev \in [EventId -> Event]
  PROVE  /\ Linked(id, cur) \in [EventId -> Event]
         /\ Linked(id, cur)[id] = cur
         /\ \A i \in EventId \ {id} : Linked(id, cur)[i] = ev[i]
BY DEF Linked

LEMMA IncomingAlone ==
  ASSUME NEW act \in Action, NEW path \in Path \cup {NoPath}, NEW c \in Nat,
         act # "rename_to" \/ Partner(act, c) = Null
  PROVE  LET cur == Incoming(act, path, c)
         IN  /\ cur \in Event /\ cur.pair = Null
             /\ act # "rename_to" => cur.act = act /\ cur.cookie = c
             /\ act = "rename_to" => cur.act = "new" /\ cur.cookie = 0
<1>1. Partner(act, c) = Null
  BY DEF Partner
<1>2. Incoming(act, path, c) = IF act = "rename_to" THEN Fresh("new", path, 0)
                               ELSE [Fresh(act, path, c) EXCEPT !.pair = Null]
  BY <1>1 DEF Incoming
<1> QED BY <1>2 DEF Fresh, Event, Action

(* A thread gets another event to submit, or none, that is no rename_to.   *)
LEMMA NewRest ==
  ASSUME NEW l, NEW m, NEW o, NEW r, NEW a, NEW k,
         Good(l, m, o, r, a, k), NEW t \in Thread,
         \A i \in l : m[i].cookie = r[t].cookie => Sendable(m[i]),
         NEW e \in Event, e = Done \/ e.act = "new", e.act # "rename_to", e.cookie = 0
  PROVE  Good(l, m, o, [r EXCEPT ![t] = e], a, k)
<1> DEFINE r2 == [r EXCEPT ![t] = e]
<1>1. Typed(l, m, o, r, a, k) /\ Pending(l, m, o, r, k)
  BY DEF Good
<1>2. Typed(l, m, o, r2, a, k)
  BY <1>1 DEF Typed
<1>3. r2[t] = e /\ \A u \in Thread : u # t => r2[u] = r[u]
  BY <1>1 DEF Typed
<1>4. k \in Nat
  BY <1>1 DEF Typed
<1> HIDE DEF r2
<1>5. Pending(l, m, o, r2, k)
  BY <1>1, <1>3, <1>4 DEF Pending
<1>6. Awaited(l, m, r2)
  BY <1>3 DEF Good, Awaited
<1> QED BY <1>2, <1>5, <1>6 DEF Good, r2

LEMMA IdleBatch ==
  ASSUME Arrays, NEW t \in Thread, pc[t] = "idle"
  PROVE  batch[t] = {}
BY DEF Arrays, Context

(* What a handler knows when it enters do_event_merge.                     *)
LEMMA Entering ==
  ASSUME IInv, NEW t \in Thread, pc[t] = "idle", alloc < MaxEvent
  PROVE  /\ Good(list, ev, Batched, rest, alloc, cookie)
         /\ events_number = Cardinality(list) /\ Arrays
         /\ armed \in BOOLEAN /\ batch[t] = {}
         /\ ev \in [EventId -> Event] /\ rest \in [Thread -> Event]
         /\ alloc + 1 \in EventId /\ alloc + 1 \notin list \cup Batched
         /\ list \cap Batched = {} /\ Batched \subseteq EventId
         /\ alloc \in Nat /\ cookie \in Nat
<1>1. Good(list, ev, Batched, rest, alloc, cookie) /\ Arrays
  BY DEF IInv
<1>2. Typed(list, ev, Batched, rest, alloc, cookie) /\ Owned(list, ev, Batched, alloc)
  BY <1>1 DEF Good
<1>3. /\ alloc + 1 \in EventId /\ alloc + 1 \notin list \cup Batched
      /\ alloc \in Nat /\ cookie \in Nat
  BY <1>2, Assumptions DEF Typed, Owned, EventId
<1>4. list \cap Batched = {} /\ Batched \subseteq EventId
  BY <1>2 DEF Typed, Owned
<1> QED BY <1>1, <1>2, <1>3, <1>4, IdleBatch DEF IInv, Typed

LEMMA DoneEvent == Done \in Event /\ Done.act = "free" /\ Done.cookie = 0
BY DEF Done, Free, Event, Null

LEMMA FreshEvent ==
  ASSUME NEW act \in Action, NEW p \in Path \cup {NoPath}, NEW c \in Nat
  PROVE  /\ Fresh(act, p, c) \in Event
         /\ Fresh(act, p, c).act = act /\ Fresh(act, p, c).cookie = c
         /\ Fresh(act, p, c).pair = Null /\ Fresh(act, p, c).path = p
BY DEF Fresh, Event, Null

(* The event x has been stored as cur in the memory m, not yet merged: the *)
(* buffer with it appended is as it should be, and the other events are    *)
(* what they were, but for the rename_from that x may pair with.           *)
Entered(x, cur, m, r, k) ==
  /\ Good(list \cup {x}, m, Batched, r, x, k)
  /\ cur \in Event /\ m[x] = cur /\ x \notin list \cup Batched
  /\ cur.act # "rename_to" => cur.pair = Null
  /\ Agree(Batched, m, ev)
  /\ \A i \in list :
        /\ m[i].act = ev[i].act /\ m[i].path = ev[i].path /\ m[i].cookie = ev[i].cookie
        /\ m[i].pair = ev[i].pair \/ ev[i].act = "rename_from"

LEMMA EnterPlain ==
  ASSUME IInv, NEW t \in Thread, NEW act \in {"new", "delete", "other"},
         NEW p \in Path \cup {NoPath}, pc[t] = "idle", alloc < MaxEvent
  PROVE  LET cur == Incoming(act, p, 0)
         IN  /\ Entered(alloc + 1, cur, Linked(alloc + 1, cur), rest, cookie)
             /\ cur.act = act /\ cur.cookie = 0
<1> DEFINE id == alloc + 1
           cur == Incoming(act, p, 0)
           mem == Linked(id, cur)
<1>1. /\ Good(list, ev, Batched, rest, alloc, cookie) /\ list \subseteq EventId
      /\ ev \in [EventId -> Event] /\ id \in EventId
      /\ id \notin list \cup Batched /\ Batched \subseteq EventId
  BY Entering DEF Good, Typed
<1>2. cur \in Event /\ cur.pair = Null /\ cur.act = act /\ cur.cookie = 0
  BY IncomingAlone DEF Action
<1> HIDE DEF cur
<1>3. /\ mem \in [EventId -> Event] /\ mem[id] = cur
      /\ \A i \in EventId \ {id} : mem[i] = ev[i]
  BY <1>1, <1>2, LinkedAlone
<1> HIDE DEF mem
<1>4. Good(list \cup {alloc + 1}, mem, Batched, rest, alloc + 1, cookie)
  BY <1>1, <1>2, <1>3, AppendPlain
<1>5. Agree(Batched, mem, ev) /\ \A i \in list : mem[i] = ev[i]
  BY <1>1, <1>3 DEF Agree
<1>6. Entered(id, cur, mem, rest, cookie)
  BY <1>1, <1>2, <1>3, <1>4, <1>5 DEF Entered
<1> QED BY <1>2, <1>6 DEF mem, cur

LEMMA EnterFrom ==
  ASSUME IInv, NEW t \in Thread, NEW p \in Path, NEW q \in Path,
         pc[t] = "idle", rest[t] = Done, alloc < MaxEvent
  PROVE  LET cur == Incoming("rename_from", p, cookie + 1)
             r   == [rest EXCEPT ![t] = Fresh("rename_to", q, cookie + 1)]
         IN  /\ Entered(alloc + 1, cur, Linked(alloc + 1, cur), r, cookie + 1)
             /\ cur.act = "rename_from" /\ cur.cookie = cookie + 1
<1> DEFINE k == cookie + 1
           e == Fresh("rename_to", q, k)
           id == alloc + 1
           cur == Incoming("rename_from", p, k)
           mem == Linked(id, cur)
           r == [rest EXCEPT ![t] = e]
<1>1. /\ Good(list, ev, Batched, rest, alloc, cookie) /\ list \subseteq EventId
      /\ ev \in [EventId -> Event] /\ id \in EventId
      /\ id \notin list \cup Batched /\ Batched \subseteq EventId /\ cookie \in Nat
  BY Entering DEF Good, Typed
<1>2. k \in Nat /\ e \in Event /\ e.act = "rename_to" /\ e.cookie = k
  BY <1>1, FreshEvent DEF Action
<1>3. cur \in Event /\ cur.pair = Null /\ cur.act = "rename_from" /\ cur.cookie = k
  BY <1>2, IncomingAlone DEF Action
<1> HIDE DEF e, cur
<1>4. /\ mem \in [EventId -> Event] /\ mem[id] = cur
      /\ \A i \in EventId \ {id} : mem[i] = ev[i]
  BY <1>1, <1>3, LinkedAlone
<1> HIDE DEF mem
<1>5. Good(list \cup {alloc + 1}, mem, Batched, r, alloc + 1, cookie + 1)
  BY <1>1, <1>2, <1>3, <1>4, AppendFrom
<1>6. Agree(Batched, mem, ev) /\ \A i \in list : mem[i] = ev[i]
  BY <1>1, <1>4 DEF Agree
<1> HIDE DEF r
<1>7. Entered(id, cur, mem, r, k)
  BY <1>1, <1>3, <1>4, <1>5, <1>6 DEF Entered
<1> QED BY <1>3, <1>7 DEF mem, cur, r, e

(* The second event of an operation: the new it is or becomes, or the      *)
(* rename_to that pairs with a listed event.                               *)
LEMMA EnterRest ==
  ASSUME IInv, NEW t \in Thread, pc[t] = "idle", rest[t] # Done, alloc < MaxEvent
  PROVE  LET cur == Incoming(rest[t].act, rest[t].path, rest[t].cookie)
             r   == [rest EXCEPT ![t] = Done]
         IN  /\ Entered(alloc + 1, cur, Linked(alloc + 1, cur), r, cookie)
             /\ \/ /\ cur.act = "new" /\ cur.cookie = 0
                   /\ rest[t].cookie # 0 => \A i \in list : ev[i].cookie # rest[t].cookie
                \/ /\ cur.act = "rename_to" /\ cur.cookie = rest[t].cookie
                   /\ rest[t].act = "rename_to"
                   /\ cur.pair \in list /\ ev[cur.pair].cookie = cur.cookie
<1> DEFINE e == rest[t]
           id == alloc + 1
           cur == Incoming(e.act, e.path, e.cookie)
           mem == Linked(id, cur)
           r == [rest EXCEPT ![t] = Done]
<1>1. /\ Good(list, ev, Batched, rest, alloc, cookie)
      /\ ev \in [EventId -> Event] /\ id \in EventId
      /\ id \notin list \cup Batched /\ Batched \subseteq EventId
      /\ cookie \in Nat /\ rest \in [Thread -> Event]
      /\ list \in SUBSET EventId /\ list \cap Batched = {}
  BY Entering DEF Good, Typed
<1>2. e.act \in {"new", "rename_to"} /\ e.act \in Action
      /\ e.path \in Path \cup {NoPath} /\ e.cookie \in Nat
      /\ (e.act = "rename_to" <=> e.cookie # 0)
  <2>1. e.path \in Path \cup {NoPath} /\ e.cookie \in Nat
    BY <1>1 DEF Event
  <2> QED BY <2>1, <1>1 DEF Good, Pending, Action
<1>3. CASE e.act = "new" \/ Partner(e.act, e.cookie) = Null
  <2>1. cur \in Event /\ cur.pair = Null /\ cur.act = "new" /\ cur.cookie = 0
    BY <1>2, <1>3, IncomingAlone
  <2> HIDE DEF cur, e
  <2>2. /\ mem \in [EventId -> Event] /\ mem[id] = cur
        /\ \A i \in EventId \ {id} : mem[i] = ev[i]
    BY <2>1, <1>1, LinkedAlone
  <2> HIDE DEF mem
  <2>3. Good(list \cup {alloc + 1}, mem, Batched, rest, alloc + 1, cookie)
    BY <2>1, <2>2, <1>1, AppendPlain
  <2>4. e.cookie # 0 => \A i \in list : ev[i].cookie # e.cookie
    <3> SUFFICES ASSUME e.cookie # 0, NEW i \in list, ev[i].cookie = e.cookie PROVE FALSE
      OBVIOUS
    <3>1. e.act = "rename_to" /\ Partner(e.act, e.cookie) = Null
      BY <1>2, <1>3
    <3>2. {j \in list : ev[j].cookie = e.cookie} \in SUBSET EventId
      BY <1>1
    <3>3. Partner(e.act, e.cookie) \in EventId
      BY <3>1, <3>2, MinExists DEF Partner
    <3> QED BY <3>1, <3>3, Assumptions DEF EventId, Null
  <2>5. \A i \in list \cup {alloc + 1} : mem[i].cookie = rest[t].cookie => Sendable(mem[i])
    <3> SUFFICES ASSUME NEW i \in list, ev[i].cookie = rest[t].cookie, ~ Sendable(ev[i])
                 PROVE  FALSE
      BY <2>1, <2>2, <1>1 DEF Sendable
    <3>1. ev[i].cookie # 0
      BY <1>1 DEF Good, Cookies, Sendable, Renames
    <3> QED BY <3>1, <2>4 DEF e
  <2>6. Good(list \cup {alloc + 1}, mem, Batched, r, alloc + 1, cookie)
    BY <2>3, <2>5, DoneEvent, NewRest
  <2>7. Agree(Batched, mem, ev) /\ \A i \in list : mem[i] = ev[i]
    BY <2>2, <1>1 DEF Agree
  <2> HIDE DEF r
  <2>8. Entered(id, cur, mem, r, cookie)
    BY <1>1, <2>1, <2>2, <2>6, <2>7 DEF Entered
  <2> QED BY <2>1, <2>4, <2>8 DEF mem, cur, r, e
<1>4. CASE e.act = "rename_to" /\ Partner(e.act, e.cookie) # Null
  <2> DEFINE same == {i \in list : ev[i].cookie = e.cookie}
             p == Min(same)
  <2>1. same # {} /\ Partner(e.act, e.cookie) = p
    BY <1>4 DEF Partner
  <2>2. p \in same
    <3>1. same \subseteq EventId
      BY <1>1
    <3> HIDE DEF same
    <3> QED BY <3>1, <2>1, MinExists
  <2>3. p \in list /\ ev[p].cookie = e.cookie /\ p \in EventId /\ p # id /\ p # Null
    <3>1. p \in list /\ ev[p].cookie = e.cookie
      BY <2>2
    <3> HIDE DEF same, p, e
    <3>2. p \in EventId /\ p # id
      BY <3>1, <1>1
    <3> QED BY <3>1, <3>2, Assumptions DEF EventId, Null
  <2>4. cur = [Fresh(e.act, e.path, e.cookie) EXCEPT !.pair = p]
    BY <2>1, <1>4 DEF Incoming
  <2> HIDE DEF p, cur
  <2>5. cur \in Event /\ cur.act = "rename_to" /\ cur.cookie = e.cookie /\ cur.pair = p
    BY <2>3, <2>4, <1>2, <1>4 DEF Fresh, Event, Action
  <2>6. /\ mem \in [EventId -> Event] /\ mem[id] = cur
        /\ mem[p].act = ev[p].act /\ mem[p].cookie = ev[p].cookie /\ mem[p].path = ev[p].path
        /\ mem[p].pair = id
        /\ \A i \in EventId \ {id, p} : mem[i] = ev[i]
    <3>1. mem = [i \in EventId |-> IF i = id THEN cur
                                   ELSE IF cur.pair # Null /\ i = cur.pair
                                        THEN [ev[i] EXCEPT !.pair = id] ELSE ev[i]]
      BY DEF Linked
    <3> HIDE DEF mem
    <3>2. \A i \in EventId : [ev[i] EXCEPT !.pair = id] \in Event
      BY <1>1 DEF Event
    <3>3. mem[p] = [ev[p] EXCEPT !.pair = id] /\ ev[p] \in Event
      BY <3>1, <2>3, <2>5, <1>1
    <3>4. mem \in [EventId -> Event]
      BY <3>1, <3>2, <2>5, <1>1
    <3>5. /\ mem[p].act = ev[p].act /\ mem[p].cookie = ev[p].cookie /\ mem[p].path = ev[p].path
          /\ mem[p].pair = id
      BY <3>3 DEF Event
    <3> QED BY <3>1, <3>4, <3>5, <2>5, <1>1
  <2> HIDE DEF mem
  <2>7. rest[t].act = "rename_to" /\ ev[p].cookie = rest[t].cookie /\ ev[p].act = "rename_from"
    BY <1>1, <1>2, <1>4, <2>3 DEF Good, Pending
  <2>8. Good(list \cup {alloc + 1}, mem, Batched, r, alloc + 1, cookie)
    <3>1. cur \in Event /\ cur.act = "rename_to" /\ cur.cookie = rest[t].cookie /\ cur.pair = p
      BY <2>5
    <3>2. p \in list
      BY <2>3
    <3>3. Done \in Event /\ Done.act # "rename_to" /\ Done.cookie = 0
      BY DoneEvent
    <3>4. /\ mem \in [EventId -> Event] /\ mem[alloc + 1] = cur
          /\ mem[p].act = ev[p].act /\ mem[p].cookie = ev[p].cookie
          /\ mem[p].pair = alloc + 1
          /\ \A i \in EventId \ {alloc + 1, p} : mem[i] = ev[i]
      BY <2>6
    <3>5. /\ alloc < MaxEvent /\ Good(list, ev, Batched, rest, alloc, cookie)
          /\ rest[t].act = "rename_to" /\ ev[p].cookie = rest[t].cookie
      BY <1>1, <2>7
    <3> HIDE DEF e, same
    <3> QED BY <3>1, <3>2, <3>3, <3>4, <3>5, AppendTo
  <2>9. Agree(Batched, mem, ev)
    BY <1>1, <2>3, <2>6 DEF Agree
  <2>10. \A i \in list :
           /\ mem[i].act = ev[i].act /\ mem[i].path = ev[i].path /\ mem[i].cookie = ev[i].cookie
           /\ mem[i].pair = ev[i].pair \/ ev[i].act = "rename_from"
    <3> SUFFICES ASSUME NEW i \in list
                 PROVE  /\ mem[i].act = ev[i].act /\ mem[i].path = ev[i].path
                        /\ mem[i].cookie = ev[i].cookie
                        /\ mem[i].pair = ev[i].pair \/ ev[i].act = "rename_from"
      OBVIOUS
    <3>1. i \in EventId \ {id}
      BY <1>1
    <3> HIDE DEF same, e, id
    <3> QED BY <3>1, <2>6, <2>7
  <2> HIDE DEF r
  <2>11. Entered(id, cur, mem, r, cookie)
    BY <1>1, <2>5, <2>6, <2>8, <2>9, <2>10 DEF Entered
  <2> HIDE DEF same
  <2> QED BY <2>3, <2>5, <2>7, <2>11 DEF mem, cur, r
<1> QED BY <1>2, <1>3, <1>4

(* What has been entered is merged.                                        *)
LEMMA EnterSafe ==
  ASSUME IInv, NEW t \in Thread, pc[t] = "idle", NEW act, NEW path, NEW c, NEW r, NEW k,
         Entered(alloc + 1, Incoming(act, path, c), Linked(alloc + 1, Incoming(act, path, c)), r, k),
         DoEventMerge(t, act, path, c)
  PROVE  /\ Good(list', ev', Batched', r, alloc', k)
         /\ events_number' = Cardinality(list')
         /\ Arrays' /\ armed' \in BOOLEAN /\ Undisturbed(ev)
<1>1. alloc < MaxEvent
  BY DEF DoEventMerge
<1>2. events_number = Cardinality(list) /\ Arrays /\ armed \in BOOLEAN /\ batch[t] = {}
  BY <1>1, Entering
<1> QED BY <1>2, MergeStep DEF Entered

LEMMA SubmitSafe ==
  ASSUME IInv, NEW t \in Thread, NEW act \in {"new", "delete", "other"},
         NEW p \in Path \cup {NoPath}, pc[t] = "idle", DoEventMerge(t, act, p, 0)
  PROVE  /\ Good(list', ev', Batched', rest, alloc', cookie)
         /\ events_number' = Cardinality(list')
         /\ Arrays' /\ armed' \in BOOLEAN /\ Undisturbed(ev)
<1>1. alloc < MaxEvent
  BY DEF DoEventMerge
<1> QED BY <1>1, EnterPlain, EnterSafe

-----------------------------------------------------------------------------
(* The actions.                                                            *)

LEMMA SubmitStep ==
  ASSUME IInv, NEW t \in Thread, NEW act \in {"new", "delete", "other"},
         NEW p \in Path \cup {NoPath}, Submit(t, act, p)
  PROVE  IInv' /\ Undisturbed(ev)
<1>1. /\ pc[t] = "idle" /\ DoEventMerge(t, act, p, 0)
      /\ quit' = quit /\ rest' = rest /\ cookie' = cookie
  BY DEF Submit, Ready
<1>2. /\ Good(list', ev', Batched', rest, alloc', cookie)
      /\ events_number' = Cardinality(list') /\ Arrays' /\ armed' \in BOOLEAN
      /\ Undisturbed(ev)
  BY <1>1, SubmitSafe
<1> QED BY <1>1, <1>2 DEF IInv

LEMMA SubmitTwiceStep ==
  ASSUME IInv, NEW t \in Thread, NEW p \in Path, SubmitTwice(t, p)
  PROVE  IInv' /\ Undisturbed(ev)
<1> DEFINE e == Fresh("new", p, 0)
<1>1. /\ pc[t] = "idle" /\ DoEventMerge(t, "new", p, 0)
      /\ quit' = quit /\ rest' = [rest EXCEPT ![t] = e] /\ cookie' = cookie
  BY DEF SubmitTwice, Ready
<1>2. /\ Good(list', ev', Batched', rest, alloc', cookie)
      /\ events_number' = Cardinality(list') /\ Arrays' /\ armed' \in BOOLEAN
      /\ Undisturbed(ev)
  BY <1>1, SubmitSafe
<1>3. e \in Event /\ e.act = "new" /\ e.cookie = 0
  BY FreshEvent DEF Action
<1> HIDE DEF e
<1>4. \A i \in list' : (ev')[i].cookie = rest[t].cookie => Sendable((ev')[i])
  <2>1. rest[t].cookie = 0
    BY DoneEvent DEF SubmitTwice, Ready
  <2> QED BY <1>2, <2>1 DEF Good, Cookies, Sendable, Renames
<1>5. Good(list', ev', Batched', [rest EXCEPT ![t] = e], alloc', cookie)
  BY <1>2, <1>3, <1>4, NewRest
<1> QED BY <1>1, <1>2, <1>5 DEF IInv

LEMMA SubmitRenameStep ==
  ASSUME IInv, NEW t \in Thread, NEW p \in Path, NEW q \in Path, SubmitRename(t, p, q)
  PROVE  IInv' /\ Undisturbed(ev)
<1>1. /\ pc[t] = "idle" /\ DoEventMerge(t, "rename_from", p, cookie + 1) /\ alloc < MaxEvent
      /\ rest[t] = Done /\ quit' = quit /\ cookie' = cookie + 1
      /\ rest' = [rest EXCEPT ![t] = Fresh("rename_to", q, cookie + 1)]
  BY DEF SubmitRename, Ready, DoEventMerge
<1>2. /\ Good(list', ev', Batched', rest', alloc', cookie')
      /\ events_number' = Cardinality(list') /\ Arrays' /\ armed' \in BOOLEAN
      /\ Undisturbed(ev)
  BY <1>1, EnterFrom, EnterSafe
<1> QED BY <1>1, <1>2 DEF IInv

LEMMA SubmitRestStep ==
  ASSUME IInv, NEW t \in Thread, SubmitRest(t)
  PROVE  IInv' /\ Undisturbed(ev)
<1>1. /\ pc[t] = "idle" /\ rest[t] # Done
      /\ DoEventMerge(t, rest[t].act, rest[t].path, rest[t].cookie) /\ alloc < MaxEvent
      /\ rest' = [rest EXCEPT ![t] = Done] /\ quit' = quit /\ cookie' = cookie
  BY DEF SubmitRest, DoEventMerge
<1>2. /\ Good(list', ev', Batched', rest', alloc', cookie')
      /\ events_number' = Cardinality(list') /\ Arrays' /\ armed' \in BOOLEAN
      /\ Undisturbed(ev)
  BY <1>1, EnterRest, EnterSafe
<1> QED BY <1>1, <1>2 DEF IInv

LEMMA TimerExpireStep == IInv /\ TimerExpire => IInv'
<1> SUFFICES ASSUME IInv, TimerExpire PROVE IInv'
  OBVIOUS
<1>1. /\ armed' = FALSE /\ pc' = [pc EXCEPT ![Timer] = "expired"] /\ pc[Timer] = "idle"
      /\ UNCHANGED <<ev, list, events_number, quit, batch, rest, alloc, cookie>>
  BY DEF TimerExpire, bufferVars
<1>2. Batched' = Batched
  BY <1>1 DEF Batched
<1>3. Arrays'
  BY <1>1 DEF Arrays, Context, IInv
<1>4. Good(list', ev', Batched', rest', alloc', cookie')
  BY <1>1, <1>2 DEF IInv
<1> QED BY <1>1, <1>3, <1>4 DEF IInv

LEMMA TimerCallbackStep == IInv /\ TimerCallback => IInv' /\ Undisturbed(ev)
<1> SUFFICES ASSUME IInv, TimerCallback PROVE IInv' /\ Undisturbed(ev)
  OBVIOUS
<1>1. /\ pc[Timer] = "expired" /\ PickEvents(Timer, list, ev, events_number)
      /\ UNCHANGED <<quit, armed, rest, alloc, cookie>>
  BY DEF TimerCallback
<1>2. Timer \in Context /\ batch[Timer] = {}
  BY <1>1 DEF IInv, Arrays, Context
<1>3. /\ Good(list', ev', Batched', rest, alloc, cookie)
      /\ events_number' = Cardinality(list') /\ Arrays' /\ Undisturbed(ev)
  BY <1>1, <1>2, PickSafe DEF IInv
<1> QED BY <1>1, <1>3 DEF IInv

LEMMA SendStep ==
  ASSUME IInv, NEW c \in Context, Send(c)
  PROVE  IInv'
<1> DEFINE x == Min(batch[c])
<1>1. /\ pc[c] = "notify" /\ batch[c] # {}
      /\ batch' = [batch EXCEPT ![c] = batch[c] \ {x}]
      /\ ev' = Freed(ev, {x})
      /\ UNCHANGED <<list, events_number, quit, armed, pc, rest, alloc, cookie>>
  BY DEF Send
<1>2. Arrays /\ Good(list, ev, Batched, rest, alloc, cookie) /\ ev \in [EventId -> Event]
  BY DEF IInv, Good, Typed
<1>3. x \in batch[c] /\ x \in Batched /\ x \in EventId
  <2>1. batch[c] \subseteq EventId
    BY <1>2 DEF Arrays
  <2>2. x \in batch[c]
    BY <2>1, <1>1, MinExists
  <2> QED BY <2>1, <2>2 DEF Batched
<1> HIDE DEF x
<1>4. Batched' = Batched \ {x}
  BY <1>1, <1>2, <1>3 DEF Arrays, Batched
<1>5. /\ ev' \in [EventId -> Event] /\ ev'[x] = Free
      /\ \A i \in EventId \ {x} : ev'[i] = ev[i]
  <2>1. Free \in Event
    BY DEF Free, Event, Null
  <2> QED BY <2>1, <1>1, <1>2, <1>3 DEF Freed
<1>6. Good(list, ev', Batched \ {x}, rest, alloc, cookie)
  BY <1>2, <1>3, <1>5, SendOne
<1>7. Arrays'
  BY <1>1, <1>2, <1>3 DEF Arrays
<1> QED BY <1>1, <1>4, <1>6, <1>7 DEF IInv

LEMMA NotifyReadStep ==
  ASSUME IInv, NEW c \in Context, NotifyRead(c)
  PROVE  IInv'
<1>1. /\ pc[c] = "notify" /\ batch[c] = {}
      /\ pc' = [pc EXCEPT ![c] = IF events_number >= 1 THEN "rearm" ELSE "idle"]
      /\ UNCHANGED <<ev, list, events_number, quit, armed, batch, rest, alloc, cookie>>
  BY DEF NotifyRead, bufferVars
<1>2. Batched' = Batched
  BY <1>1 DEF Batched
<1>3. Arrays'
  BY <1>1 DEF Arrays, IInv
<1>4. Good(list', ev', Batched', rest', alloc', cookie')
  BY <1>1, <1>2 DEF IInv
<1> QED BY <1>1, <1>3, <1>4 DEF IInv

LEMMA NotifyRearmStep ==
  ASSUME IInv, NEW c \in Context, NotifyRearm(c)
  PROVE  IInv'
<1>1. /\ pc[c] = "rearm" /\ armed' = TRUE /\ pc' = [pc EXCEPT ![c] = "idle"]
      /\ UNCHANGED <<ev, list, events_number, quit, batch, rest, alloc, cookie>>
  BY DEF NotifyRearm, bufferVars
<1>2. Batched' = Batched
  BY <1>1 DEF Batched
<1>3. Arrays'
  BY <1>1 DEF Arrays, IInv
<1>4. Good(list', ev', Batched', rest', alloc', cookie')
  BY <1>1, <1>2 DEF IInv
<1> QED BY <1>1, <1>3, <1>4 DEF IInv

LEMMA StillStep ==
  ASSUME IInv, UNCHANGED <<ev, list, events_number, armed, batch, pc, rest, alloc, cookie>>,
         quit' \in BOOLEAN
  PROVE  IInv'
<1>1. Batched' = Batched
  BY DEF Batched
<1>2. Arrays'
  BY DEF Arrays, IInv
<1>3. Good(list', ev', Batched', rest', alloc', cookie')
  BY <1>1 DEF IInv
<1> QED BY <1>2, <1>3 DEF IInv

-----------------------------------------------------------------------------
LEMMA InitGood == Init => IInv
<1> SUFFICES ASSUME Init PROVE IInv
  OBVIOUS
<1>1. /\ ev = [i \in EventId |-> Free] /\ list = {} /\ rest = [t \in Thread |-> Done]
      /\ batch = [c \in Context |-> {}] /\ alloc = 0 /\ cookie = 0
      /\ pc = [c \in Context |-> "idle"]
      /\ events_number = 0 /\ quit = FALSE /\ armed = FALSE
  BY DEF Init
<1>2. Batched = {}
  BY <1>1 DEF Batched
<1>3. Arrays
  BY <1>1 DEF Arrays
<1>4. Free \in Event /\ Done \in Event
  BY DEF Done, Free, Event, Null
<1>5. Typed(list, ev, Batched, rest, alloc, cookie)
  BY <1>1, <1>2, <1>4, Assumptions DEF Typed
<1>6. Owned(list, ev, Batched, alloc) /\ Cookies(list, ev, Batched, cookie)
      /\ Mates(list, ev) /\ Pairs(list, ev) /\ FromFirst(list, ev, Batched)
      /\ Awaited(list, ev, rest)
  BY <1>1, <1>2 DEF Owned, Cookies, Mates, Pairs, FromFirst, Awaited
<1>7. Pending(list, ev, Batched, rest, cookie)
  BY <1>1, DoneEvent DEF Pending
<1>8. events_number = Cardinality(list)
  BY <1>1, FS_EmptySet
<1> QED BY <1>1, <1>3, <1>5, <1>6, <1>7, <1>8 DEF IInv, Good

LEMMA NextGood == IInv /\ [Next]_vars => IInv'
<1> SUFFICES ASSUME IInv, [Next]_vars PROVE IInv'
  OBVIOUS
<1>1. ASSUME NEW t \in Thread, Handler(t) PROVE IInv'
  <2>1. ASSUME NEW p \in Path, Submit(t, "new", p) \/ Submit(t, "delete", p) PROVE IInv'
    BY <2>1, SubmitStep
  <2>2. ASSUME NEW p \in Path, SubmitTwice(t, p) PROVE IInv'
    BY <2>2, SubmitTwiceStep
  <2>3. CASE Submit(t, "other", NoPath)
    BY <2>3, SubmitStep
  <2>4. ASSUME NEW p \in Path, NEW q \in Path, SubmitRename(t, p, q) PROVE IInv'
    BY <2>4, SubmitRenameStep
  <2> QED BY <1>1, <2>1, <2>2, <2>3, <2>4 DEF Handler
<1>2. ASSUME NEW t \in Thread, SubmitRest(t) PROVE IInv'
  BY <1>2, SubmitRestStep
<1>3. CASE TimerExpire
  BY <1>3, TimerExpireStep
<1>4. CASE TimerCallback
  BY <1>4, TimerCallbackStep
<1>5. CASE SetQuit
  BY <1>5, StillStep DEF SetQuit, bufferVars
<1>6. ASSUME NEW c \in Context, Notify(c) PROVE IInv'
  BY <1>6, SendStep, NotifyReadStep, NotifyRearmStep DEF Notify
<1>7. CASE UNCHANGED vars
  BY <1>7, StillStep DEF vars, IInv
<1> QED BY <1>1, <1>2, <1>3, <1>4, <1>5, <1>6, <1>7 DEF Next

(* The buffer keeps its inductive invariant, whatever the number of        *)
(* threads, the limits of the buffer and the order of the locked sections. *)
THEOREM Invariance == Spec => []IInv
<1> QED BY InitGood, NextGood, PTL DEF Spec

-----------------------------------------------------------------------------
(* The events, the list and the arrays keep their types, the counter of    *)
(* the list never underflows and no cookie or address is out of range.     *)
THEOREM TypeCorrect == Spec => []TypeOK
<1>1. IInv => TypeOK
  <2> SUFFICES ASSUME IInv PROVE TypeOK
    OBVIOUS
  <2>1. Typed(list, ev, Batched, rest, alloc, cookie) /\ Arrays
    BY DEF IInv, Good
  <2>2. events_number \in Nat
    BY <2>1, FiniteLists DEF Typed, IInv
  <2> QED BY <2>1, <2>2 DEF TypeOK, Typed, Arrays, IInv
<1> QED BY <1>1, Invariance, PTL

(* Every allocated event is in the list or in exactly one array: merging,  *)
(* moving and sending neither leak an event nor free one twice.            *)
THEOREM NothingLeaks == Spec => []NoLeak
<1>1. IInv => NoLeak
  <2> SUFFICES ASSUME IInv PROVE NoLeak
    OBVIOUS
  <2>1. Typed(list, ev, Batched, rest, alloc, cookie) /\ Owned(list, ev, Batched, alloc)
        /\ Arrays
    BY DEF IInv, Good
  <2>2. Free.act = "free"
    BY DEF Free
  <2>3. {i \in EventId : ev[i] # Free} = list \cup Batched
    BY <2>1, <2>2 DEF Typed, Owned
  <2> QED BY <2>1, <2>3 DEF NoLeak, Owned, Arrays
<1> QED BY <1>1, Invariance, PTL

(* Every pair pointer the code follows leads to the listed other half of   *)
(* the same rename, which points back.                                     *)
THEOREM PairsAreLive == Spec => []PairsLive
<1>1. IInv => PairsLive
  BY DEF IInv, Good, Pairs, PairsLive
<1> QED BY <1>1, Invariance, PTL

(* No rename_to is moved out of the buffer before its rename_from.         *)
THEOREM RenamesInOrder == Spec => []RenameFromFirst
<1>1. IInv => RenameFromFirst
  BY DEF IInv, Good, FromFirst, RenameFromFirst
<1> QED BY <1>1, Invariance, PTL

(* The events that a context has moved to its array stay as they are until *)
(* it sends them, without the lock: no merge in another context, and no    *)
(* pair pointer it follows, reaches them.                                  *)
THEOREM SendsUndisturbed == Spec => SendsWhatWasPicked
<1> DEFINE Kept == \A c \in Context : \A i \in batch[c] \cap batch'[c] : ev'[i] = ev[i]
<1>1. Undisturbed(ev) => Kept
  BY DEF Undisturbed, Agree, Batched
<1>2. UNCHANGED ev => Kept
  OBVIOUS
<1>3. ASSUME IInv, NEW c \in Context, Send(c) PROVE Kept
  <2> DEFINE x == Min(batch[c])
  <2>1. Arrays /\ ev \in [EventId -> Event]
    BY <1>3 DEF IInv, Good, Typed
  <2>2. batch' = [batch EXCEPT ![c] = batch[c] \ {x}] /\ ev' = Freed(ev, {x}) /\ batch[c] # {}
    BY <1>3 DEF Send
  <2>3. x \in batch[c]
    BY <2>1, <2>2, MinExists DEF Arrays
  <2> HIDE DEF x
  <2>4. \A i \in EventId \ {x} : ev'[i] = ev[i]
    BY <2>2 DEF Freed
  <2>5. \A d \in Context : batch[d] \subseteq EventId /\ x \notin batch'[d] \cap batch[d]
    BY <2>1, <2>2, <2>3 DEF Arrays
  <2> QED BY <2>4, <2>5
<1>4. IInv /\ [Next]_vars => [Kept]_vars
  <2> SUFFICES ASSUME IInv, [Next]_vars PROVE Kept
    OBVIOUS
  <2> HIDE DEF Kept
  <2>1. ASSUME NEW t \in Thread, Handler(t) PROVE Kept
    BY <2>1, <1>1, SubmitStep, SubmitTwiceStep, SubmitRenameStep DEF Handler
  <2>2. ASSUME NEW t \in Thread, SubmitRest(t) PROVE Kept
    BY <2>2, <1>1, SubmitRestStep
  <2>3. CASE TimerExpire \/ SetQuit \/ UNCHANGED vars
    BY <2>3, <1>2 DEF TimerExpire, SetQuit, vars, bufferVars
  <2>4. CASE TimerCallback
    BY <2>4, <1>1, TimerCallbackStep
  <2>5. ASSUME NEW c \in Context, Notify(c) PROVE Kept
    BY <2>5, <1>2, <1>3 DEF Notify, NotifyRead, NotifyRearm, bufferVars
  <2> QED BY <2>1, <2>2, <2>3, <2>4, <2>5 DEF Next
<1> QED BY <1>4, Invariance, PTL DEF Spec, SendsWhatWasPicked

-----------------------------------------------------------------------------
(* The limits of the event buffer: how many events its list and the arrays *)
(* events_tosend hold.                                                     *)

(* The threads between the two events of a rename.  on_vfs_rename_ret runs *)
(* for maxactive = 64 threads at most, and MERGE_BUFFER_SIZE is 100.       *)
Renaming == {t \in Thread : rest[t].act = "rename_to"}

FewRenames == IsFiniteSet(Renaming) /\ Cardinality(Renaming) < BufferSize

-----------------------------------------------------------------------------
(* If no event of the list may be sent, each is a rename_from with a       *)
(* thread of its own.                                                      *)
LEMMA NoneSendable ==
  ASSUME NEW l, NEW m, NEW o, NEW r, NEW a, NEW k, Good(l, m, o, r, a, k),
         NEW T, T = {t \in Thread : r[t].act = "rename_to"}, IsFiniteSet(T),
         \A i \in l : ~Sendable(m[i])
  PROVE  Cardinality(l) <= Cardinality(T)
<1> DEFINE f == [i \in l |-> CHOOSE t \in T : r[t].cookie = m[i].cookie]
<1>1. \A i \in l : f[i] \in T /\ r[f[i]].cookie = m[i].cookie
  BY DEF Good, Awaited
<1>2. ASSUME NEW i \in l, NEW j \in l, f[i] = f[j] PROVE i = j
  <2>1. m[i].cookie = m[j].cookie
    BY <1>1, <1>2
  <2>2. m[i].cookie # 0 /\ m[i].act = "rename_from" /\ m[j].act = "rename_from"
    BY DEF Good, Cookies, Renames, Sendable
  <2>3. ~(i < j) /\ ~(j < i)
    BY <2>1, <2>2 DEF Good, Mates
  <2>4. i \in Nat /\ j \in Nat
    BY Assumptions DEF Good, Typed, EventId
  <2> QED BY <2>3, <2>4
<1>3. f \in Injection(l, T)
  <2>1. f \in [l -> T]
    BY <1>1
  <2> HIDE DEF f
  <2> QED BY <2>1, <1>2 DEF Injection, IsInjective
<1> QED BY <1>3, FS_Injection

(* pick_events moves nothing only if nothing may be moved.                 *)
LEMMA PickedNone ==
  ASSUME NEW l \in SUBSET EventId, NEW m, Picked(l, m) = {}
  PROVE  l = {} \/ (~quit /\ \A i \in l : ~Sendable(m[i]))
<1> DEFINE able == {i \in l : Sendable(m[i])}
<1>1. SUFFICES ASSUME l # {} PROVE ~quit /\ able = {}
  OBVIOUS
<1>2. ~quit
  BY <1>1 DEF Picked
<1>3. ASSUME able # {} PROVE FALSE
  <2>1. able \subseteq EventId
    OBVIOUS
  <2> HIDE DEF able
  <2>2. PICK s \in able : \A x \in able : s <= x
    BY <1>3, <2>1, MinExists
  <2>3. {j \in able : j <= s} = {s}
    <3>1. \A j \in able : j \in Nat
      BY <2>1, Assumptions DEF EventId
    <3> QED BY <2>2, <3>1
  <2>4. Cardinality({j \in able : j <= s}) <= DumpSize
    BY <2>3, FS_Singleton, Assumptions
  <2> QED BY <2>2, <2>4, <1>2 DEF Picked, able
<1> QED BY <1>2, <1>3

Fits ==
  /\ events_number < BufferSize
  /\ \A c \in Context : Cardinality(batch[c]) <= BufferSize

(* check_events on a list that has at most reached the limit.              *)
LEMMA CheckFits ==
  ASSUME IInv, IInv', Fits, FewRenames', NEW t \in Thread,
         NEW l \in SUBSET EventId, NEW m, NEW n, n = Cardinality(l), n <= BufferSize,
         CheckEvents(t, l, m, n)
  PROVE  Fits'
<1>1. IsFiniteSet(l) /\ n \in Nat
  BY FiniteLists
<1>2. CASE n < BufferSize /\ Keep(l, m, n)
  BY <1>2 DEF Keep, Fits
<1>3. CASE n >= BufferSize /\ PickEvents(t, l, m, n)
  <2> DEFINE P == Picked(l, m)
  <2>1. /\ list' = l \ P /\ ev' = Unpaired(m, P) /\ events_number' = n - Cardinality(P)
        /\ batch' = [batch EXCEPT ![t] = P]
    BY <1>3 DEF PickEvents
  <2>2. P \subseteq l
    BY DEF Picked
  <2>3. P # {}
    <3> SUFFICES ASSUME P = {} PROVE FALSE
      OBVIOUS
    <3>1. list' = l
      BY <2>1
    <3>2. l # {}
      BY <1>3, FS_EmptySet, Assumptions
    <3>3. \A i \in l : ~Sendable(m[i])
      BY <3>2, PickedNone
    <3>4. \A i \in EventId : ev'[i] = m[i]
      BY <2>1 DEF Unpaired
    <3>5. \A i \in list' : ~Sendable((ev')[i])
      BY <3>1, <3>3, <3>4
    <3>6. Cardinality(list') <= Cardinality(Renaming')
      <4>1. Good(list', ev', Batched', rest', alloc', cookie')
        BY DEF IInv
      <4> QED BY <4>1, <3>5, NoneSendable DEF FewRenames, Renaming
    <3>7. IsFiniteSet(Renaming') /\ Cardinality(Renaming') < BufferSize
      BY DEF FewRenames
    <3>8. Cardinality(Renaming') \in Nat
      BY <3>7, FS_CardinalityType
    <3>9. Cardinality(l) < BufferSize
      BY <1>1, <3>1, <3>6, <3>7, <3>8, Assumptions
    <3> QED BY <3>9, <1>3, <1>1, Assumptions
  <2> HIDE DEF P
  <2>4. IsFiniteSet(P) /\ Cardinality(P) \in Nat /\ Cardinality(P) <= n
    BY <2>2, <1>1, FS_Subset, FS_CardinalityType
  <2>5. Cardinality(P) # 0
    BY <2>3, <2>4, FS_EmptySet
  <2>6. events_number' < BufferSize
    BY <2>1, <2>4, <2>5, <1>1, Assumptions
  <2>7. batch \in [Context -> SUBSET EventId]
    BY DEF IInv, Arrays
  <2>8. \A c \in Context : Cardinality(batch'[c]) <= BufferSize
    BY <2>1, <2>4, <2>7, <1>1, Assumptions DEF Fits
  <2> QED BY <2>6, <2>8 DEF Fits
<1> QED BY <1>1, <1>2, <1>3, Assumptions DEF CheckEvents

LEMMA MergeFits ==
  ASSUME IInv, IInv', Fits, FewRenames', NEW t \in Thread, NEW act, NEW path, NEW c,
         DoEventMerge(t, act, path, c)
  PROVE  Fits'
<1> DEFINE id == alloc + 1
           cur == Incoming(act, path, c)
           mem == Linked(id, cur)
           hits == {i \in list : Merges(mem[i], cur)}
           hit == Max(hits)
           after == Freed(Retagged(mem, Retag(mem[hit], cur)), {hit, id})
<1>1. /\ alloc < MaxEvent
      /\ \/ hits = {} /\ CheckEvents(t, list \cup {id}, mem, events_number + 1)
         \/ hits # {} /\ CheckEvents(t, list \ {hit}, after, events_number - 1)
  BY DEF DoEventMerge
<1>2. /\ list \in SUBSET EventId /\ id \in EventId /\ id \notin list
      /\ events_number = Cardinality(list)
  BY <1>1, Assumptions DEF IInv, Good, Typed, Owned, EventId
<1>3. IsFiniteSet(list) /\ events_number \in Nat /\ events_number < BufferSize
  BY <1>2, FiniteLists DEF Fits
<1>4. CASE hits = {}
  <2>1. Cardinality(list \cup {id}) = events_number + 1
    BY <1>2, <1>3, FS_AddElement
  <2>2. CheckEvents(t, list \cup {id}, mem, events_number + 1)
    BY <1>1, <1>4
  <2> HIDE DEF mem, id
  <2> QED BY <2>1, <2>2, <1>2, <1>3, CheckFits, Assumptions
<1>5. CASE hits # {}
  <2>1. CheckEvents(t, list \ {hit}, after, events_number - 1)
    BY <1>1, <1>5
  <2> HIDE DEF after, hit
  <2>2. events_number - 1 < BufferSize
    BY <1>3, Assumptions
  <2>3. events_number' = events_number - 1 /\ batch' = batch
    BY <2>1, <2>2, <1>3, Assumptions DEF CheckEvents, Keep
  <2> QED BY <2>2, <2>3 DEF Fits
<1> QED BY <1>4, <1>5

LEMMA NextFits == IInv /\ IInv' /\ FewRenames' /\ Fits /\ [Next]_vars => Fits'
<1> SUFFICES ASSUME IInv, IInv', FewRenames', Fits, [Next]_vars PROVE Fits'
  OBVIOUS
<1>1. ASSUME NEW t \in Thread, Handler(t) PROVE Fits'
  BY <1>1, MergeFits DEF Handler, Submit, SubmitTwice, SubmitRename
<1>2. ASSUME NEW t \in Thread, SubmitRest(t) PROVE Fits'
  BY <1>2, MergeFits DEF SubmitRest
<1>3. CASE TimerExpire
  BY <1>3 DEF TimerExpire, bufferVars, Fits
<1>4. CASE TimerCallback
  <2> DEFINE P == Picked(list, ev)
  <2>1. /\ events_number' = events_number - Cardinality(P)
        /\ batch' = [batch EXCEPT ![Timer] = P]
    BY <1>4 DEF TimerCallback, PickEvents
  <2>2. P \subseteq list
    BY DEF Picked
  <2>3. /\ list \in SUBSET EventId /\ events_number = Cardinality(list)
        /\ batch \in [Context -> SUBSET EventId]
    BY DEF IInv, Good, Typed, Arrays
  <2> HIDE DEF P
  <2>4. IsFiniteSet(list) /\ Cardinality(list) \in Nat
    BY <2>3, FiniteLists
  <2>5. Cardinality(P) \in Nat /\ Cardinality(P) <= Cardinality(list)
    BY <2>2, <2>4, FS_Subset, FS_CardinalityType
  <2> QED BY <2>1, <2>3, <2>4, <2>5, Assumptions DEF Fits
<1>5. CASE SetQuit
  BY <1>5 DEF SetQuit, bufferVars, Fits
<1>6. ASSUME NEW c \in Context, Send(c) PROVE Fits'
  <2> DEFINE x == Min(batch[c])
  <2>1. batch' = [batch EXCEPT ![c] = batch[c] \ {x}] /\ events_number' = events_number
    BY <1>6 DEF Send
  <2>2. batch \in [Context -> SUBSET EventId]
    BY DEF IInv, Arrays
  <2> HIDE DEF x
  <2>3. IsFiniteSet(batch[c]) /\ Cardinality(batch[c]) \in Nat
    BY <2>2, FiniteLists
  <2>4. Cardinality(batch[c] \ {x}) <= Cardinality(batch[c]) /\ Cardinality(batch[c] \ {x}) \in Nat
    <3>1. batch[c] \ {x} \subseteq batch[c]
      OBVIOUS
    <3> QED BY <3>1, <2>3, FS_Subset, FS_CardinalityType
  <2>5. Cardinality(batch[c] \ {x}) <= BufferSize
    BY <2>3, <2>4, Assumptions DEF Fits
  <2> QED BY <2>1, <2>2, <2>5 DEF Fits
<1>7. ASSUME NEW c \in Context, NotifyRead(c) \/ NotifyRearm(c) PROVE Fits'
  BY <1>7 DEF NotifyRead, NotifyRearm, bufferVars, Fits
<1>8. CASE UNCHANGED vars
  BY <1>8 DEF vars, Fits
<1> QED BY <1>1, <1>2, <1>3, <1>4, <1>5, <1>6, <1>7, <1>8 DEF Next, Notify

(* The list stays below MERGE_BUFFER_SIZE and events_tosend never loses    *)
(* the null pointer that ends it, as long as fewer renames than that are   *)
(* between their two events: pick_events, called at the limit, then always *)
(* finds an event that it may move.                                        *)
THEOREM BufferNeverFull == Spec /\ []FewRenames => []BufferFits
<1>1. Init => Fits
  <2> SUFFICES ASSUME Init PROVE Fits
    OBVIOUS
  <2>1. events_number = 0 /\ batch = [c \in Context |-> {}]
    BY DEF Init
  <2> QED BY <2>1, FS_EmptySet, Assumptions DEF Fits
<1>2. IInv /\ Fits => BufferFits
  BY DEF IInv, Fits, BufferFits
<1> QED BY <1>1, <1>2, Invariance, NextFits, PTL DEF Spec
=============================================================================
