------------------------------- MODULE FsBuf -------------------------------
(***************************************************************************)
(* The file name buffer (library/src/fs_buf.c): a tree of names packed     *)
(* into one block of memory, and the scan that builds it (walkdir.c).      *)
(*                                                                         *)
(* The block is a sequence of cells, a name with its tag or an end tag, and *)
(* an offset is the position of a cell.  The siblings of a directory stand *)
(* side by side, an end tag after them; the tag of a directory says how    *)
(* far ahead its first kid is, an end tag how far back the parent is, and  *)
(* 0 in a tag stands for no kids and for the root.  The operations take    *)
(* the write lock, so each of them is one step.                            *)
(***************************************************************************)
EXTENDS Integers, Sequences, FiniteSets, SequencesExt, FiniteSetsExt, TLC

CONSTANTS
  Name,       \* the names of files
  Depth,      \* bound on the length of a path
  InitFs,     \* the file system when the scan starts
  Skip,       \* directories the scan does not enter: other partitions
  MaxChanges, \* bound on the changes of the file system during the scan
  MaxEntries, \* bound on the names in the buffer and in the file system
  Lost        \* stands for the tree of a buffer that is not whole

Path == SeqOf(Name, Depth) \ {<<>>}

ASSUME FsBufAssumptions ==
  /\ DOMAIN InitFs \subseteq Path /\ InitFs # <<>> /\ Skip \subseteq Path
  /\ {Depth, MaxChanges, MaxEntries} \subseteq Nat

VARIABLES
  buf,     \* fs_buf: from first_name_off to tail
  changes, \* what the last operation told of the offsets it moved
  op,      \* history: the last operation
  paths,   \* history: what lookups find in it, once it is built
  intact,  \* whether the root has its end tag, and nothing was put at offset 0
  phase,   \* "walking", then "built", then "ready"
  stack,   \* walkdir: the calls under way, outermost first
  fs,      \* the file system during the scan: for each path, whether a directory
  mods,    \* how many times it has changed
  seen,    \* history: what has existed during the scan
  kept     \* history: what has existed all the time

walkVars == <<stack, fs, mods, seen, kept>>
vars == <<buf, changes, op, paths, intact, phase, walkVars>>

-----------------------------------------------------------------------------
(* Cells and offsets                                                       *)

FileCell(n) == [name |-> n, dir |-> FALSE, rel |-> 0]
DirCell(n) == [name |-> n, dir |-> TRUE, rel |-> 0]
EndCell(rel) == [name |-> "", dir |-> TRUE, rel |-> rel]
NameCell(n, is_dir) == IF is_dir THEN DirCell(n) ELSE FileCell(n)

DATA_START == -1
first_name_off == 1
tail(b) == Len(b) + 1

IsEnd(b, i) == b[i].name = ""

(* insert_new_name, with the cells to put at off                           *)
InsertCells(b, off, cells) == SubSeq(b, 1, off - 1) \o cells \o SubSeq(b, off, Len(b))
DropCells(b, from, to) == SubSeq(b, 1, from - 1) \o SubSeq(b, to, Len(b))

set_parent_offset(b, off, parent) ==
  [b EXCEPT ![off] = EndCell(IF parent > 0 THEN off - parent ELSE 0)]

do_set_kids_off(b, off, kids) ==
  [b EXCEPT ![off].rel = IF kids # 0 THEN kids - off ELSE 0]

get_kids_offset(b, off) == IF ~b[off].dir \/ b[off].rel = 0 THEN 0 ELSE off + b[off].rel

get_folder_tail_offset(b, off) ==
  LET ends == {i \in off .. Len(b) : IsEnd(b, i)} IN IF ends = {} THEN 0 ELSE Min(ends)

get_parent_offset(b, off) ==
  LET end == get_folder_tail_offset(b, off)
  IN IF end = 0 \/ b[end].rel = 0 THEN 0 ELSE end - b[end].rel

get_1st_sibling_offset(b, off) ==
  LET parent == get_parent_offset(b, off)
  IN IF parent = 0 THEN first_name_off ELSE get_kids_offset(b, parent)

(* The names from off to the next end tag.                                 *)
Group(b, off) ==
  LET end == get_folder_tail_offset(b, off) IN off .. (IF end = 0 THEN Len(b) ELSE end - 1)

RECURSIVE PathFrom(_, _, _)
PathFrom(b, off, path) ==
  IF path = <<>> THEN off
  ELSE LET hits == {i \in Group(b, off) : b[i].name = Head(path)}
           kids == get_kids_offset(b, Min(hits))
       IN IF hits = {} THEN 0
          ELSE IF Len(path) = 1 THEN Min(hits)
          ELSE IF kids = 0 THEN 0 ELSE PathFrom(b, kids, Tail(path))

(* 0 when there is no such path                                            *)
get_path_offset(b, path) ==
  IF path = <<>> THEN DATA_START ELSE PathFrom(b, first_name_off, path)

RECURSIVE get_path_by_name_off(_, _)
get_path_by_name_off(b, off) ==
  LET parent == get_parent_offset(b, off)
  IN Append(IF parent = 0 THEN <<>> ELSE get_path_by_name_off(b, parent), b[off].name)

RECURSIVE get_tree_end_offset(_, _)
get_tree_end_offset(b, off) ==
  LET end == get_folder_tail_offset(b, off)
      parents == {i \in Group(b, off) : get_kids_offset(b, i) # 0}
  IN IF parents # {} THEN get_tree_end_offset(b, get_kids_offset(b, Max(parents)))
     ELSE IF end = 0 THEN tail(b) ELSE end + 1

(* Where the kids of a directory without kids belong: before those of the  *)
(* next directory after it, or after one of the directories around it.     *)
RECURSIVE get_insert_offset(_, _)
get_insert_offset(b, off) ==
  LET later == {i \in Group(b, off) \ {off} : get_kids_offset(b, i) # 0}
      parent == get_parent_offset(b, off)
  IN IF later # {} THEN get_kids_offset(b, Min(later))
     ELSE IF parent = 0 THEN tail(b) ELSE get_insert_offset(b, parent)

-----------------------------------------------------------------------------
(* Offsets that follow the cells                                           *)

UPDATE_KIDS_OFF(b, off, delta) ==
  LET kids == get_kids_offset(b, off) + delta
      b1 == do_set_kids_off(b, off, kids)
  IN IF get_kids_offset(b, off) = 0 THEN b
     ELSE set_parent_offset(b1, get_folder_tail_offset(b1, kids), off)

UpdateAll(b, offs, delta) ==
  FoldLeft(LAMBDA c, i : UPDATE_KIDS_OFF(c, i, delta), b, SetToSortSeq(offs, <))

(* The directories after off, after its parent, and so on up to the root.  *)
RECURSIVE UpdateAfter(_, _, _)
UpdateAfter(b, off, delta) ==
  IF off = 0 \/ off > Len(b) THEN b
  ELSE LET parent == get_parent_offset(b, off)
       IN UpdateAfter(UpdateAll(b, Group(b, off) \ {off}, delta), parent, delta)

(* Mutant: the siblings before start_off are left as they are.             *)
update_offsetsAfter(b, start_off, delta, update_siblings) ==
  UpdateAfter(b, IF update_siblings THEN get_parent_offset(b, start_off) ELSE start_off, delta)

update_offsets(b, start_off, delta, update_siblings) ==
  IF ~update_siblings THEN UpdateAfter(b, start_off, delta)
  ELSE UpdateAfter(UpdateAll(b, get_1st_sibling_offset(b, start_off) .. (start_off - 1), delta),
                   get_parent_offset(b, start_off), delta)

-----------------------------------------------------------------------------
(* The operations, as the result that each returns, the buffer it leaves   *)
(* and what it tells of the offsets.                                       *)

ERR_NO_PATH == 2
ERR_PATH_EXISTS == 3
ERR_PATH_DIFFER == 5
ERR_NOTEMPTY == 6

Rooted(b) == \E i \in DOMAIN b : IsEnd(b, i) /\ b[i].rel = 0

Failed(b, err) == [err |-> err, buf |-> b, changes |-> <<>>, kids |-> <<>>, whole |-> TRUE]
Done(b, chs, kids) ==
  [err |-> 0, buf |-> b, changes |-> chs, kids |-> kids, whole |-> Rooted(b)]
Change(off, delta) == [start_off |-> off, delta |-> delta]

(* What a caller finds in a record that was never written.                 *)
Unset == Change(1, 1)

IsFileAt(b, off) == off # DATA_START /\ ~b[off].dir

do_insert_path(b, path, is_dir) ==
  LET parent == get_path_offset(b, Front(path))
      first == IF parent = DATA_START THEN first_name_off ELSE get_kids_offset(b, parent)
      off == IF first = 0 THEN get_insert_offset(b, parent)
             ELSE LET end == get_folder_tail_offset(b, first) IN IF end = 0 THEN tail(b) ELSE end
      cell == NameCell(Last(path), is_dir)
  IN IF parent = 0 \/ IsFileAt(b, parent) THEN Failed(b, ERR_NO_PATH)
     ELSE IF first # 0 /\ \E i \in Group(b, first) : b[i].name = Last(path)
          THEN Failed(b, ERR_PATH_EXISTS)
     ELSE IF first = 0 \* an empty directory: its kids need an end tag
          THEN LET b1 == InsertCells(b, off, <<cell, EndCell(0)>>)
                   b2 == do_set_kids_off(set_parent_offset(b1, off + 1, parent), parent, off)
               IN Done(update_offsets(b2, off, 2, TRUE), <<Change(off, 2)>>, <<>>)
          ELSE LET b1 == InsertCells(b, off, <<cell>>)
                   b2 == IF parent = DATA_START THEN b1
                         ELSE set_parent_offset(b1, get_folder_tail_offset(b1, off), parent)
               IN Done(update_offsets(b2, off, 1, TRUE), <<Change(off, 1)>>, <<>>)

(* Mutant: the change is not told.                                         *)
RemoveKidsSilent(b, off) ==
  LET kids == get_kids_offset(b, off)
      end == get_tree_end_offset(b, kids)
      b1 == DropCells(do_set_kids_off(b, off, 0), kids, end)
  IN IF kids = 0 THEN Done(b, <<>>, <<>>)
     ELSE Done(update_offsets(b1, off, kids - end, FALSE), <<>>, SubSeq(b, kids, end - 1))

(* The kids of a directory are taken out before it is, and kept for a      *)
(* rename.                                                                 *)
RemoveKids(b, off) ==
  LET kids == get_kids_offset(b, off)
      end == get_tree_end_offset(b, kids)
      b1 == DropCells(do_set_kids_off(b, off, 0), kids, end)
  IN IF kids = 0 THEN Done(b, <<>>, <<>>)
     ELSE Done(update_offsets(b1, off, kids - end, FALSE), <<Change(kids, kids - end)>>,
               SubSeq(b, kids, end - 1))

(* Mutant: the parent still says that it has kids.                         *)
RemoveNameOnly(b, off) ==
  LET parent == get_parent_offset(b, off)
      only_kid == Group(b, off) = {off} /\ get_1st_sibling_offset(b, off) = off
      size == IF only_kid THEN 2 ELSE 1
      b1 == IF parent = 0 \/ only_kid THEN b
            ELSE set_parent_offset(b, get_folder_tail_offset(b, off), parent + size)
      b2 == DropCells(b1, off, off + size)
      b3 == IF ~only_kid THEN update_offsets(b2, off, -size, TRUE)
            ELSE IF parent # 0 THEN update_offsets(b2, parent, -size, FALSE)
            ELSE b2
  IN Done(b3, <<Change(off, -size)>>, <<>>)

(* The last name of a directory takes the end tag with it, the root's too. *)
RemoveName(b, off) ==
  LET parent == get_parent_offset(b, off)
      only_kid == Group(b, off) = {off} /\ get_1st_sibling_offset(b, off) = off
      size == IF only_kid THEN 2 ELSE 1
      b1 == IF parent = 0 THEN b
            ELSE IF only_kid THEN do_set_kids_off(b, parent, 0)
            ELSE set_parent_offset(b, get_folder_tail_offset(b, off), parent + size)
      b2 == DropCells(b1, off, off + size)
      b3 == IF ~only_kid THEN update_offsets(b2, off, -size, TRUE)
            ELSE IF parent # 0 THEN update_offsets(b2, parent, -size, FALSE)
            ELSE b2
  IN Done(b3, <<Change(off, -size)>>, <<>>)

do_remove_path(b, path) ==
  LET off == get_path_offset(b, path)
      r == RemoveKids(b, off)
      s == RemoveName(r.buf, off)
  IN IF off = 0 THEN Failed(b, ERR_NO_PATH) ELSE Done(s.buf, r.changes \o s.changes, r.kids)

(* Mutant: the kids go to the end of the buffer.                           *)
PutBackAtTail(b, dst_off, kids) ==
  LET off == tail(b)
      b1 == do_set_kids_off(InsertCells(b, off, kids), dst_off, off)
      b2 == set_parent_offset(b1, get_folder_tail_offset(b1, off), dst_off)
  IN Done(b2, <<Change(off, Len(kids))>>, <<>>)

(* do_rename_path: the kids of the source below the destination.           *)
PutBack(b, dst_off, kids) ==
  LET off == get_insert_offset(b, dst_off)
      b1 == do_set_kids_off(InsertCells(b, off, kids), dst_off, off)
      b2 == set_parent_offset(b1, get_folder_tail_offset(b1, off), dst_off)
  IN Done(update_offsets(b2, off, Len(kids), TRUE), <<Change(off, Len(kids))>>, <<>>)

rename_error(b, src_off, dst_off, parent) ==
  IF src_off = 0 THEN ERR_NO_PATH
  ELSE IF dst_off # 0 /\ b[dst_off].dir # b[src_off].dir THEN ERR_PATH_DIFFER
  ELSE IF dst_off # 0 /\ get_kids_offset(b, dst_off) # 0 THEN ERR_NOTEMPTY
  ELSE IF parent = 0 THEN ERR_NO_PATH
  ELSE 0

Gone(b, chs) == [Done(b, chs, <<>>) EXCEPT !.whole = FALSE]

(* After the insertion of the destination, with the result s.              *)
Refill(r, s, dst) ==
  LET off == get_path_offset(s.buf, dst)
      chs == r.changes \o (IF s.err = 0 THEN s.changes ELSE <<Unset>>)
      t == PutBack(s.buf, off, r.kids)
  IN IF r.kids = <<>> THEN Done(s.buf, chs, <<>>)
     ELSE IF off = 0 THEN Gone(s.buf, chs)
     ELSE Done(t.buf, chs \o t.changes, <<>>)

(* After the removal of the source, with the result r: the destination is  *)
(* not inserted if it was there before.                                    *)
Replace(r, dst, is_dir, exists) ==
  IF ~Rooted(r.buf) /\ r.kids # <<>> THEN Gone(r.buf, r.changes)
  ELSE Refill(r, IF exists THEN Done(r.buf, <<>>, <<>>) ELSE do_insert_path(r.buf, dst, is_dir), dst)

(* The destination is inserted after the source is gone, and nobody looks  *)
(* at whether that fails.  `whole' is FALSE when the kids would go to      *)
(* offset 0, and when the source was the only name in the root: it takes   *)
(* the end tag of the root with it, and if it has kids update_offsets then *)
(* goes round for ever between the destination and the end of its kids.    *)
do_rename_path(b, src, dst) ==
  LET src_off == get_path_offset(b, src)
      dst_off == get_path_offset(b, dst)
      err == rename_error(b, src_off, dst_off, get_path_offset(b, Front(dst)))
  IN IF err # 0 THEN Failed(b, err)
     ELSE Replace(do_remove_path(b, src), dst, b[src_off].dir, dst_off # 0)

(* What a lookup finds.                                                    *)
Paths(b) ==
  [p \in {q \in Path : get_path_offset(b, q) # 0} |-> b[get_path_offset(b, p)].dir]

-----------------------------------------------------------------------------
(* The scan: walkdir reads a directory into a group of names, its end tag  *)
(* after them, and then the directories among them one after the other.    *)

Kids(p) == {q \in DOMAIN fs : Front(q) = p}

(* The cells for one directory, in the order readdir returns them in.      *)
Listing(p) == {[i \in DOMAIN s |-> NameCell(Last(s[i]), fs[s[i]])] : s \in SetToSeqs(Kids(p))}

Call(off, end, path) == [off |-> off, end |-> end, path |-> path]

(* The call for the root.  A buffer without names is thrown away.          *)
WalkRoot ==
  /\ phase = "walking" /\ buf = <<>>
  /\ \E names \in Listing(<<>>) :
       /\ buf' = IF names = <<>> THEN <<>> ELSE names \o <<EndCell(0)>>
       /\ stack' = IF names = <<>> THEN <<>> ELSE <<Call(1, Len(names), <<>>)>>
       /\ phase' = IF names = <<>> THEN "none" ELSE "walking"
  /\ UNCHANGED <<changes, op, paths, intact, fs, mods, seen, kept>>

Pending(c) == {i \in c.off .. c.end : buf[i].dir}

(* Mutant: a directory that turns out empty keeps the offset of its kids.   *)
WalkDirNoReset ==
  /\ stack # <<>> /\ Pending(Last(stack)) # {}
  /\ LET d == Min(Pending(Last(stack)))
         path == Append(Last(stack).path, buf[d].name)
         calls == Append(Front(stack), [Last(stack) EXCEPT !.off = d + 1])
     IN \E names \in IF path \in Skip THEN {<<>>} ELSE Listing(path) :
          IF names = <<>>
          THEN buf' = do_set_kids_off(buf, d, tail(buf)) /\ stack' = calls
          ELSE /\ buf' = do_set_kids_off(buf, d, tail(buf))
                           \o names \o <<EndCell(tail(buf) + Len(names) - d)>>
               /\ stack' = Append(calls, Call(tail(buf), Len(buf) + Len(names), path))
  /\ UNCHANGED <<changes, op, paths, intact, phase, fs, mods, seen, kept>>

(* The call for the next directory d of the innermost group.  One that is  *)
(* gone by now, or another partition's, has no kids.                       *)
WalkDir ==
  /\ stack # <<>> /\ Pending(Last(stack)) # {}
  /\ LET d == Min(Pending(Last(stack)))
         path == Append(Last(stack).path, buf[d].name)
         calls == Append(Front(stack), [Last(stack) EXCEPT !.off = d + 1])
     IN \E names \in IF path \in Skip THEN {<<>>} ELSE Listing(path) :
          IF names = <<>>
          THEN buf' = do_set_kids_off(buf, d, 0) /\ stack' = calls
          ELSE /\ buf' = do_set_kids_off(buf, d, tail(buf))
                           \o names \o <<EndCell(tail(buf) + Len(names) - d)>>
               /\ stack' = Append(calls, Call(tail(buf), Len(buf) + Len(names), path))
  /\ UNCHANGED <<changes, op, paths, intact, phase, fs, mods, seen, kept>>

WalkReturn ==
  /\ stack # <<>> /\ Pending(Last(stack)) = {}
  /\ stack' = Front(stack)
  /\ phase' = IF stack' = <<>> THEN "built" ELSE phase
  /\ UNCHANGED <<buf, changes, intact, fs, mods, seen, kept>>
  /\ paths' = IF phase' = "built" THEN Paths(buf) ELSE paths
  /\ op' = IF phase' = "built" THEN <<"build">> ELSE op

(* Meanwhile a file appears, or one vanishes with all that is below it.    *)
FsChange(new) ==
  /\ phase = "walking" /\ mods < MaxChanges
  /\ mods' = mods + 1
  /\ fs' = new /\ seen' = seen \cup DOMAIN new /\ kept' = kept \cap DOMAIN new
  /\ UNCHANGED <<buf, changes, op, paths, intact, phase, stack>>

FsCreate(p, is_dir) ==
  /\ Cardinality(DOMAIN fs) < MaxEntries
  /\ p \notin DOMAIN fs /\ (Len(p) = 1 \/ (Front(p) \in DOMAIN fs /\ fs[Front(p)]))
  /\ FsChange((p :> is_dir) @@ fs)

FsDelete(p) ==
  /\ p \in DOMAIN fs
  /\ FsChange([q \in {r \in DOMAIN fs : ~IsPrefix(p, r)} |-> fs[q]])

-----------------------------------------------------------------------------
(* insert_path, remove_path and rename_path on a buffer that is whole.     *)

(* An operation with its result r.  One that fails changes nothing: it is  *)
(* no step at all.  What is only for the scan is forgotten.                *)
Operate(r) ==
  /\ intact /\ phase \in {"built", "ready"} /\ r.err = 0
  /\ buf' = r.buf /\ changes' = r.changes /\ paths' = Paths(r.buf)
  /\ intact' = r.whole
  /\ phase' = "ready" /\ fs' = <<>> /\ mods' = 0 /\ seen' = {} /\ kept' = {}
  /\ UNCHANGED stack

Entries(b) == {i \in DOMAIN b : ~IsEnd(b, i)}

InsertPath(p, is_dir) ==
  /\ Cardinality(Entries(buf)) < MaxEntries
  /\ op' = <<"insert", p, is_dir>> /\ Operate(do_insert_path(buf, p, is_dir))

RemovePath(p) == op' = <<"remove", p>> /\ Operate(do_remove_path(buf, p))

(* No path gets longer than the bound.                                     *)
RenamePath(p, q) ==
  /\ \A r \in DOMAIN paths : IsPrefix(p, r) => Len(q) + Len(r) - Len(p) <= Depth
  /\ op' = <<"rename", p, q>> /\ Operate(do_rename_path(buf, p, q))

Init ==
  /\ buf = <<>> /\ changes = <<>> /\ op = <<>> /\ paths = <<>> /\ intact = TRUE
  /\ phase = "walking" /\ stack = <<>>
  /\ fs = InitFs /\ mods = 0 /\ seen = DOMAIN InitFs /\ kept = DOMAIN InitFs

Next ==
  \/ WalkRoot \/ WalkDir \/ WalkReturn
  \/ \E p \in Path :
       \/ \E d \in BOOLEAN : FsCreate(p, d) \/ InsertPath(p, d)
       \/ FsDelete(p) \/ RemovePath(p)
       \/ \E q \in Path : RenamePath(p, q)

Spec == Init /\ [][Next]_vars

-----------------------------------------------------------------------------
(* Properties                                                              *)

Cell == [name : Name \cup {""}, dir : BOOLEAN, rel : Nat]

(* The types of the variables, and no tag that points out of the buffer.   *)
TypeOK ==
  /\ \A i \in DOMAIN buf : buf[i] \in Cell /\ (~buf[i].dir => buf[i].rel = 0)
  /\ \A i \in DOMAIN buf : IF IsEnd(buf, i) THEN buf[i].rel < i ELSE i + buf[i].rel <= tail(buf)
  /\ phase \in {"walking", "built", "ready", "none"} /\ intact \in BOOLEAN
  /\ DOMAIN fs \subseteq Path

Whole == intact /\ phase \in {"built", "ready"}

(* What searches rely on: from every name the end tags lead up to the      *)
(* path that leads down to that name.                                      *)
PathRoundTrip ==
  Whole => \A i \in Entries(buf) : get_path_offset(buf, get_path_by_name_off(buf, i)) = i

(* get_path_range: the names between the first kid of a directory and the  *)
(* end of its tree are those below it, all of them and no other.           *)
RangeIsSubtree ==
  Whole => \A p \in DOMAIN paths :
    LET kids == get_kids_offset(buf, get_path_offset(buf, p))
        range == kids .. (get_tree_end_offset(buf, kids) - 1)
    IN kids # 0 => {get_path_by_name_off(buf, i) : i \in range \cap Entries(buf)}
                   = {q \in DOMAIN paths : IsPrefix(p, q) /\ q # p}

Skipped(p) == \E q \in Skip : IsPrefix(q, p) /\ q # p

(* The scan finds what was there all the time, and nothing that was never. *)
BuiltFaithful ==
  phase = "built" =>
    /\ DOMAIN paths \subseteq seen
    /\ {p \in kept : ~Skipped(p)} \subseteq DOMAIN paths

(* What whoever keeps an offset of a name makes of it when told a change.   *)
add_inkw_fsbuf_offsets(off, c) == IF off >= c.start_off THEN off + c.delta ELSE off

(* 0 when the change has removed the name.                                 *)
Adjusted(off, c) ==
  IF off >= c.start_off /\ off + c.delta < c.start_off THEN 0
  ELSE add_inkw_fsbuf_offsets(off, c)

(* Whoever keeps offsets of names finds the same names again by applying   *)
(* the changes that an operation tells of, in their order.                 *)
ChangesTrack ==
  [][ phase' = "ready" /\ intact' /\ Unset \notin Range(changes') =>
        \A i \in Entries(buf) :
          LET j == FoldLeft(Adjusted, i, changes')
          IN j # 0 => j \in Entries(buf') /\ get_path_by_name_off(buf', j) = get_path_by_name_off(buf, i) ]_vars

P == INSTANCE PathTree WITH tree <- IF Whole THEN paths ELSE Lost

(* The buffer implements the set of paths.                                 *)
ImplementsPathTree == P!Spec
=============================================================================
