------------------------------ MODULE PathTree ------------------------------
(***************************************************************************)
(* What the file name buffer promises its callers: a set of paths, each of *)
(* a file or a directory, that the three operations change as the file     *)
(* system does.  An operation that cannot be done leaves it as it is.      *)
(* Nothing is promised any more, until the tree is built again, once its   *)
(* last path at the top has been removed or renamed, or after a rename     *)
(* that no file system does to a directory that is not empty.  Each step   *)
(* tells in `op' which operation it was: what a removal does to the tree   *)
(* is no excuse for a rename.                                              *)
(***************************************************************************)
EXTENDS Naturals, Sequences, SequencesExt, TLC

CONSTANTS
  Path,  \* the paths, sequences of names
  Lost   \* stands for a tree of which nothing is promised

VARIABLES
  tree, \* whether a path is a directory, for each path of the tree
  op    \* the last operation, with its operands

Below(t, p) == {q \in DOMAIN t : IsPrefix(p, q)}
Without(t, s) == [q \in DOMAIN t \ s |-> t[q]]
IsDir(t, p) == p = <<>> \/ (p \in DOMAIN t /\ t[p])
IsTree(t) == DOMAIN t \subseteq Path /\ \A p \in DOMAIN t : t[p] \in BOOLEAN /\ IsDir(t, Front(p))

Moved(t, p, q) ==
  [r \in {q \o SubSeq(s, Len(p) + 1, Len(s)) : s \in Below(t, p)} |->
     t[p \o SubSeq(r, Len(q) + 1, Len(r))]]

(* What p may be moved to: q is not there, or p may take its place.        *)
MayReplace(t, p, q) ==
  p \in DOMAIN t /\ (q \in DOMAIN t => t[q] = t[p] /\ Below(t, q) = {q})

(* What rename(2) allows, and does something for.                          *)
MayRename(t, p, q) == MayReplace(t, p, q) /\ IsDir(t, Front(q)) /\ ~IsPrefix(p, q)

Build == tree = Lost /\ tree' # Lost /\ IsTree(tree') /\ op' = <<"build">>

Insert(p, d) ==
  /\ tree # Lost /\ p \notin DOMAIN tree /\ IsDir(tree, Front(p))
  /\ tree' = (p :> d) @@ tree
  /\ op' = <<"insert", p, d>>

Top(t) == {p \in DOMAIN t : Len(p) = 1}

Delete(p) ==
  /\ tree # Lost /\ p \in DOMAIN tree
  /\ tree' = IF Top(tree) = {p} THEN Lost ELSE Without(tree, Below(tree, p))
  /\ op' = <<"remove", p>>

Rename(p, q) ==
  /\ op' = <<"rename", p, q>>
  /\ tree # Lost /\ MayRename(tree, p, q)
  /\ tree' = IF Top(tree) = {p} THEN Lost
             ELSE Moved(tree, p, q) @@ Without(tree, Below(tree, p))

(* A rename that the file system refuses, or does nothing for, and the     *)
(* buffer does not: of p to itself, to below itself or to below a file.    *)
BadRename(p, q) ==
  /\ op' = <<"rename", p, q>>
  /\ tree # Lost /\ MayReplace(tree, p, q) /\ ~MayRename(tree, p, q)
  /\ Len(q) = 1 \/ Front(q) \in DOMAIN tree
  /\ tree' = IF Top(tree) = {p} \/ Below(tree, p) # {p} THEN Lost
             ELSE Without(tree, {p})

Init == tree = Lost /\ op = <<>>

Next ==
  \/ Build
  \/ \E p \in Path :
       \/ Delete(p)
       \/ \E d \in BOOLEAN : Insert(p, d)
       \/ \E q \in Path : Rename(p, q) \/ BadRename(p, q)

Spec == Init /\ [][Next]_<<tree, op>>
=============================================================================
