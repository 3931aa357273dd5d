-------------------------------- MODULE Feed --------------------------------
(***************************************************************************)
(* What the server promises between the thread that receives events and    *)
(* the thread that edits the index: the edits that are published take      *)
(* effect in the order in which they were published, each of them once,    *)
(* some time after.  Only the edits in `Optional' may be left out.         *)
(***************************************************************************)
EXTENDS Naturals, Sequences, SequencesExt

CONSTANTS
  Edit,         \* the edits
  Optional,     \* those that need not take effect
  Initial,      \* its state at the start
  Effect(_, _)  \* the index after an edit

VARIABLES
  pending,  \* the edits that have not taken effect
  index     \* the index

vars == <<pending, index>>

(* The index after some edits, one after the other.                        *)
Effects(s, es) ==
  LET after[i \in 0 .. Len(es)] == IF i = 0 THEN s ELSE Effect(after[i - 1], es[i])
  IN after[Len(es)]

Init == pending = <<>> /\ index = Initial

Publish ==
  /\ \E e \in Edit : pending' = Append(pending, e)
  /\ UNCHANGED index

Skip ==
  /\ \E i \in DOMAIN pending :
        pending[i] \in Optional /\ pending' = RemoveAt(pending, i)
  /\ UNCHANGED index

Consume ==
  \E n \in 1 .. Len(pending) :
    /\ index' = Effects(index, SubSeq(pending, 1, n))
    /\ pending' = SubSeq(pending, n + 1, Len(pending))

Next == Publish \/ Skip \/ Consume

Spec == Init /\ [][Next]_vars /\ WF_vars(Skip \/ Consume)
=============================================================================
