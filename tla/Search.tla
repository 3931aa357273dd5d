------------------------------- MODULE Search -------------------------------
(***************************************************************************)
(* The search of the server: LFTManager::_doSearch, which repeats          *)
(* parallelsearch_files until it has enough results, and the pieces that   *)
(* the latter cuts the buffer into, one for each worker of ThreadPool.     *)
(*                                                                         *)
(* The buffer is a sequence of bytes here: the cut is made at bytes, and   *)
(* next_name is applied to any of them.  The header and the root's name    *)
(* are left away: the first name is at 1.  Nothing writes to the buffer    *)
(* during a search, nor, in this model, between a search and its           *)
(* continuation.  A query is one character.                                *)
(***************************************************************************)
EXTENDS ThreadPool, Integers, Sequences, FiniteSets, SequencesExt, TLC

CONSTANTS
  Buffers,      \* buffers, each with the root's end tag as its last five bytes
  Queries,      \* characters searched for
  Limits,       \* maxCount: 0 is no limit
  RuleSets,     \* sets of rules [flag, target], the target a character
  DefaultCount, \* DEFAULT_RESULT_COUNT
  NameSpan,     \* 1024: no name takes more
  MaxFailures   \* bound on the allocations that fail

ASSUME SearchAssumptions ==
  /\ Work = Thread /\ Limits \subseteq Nat
  /\ {DefaultCount, NameSpan, MaxFailures} \subseteq Nat

VARIABLES
  head,     \* the buffer
  ask,      \* the search: query, limit, rules, directory and range
  start,    \* where its next round starts, 0 between searches
  round,    \* the call of parallelsearch_files: its range, and the next piece
  piece,    \* thread_data
  found,    \* the results of the search so far
  answer,   \* where the last search has ended
  clipped,  \* history: the offsets of names lost at the start of a piece
  astray,   \* history: the offsets within names that a piece has come upon
  dropped,  \* history: the offsets behind a name that ended the handing out
  fails     \* the allocations that have failed

history == <<clipped, astray, dropped>>
search == <<head, ask, start, round, piece, found, answer, history, fails>>
vars == <<pool, search>>

-----------------------------------------------------------------------------
(* Names in a buffer b.  FS_TAG_FILE is the byte 0; the tag of a directory *)
(* and that of an end are four bytes, the distance and two bits.           *)
First == 1
TailOf(b) == Len(b) + 1
Byte(b, o) == IF o \in 1..Len(b) THEN b[o] ELSE 0

strlen(b, o) == CHOOSE k \in 0..(Len(b) + 1) :
  Byte(b, o + k) = 0 /\ \A i \in 0..(k - 1) : Byte(b, o + i) # 0

(* TLC computes these tables once; a cut may lie a little behind the tail. *)
Tag == [b \in Buffers |-> [o \in 1..(Len(b) + 2 * NameSpan) |-> o + strlen(b, o) + 1]]
TagOf(b, o) == Tag[b][o]
do_is_file(b, o) == Byte(b, TagOf(b, o)) = 0
NextName == [b \in Buffers |-> [o \in DOMAIN Tag[b] |->
                                  Tag[b][o] + IF do_is_file(b, o) THEN 1 ELSE 4]]
next_name(b, o) == NextName[b][o]
get_reloff_by_tag(b, tag) == (Byte(b, tag) + 256 * Byte(b, tag + 1)) \div 4

get_kids_offset(b, o) ==
  LET rel == get_reloff_by_tag(b, TagOf(b, o))
  IN IF do_is_file(b, o) \/ rel = 0 THEN 0 ELSE TagOf(b, o) + rel

(* Mutant: the end of the first group only.                                *)
TreeEndOfGroup(b, kids_off) ==
  LET walk[o \in Nat] == IF b[o] # 0 THEN walk[next_name(b, o)] ELSE o + 5
  IN IF kids_off = 0 THEN 0 ELSE walk[kids_off]

get_tree_end_offset(b, kids_off) ==
  LET walk[o \in Nat, kids \in Nat] ==
        IF o >= TailOf(b) THEN TailOf(b)
        ELSE IF b[o] # 0
             THEN walk[next_name(b, o), IF get_kids_offset(b, o) # 0
                                        THEN get_kids_offset(b, o) ELSE kids]
             ELSE IF kids # 0 THEN walk[kids, 0] ELSE o + 5
  IN walk[kids_off, 0]

(* Where names and ends start, and the directory that one is in: 0 is the  *)
(* root.                                                                   *)
Cells == [b \in Buffers |->
  LET from[o \in Nat] == IF o >= TailOf(b) THEN {} ELSE {o} \cup from[next_name(b, o)]
  IN from[First]]
Names(b) == {o \in Cells[b] : b[o] # 0}

Parent == [b \in Buffers |-> [o \in 1..Len(b) |->
  LET end[p \in Nat] == IF Byte(b, p) = 0 THEN p ELSE end[next_name(b, p)]
      rel == get_reloff_by_tag(b, end[o] + 1)
  IN IF rel = 0 THEN 0 ELSE end[o] + 1 - rel]]

(* The offsets of the names on the path of o, up to the directory dir.     *)
PathBelow(b, o, dir) ==
  LET up[p \in Nat] == {p} \cup IF Parent[b][p] \in {0, dir} THEN {} ELSE up[Parent[b][p]]
  IN up[o]

Dirs(b) == {0} \cup {o \in Names(b) : ~do_is_file(b, o)}
get_path_range(b, dir) ==
  IF dir = 0 THEN <<First, TailOf(b)>>
  ELSE LET kids == get_kids_offset(b, dir)
       IN <<kids, IF kids = 0 THEN 0 ELSE get_tree_end_offset(b, kids)>>

-----------------------------------------------------------------------------
(* Rules.                                                                  *)
Exclude == {"RULE_EXCLUDE_SUB_S", "RULE_EXCLUDE_SUB_D"}
Include == {"RULE_INCLUDE_SUB_S", "RULE_INCLUDE_SUB_D"}

get_rules(type) == {r \in ask.rules : r.flag \in type}

check_name(o, rules) == \E r \in rules :
  IF r.flag \in {"RULE_EXCLUDE_SUB_S", "RULE_INCLUDE_SUB_S"}
  THEN head[o] = r.target
  ELSE head[o + strlen(head, o) - 1] = r.target

match_str(o) == \E k \in 0..(strlen(head, o) - 1) : head[o + k] = ask.query

(* The comparator and the rules accept the name at o.                      *)
Accepted(o) ==
  /\ match_str(o)
  /\ get_rules(Include) # {} => check_name(o, get_rules(Include))
  /\ ~check_name(o, get_rules(Exclude))


-----------------------------------------------------------------------------
(* rulesearch_thread for the piece p: jumps are the excluded directories   *)
(* that were not jumped over yet, hits the offsets found.  The next start  *)
(* stays that of the piece unless the limit has ended the search.          *)
Jump == [start : Nat, end : Nat]
should_jump(jumps, o) == {j \in jumps : j.start <= o}
add_jump(jumps, kids) ==
  jumps \cup {[start |-> kids, end |-> get_tree_end_offset(head, kids)]}

Scan(p) ==
  LET scan[o \in Nat, jumps \in SUBSET Jump, hits \in Seq(Nat)] ==
        LET reached == should_jump(jumps, o)
            jump == CHOOSE j \in reached : \A k \in reached : j.start <= k.start
            kids == get_kids_offset(head, o)
            grown == IF Accepted(o) THEN Append(hits, o) ELSE hits
        IN IF o >= p.end THEN [p EXCEPT !.hits = hits]
           ELSE IF head[o] = 0 THEN scan[next_name(head, o), jumps, hits]
           ELSE IF reached # {} THEN scan[jump.end, jumps \ {jump}, hits]
           ELSE IF kids # 0 /\ check_name(o, get_rules(Exclude))
             THEN scan[next_name(head, o), add_jump(jumps, kids), hits]
           ELSE IF ask.limit > 0 /\ Len(grown) >= ask.limit
             THEN [p EXCEPT !.hits = grown, !.start = next_name(head, o)]
           ELSE scan[next_name(head, o), jumps, grown]
  IN scan[p.start, {}, <<>>]

-----------------------------------------------------------------------------
Requested == IF ask.limit > 0 THEN ask.limit ELSE DefaultCount
NoPiece == [from |-> 0, start |-> 0, end |-> 0, hits |-> <<>>]
NoRound == [first |-> 0]
NoAnswer == [start |-> 0, end |-> 0]

TypeOK ==
  /\ PoolTypeOK
  /\ head \in Buffers
  /\ ask.query \in Queries /\ ask.limit \in Limits /\ ask.rules \in RuleSets
  /\ ask.dir \in Dirs(head) /\ {ask.start, ask.end} \subseteq Nat
  /\ piece \in [Thread -> [from : Nat, start : Nat, end : Nat, hits : Seq(1..Len(head))]]
  /\ start \in Nat /\ answer \in [start : Nat, end : Nat]
  /\ found \in Seq(1..Len(head)) /\ Len(found) <= Requested
  /\ clipped \cup astray \cup dropped \subseteq Nat /\ fails \in 0..MaxFailures

Init ==
  /\ PoolInit
  /\ head \in Buffers
  /\ ask \in [query : Queries, limit : Limits, rules : RuleSets,
              dir : {0}, start : {First}, end : {TailOf(head)}]
  /\ start = 0 /\ round = NoRound /\ piece = [t \in Thread |-> NoPiece]
  /\ found = <<>> /\ answer = NoAnswer /\ fails = 0
  /\ clipped = {} /\ astray = {} /\ dropped = {}

(* Where next_name leads from o until it comes upon a name or an end, that *)
(* offset included.                                                        *)
Resync(b, o) ==
  LET sync[p \in Nat] ==
        {p} \cup IF p \in Cells[b] \/ p >= TailOf(b) THEN {} ELSE sync[next_name(b, p)]
  IN sync[o]

(* What is lost and what is come upon when, after a cut at `from', a piece *)
(* that ends at `end' starts at o: all up to the first name from o on, and *)
(* the rest of names.                                                      *)
Cutting(from, o, end) ==
  /\ clipped' = clipped \cup from .. (Min({Max(Resync(head, o)), Max({o, end})}) - 1)
  /\ astray' = astray \cup {p \in Resync(head, o) \ Names(head) : p < end}
  /\ UNCHANGED dropped

(* parallelsearch_files, called for what is left of the range.  That the   *)
(* query itself can be allocated is assumed.                               *)
Round ==
  LET min_off == Min({ask.end, TailOf(head)})
      long == start > min_off \/ min_off - start > (Requested + 1) * NameSpan
      num_threads == IF long THEN NumThreads ELSE 1
      n == Max({(min_off - start) \div num_threads, 1})
  IN [first |-> start, min_off |-> min_off, num_threads |-> num_threads, n |-> n,
      start |-> start, more |-> TRUE, error |-> FALSE,
      end |-> IF start > min_off \/ start + n >= min_off THEN min_off
              ELSE next_name(head, start + n)]

BeginRound ==
  /\ start # 0
  /\ Begin
  /\ round' = Round
  /\ piece' = [t \in Thread |-> NoPiece]
  /\ Cutting(start, start, IF Round.num_threads = 1 THEN Round.min_off ELSE Round.end)
  /\ UNCHANGED <<head, ask, start, found, answer, fails>>

(* A D-Bus call: a search of a directory that is not empty, or the         *)
(* continuation of the last search.                                        *)
Search(query, limit, rules, dir) ==
  LET range == get_path_range(head, dir)
  IN /\ range[1] # 0
     /\ ask' = [query |-> query, limit |-> limit, rules |-> rules, dir |-> dir,
                start |-> range[1], end |-> range[2]]
     /\ start' = range[1]

Continue ==
  /\ answer # NoAnswer
  /\ ask' = [ask EXCEPT !.start = answer.start]
  /\ start' = answer.start

Ask ==
  /\ call = "idle" /\ start = 0
  /\ \/ Continue
     \/ \E query \in Queries, limit \in Limits, rules \in RuleSets, dir \in Dirs(head) :
          Search(query, limit, rules, dir)
  /\ found' = <<>> /\ answer' = NoAnswer
  /\ clipped' = {} /\ astray' = {} /\ dropped' = {}
  /\ UNCHANGED <<pool, head, round, piece, fails>>


(* The loop breaks off when the next piece would be empty.                 *)
MorePieces(start_pos, end_pos) == start_pos < end_pos

(* One turn of the loop that hands out the pieces.                         *)
PushPiece ==
  LET end == IF cur = round.num_threads THEN round.min_off ELSE round.end
      nextStart == next_name(head, round.end)
      nextEnd == IF round.end + round.n > round.min_off THEN round.min_off
                 ELSE next_name(head, round.end + round.n)
  IN /\ call = "push" /\ cur <= round.num_threads /\ round.more /\ round.start <= end
     /\ Push(cur)
     /\ piece' = [piece EXCEPT ![cur] = [from |-> round.start, start |-> round.start,
                                         end |-> end, hits |-> <<>>]]
     /\ round' = [round EXCEPT !.start = nextStart, !.end = nextEnd,
                               !.more = MorePieces(nextStart, nextEnd)]
     /\ IF cur = round.num_threads THEN UNCHANGED history
        ELSE Cutting(end, nextStart, IF cur + 1 = round.num_threads THEN round.min_off ELSE nextEnd)
     /\ UNCHANGED <<head, ask, start, found, answer, fails>>

(* search_thread_context_new returns NULL.                                 *)
FailPiece ==
  /\ call = "push" /\ cur <= round.num_threads /\ round.more /\ ~round.error
  /\ \/ /\ round.start <= round.end /\ fails < MaxFailures
        /\ fails' = fails + 1
     \/ round.start > round.end /\ fails' = fails
  /\ round' = [round EXCEPT !.more = FALSE, !.error = TRUE]
  /\ UNCHANGED <<pool, head, ask, start, piece, found, answer, history>>

(* The loop has come to its end or broken off.  Where the name at the last *)
(* cut reaches over the piece that would come next, no piece gets the rest *)
(* of the range.                                                           *)
AllPushed ==
  LET last == Max({piece[t].end : t \in given})
      long == next_name(head, last) >= next_name(head, last + round.n)
      rest == IF ~round.error /\ last < round.min_off /\ long THEN last..(round.min_off - 1) ELSE {}
  IN /\ call = "push" /\ (cur > round.num_threads \/ ~round.more)
     /\ EndPush
     /\ dropped' = dropped \cup IF given = {} THEN {} ELSE rest
     /\ UNCHANGED <<head, ask, start, round, piece, found, answer, clipped, astray, fails>>

SearchPiece(t) ==
  /\ FinishWork(t)
  /\ piece' = [piece EXCEPT ![t] = Scan(@)]
  /\ UNCHANGED <<head, ask, start, round, found, answer, history, fails>>

-----------------------------------------------------------------------------
(* The end of parallelsearch_files: the first Requested hits of the        *)
(* pieces, their number, and where the next round starts.                  *)
AddPiece(acc, t) ==
  LET p == piece[t]
      kept == SubSeq(p.hits, 1, Min({Requested, Len(p.hits)}))
      total == acc.count + Len(p.hits)
      full == ask.limit > 0 /\ total >= ask.limit
      room == Requested - Len(acc.results)
      cut == full /\ total > ask.limit /\ Len(kept) > room
  IN IF acc.full THEN acc
     ELSE [count |-> IF cut THEN ask.limit ELSE total,
           results |-> acc.results \o SubSeq(kept, 1, Min({room, Len(kept)})),
           start |-> IF cut THEN kept[room + 1] ELSE IF full THEN p.start ELSE acc.start,
           full |-> full]

MergeInOrder(threads) ==
  LET none == [count |-> 0, results |-> <<>>, start |-> round.min_off, full |-> FALSE]
      all == FoldLeft(AddPiece, none, threads)
  IN IF round.error THEN [all EXCEPT !.start = round.first] ELSE all

(* Mutant: the pieces in the order of their threads' creation.             *)
MergedReversed == MergeInOrder([i \in 1..Cardinality(given) |-> Cardinality(given) + 1 - i])

Merged == MergeInOrder([i \in 1..Cardinality(given) |-> i])

(* One result in _doSearch: RULE_EXCLUDE_SUB_S also looks at the path.     *)
should_filter(o) == \E p \in PathBelow(head, o, ask.dir) :
  \E r \in ask.rules : r.flag = "RULE_EXCLUDE_SUB_S" /\ head[p] = r.target

(* Mutant: the results of a round are all kept.                            *)
AddResultAll(acc, o) ==
  IF o >= ask.end \/ should_filter(o) THEN acc ELSE [acc EXCEPT !.found = Append(@, o)]

AddResult(acc, o) ==
  IF acc.stop \/ o >= ask.end THEN acc
  ELSE IF Len(acc.found) >= Requested THEN [acc EXCEPT !.start = o, !.stop = TRUE]
  ELSE IF should_filter(o) THEN acc
  ELSE [acc EXCEPT !.found = Append(@, o)]

(* Behind the last result, if pieces were searched beyond it.              *)
NextStart(m, r, mincount) ==
  IF mincount > 0 /\ (Len(r.found) < Requested \/ r.start = ask.end)
  THEN next_name(head, m.results[mincount]) ELSE r.start

(* The loop goes on, unless the 200 ms are over: late.                     *)
MergeRound(late) ==
  LET m == Merged
      mincount == Min({Requested, m.count})
      r == FoldLeft(AddResult, [found |-> found, start |-> m.start, stop |-> FALSE],
                    SubSeq(m.results, 1, mincount))
      next == IF mincount > 0 THEN Len(r.found) < Requested ELSE r.start < ask.end
      goOn == NextStart(m, r, mincount)
  IN /\ call = "merge" /\ Merge
     /\ late => next
     /\ found' = r.found
     /\ IF next /\ ~late
        THEN start' = goOn /\ answer' = answer
        ELSE start' = 0 /\ answer' = [start |-> goOn, end |-> ask.end]
     /\ UNCHANGED <<head, ask, round, piece, history, fails>>

-----------------------------------------------------------------------------
WorkerStep(t) ==
  \/ (Enter(t) \/ StartWork(t) \/ SleepAgain(t)) /\ UNCHANGED search
  \/ SearchPiece(t)

CallerStep ==
  \/ BeginRound \/ PushPiece \/ FailPiece \/ AllPushed
  \/ (CreateThread \/ Spin \/ WaitBusy \/ WaitNext \/ WaitEnd) /\ UNCHANGED search
  \/ \E late \in BOOLEAN : MergeRound(late)

Unasked == (WaitUnasked \/ \E t \in Thread : WakeUnasked(t)) /\ UNCHANGED search

Next == Ask \/ CallerStep \/ Unasked \/ \E t \in Thread : WorkerStep(t)

(* The scheduler runs every thread; clients need not call.                 *)
Spec == Init /\ [][Next]_vars /\ WF_vars(CallerStep) /\ \A t \in Thread : WF_vars(WorkerStep(t))

-----------------------------------------------------------------------------
(* _doSearch returns each offset once, in the order of the buffer, in the  *)
(* range asked for, accepted by the query and the rules, however the       *)
(* pieces were cut and in whatever order they were finished.  It is that   *)
(* of a name, as get_path_by_name_off needs it, but for what a piece comes *)
(* upon before its first name: where next_name is led into the middle of a *)
(* name, the "intact name" of parallelsearch_files is not intact, and the  *)
(* rest of that name, if it is accepted, is returned.                      *)
InOrder ==
  /\ \A i, j \in DOMAIN found : i < j => found[i] < found[j]
  /\ \A i \in DOMAIN found :
       /\ ask.start <= found[i] /\ found[i] < ask.end
       /\ found[i] \in Names(head) \cup astray
       /\ Accepted(found[i])

(* add_jump and should_jump: what a piece has found is not below a         *)
(* directory whose name lies in the same piece and is excluded.            *)
ExcludedOut ==
  call # "idle" => \A t \in done : \A i \in DOMAIN piece[t].hits :
    \A d \in PathBelow(head, piece[t].hits[i], ask.dir) \ clipped :
      d >= piece[t].from => ~check_name(d, get_rules(Exclude))


(* A search ends: no signal of the pool is lost, and no thread waits for   *)
(* one that sleeps.                                                        *)
SearchEnds == start # 0 ~> start = 0

=============================================================================
