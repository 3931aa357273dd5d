------------------------------ MODULE MCSearch ------------------------------
(* Three workers and five buffers of thirty to sixty bytes.  b is a        *)
(* character searched for, x one to exclude.                               *)
(* A name takes at most NameSpan bytes with its tag.  Ranges longer than   *)
(* twice that are cut into pieces for one result, ranges longer than three *)
(* times that for two results or without a limit.                          *)
EXTENDS Search

a == 97
b == 98
x == 99

File(name) == name \o <<0, 0>>
Dir(name, rel) == name \o <<0, 4 * rel + 1, 0, 0, 0>>
End(rel) == <<0, 4 * rel + 1, 0, 0, 0>>

Flat == File(<<b>>) \o File(<<a, a, b>>) \o File(<<b, a, b>>) \o File(<<b, b, b>>)
  \o File(<<a, a, b>>) \o File(<<b>>) \o Dir(<<b>>, 0) \o File(<<b>>) \o End(0)
Deep == File(<<b>>) \o Dir(<<x>>, 16) \o Dir(<<a, a>>, 33) \o End(0)
  \o File(<<b>>) \o Dir(<<a, b>>, 9) \o End(29) \o File(<<b, x>>) \o End(17)
  \o File(<<b>>) \o File(<<b>>) \o End(43)

Nest == Dir(<<x>>, 9) \o End(0) \o Dir(<<a>>, 9) \o End(18) \o File(<<b>>) \o End(15)

(* Its first cut falls on the tag of a name, and the second piece starts   *)
(* within the fourth.                                                      *)
Odd == File(<<a, a, b>>) \o File(<<a, a, a, a, a, a>>) \o File(<<b, a, a>>)
  \o File(<<a, a, a, a, b>>) \o File(<<a, a, b, a, b>>) \o End(0)

(* Its third name is as long as a piece, so that no piece gets the last.   *)
Long == File(<<a>>) \o File(<<a, a, a, a, a, a, a>>)
  \o File(<<a, a, a, a, a, a, a, a, a, b>>) \o File(<<b>>) \o End(0)

MCBuffers == {Flat, Deep, Nest, Odd, Long}
Rule(flag, target) == [flag |-> flag, target |-> target]
MCRules ==
  {{Rule("RULE_EXCLUDE_SUB_S", x)},
   {Rule("RULE_EXCLUDE_SUB_D", x), Rule("RULE_INCLUDE_SUB_S", b)}}
MCThread == 1..3
=============================================================================
