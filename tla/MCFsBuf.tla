------------------------------ MODULE MCFsBuf ------------------------------
EXTENDS FsBuf

(* Two directories side by side, with a directory in the one and a file in *)
(* the other.                                                              *)
MCInitFs ==
  <<"a">> :> TRUE @@ <<"a", "a">> :> TRUE @@ <<"b">> :> TRUE @@ <<"b", "a">> :> FALSE

MCSkip == {<<"a", "b">>}
=============================================================================
