----------------------------- MODULE MCPipeline -----------------------------
(* A disk mounted at /, a dlnfs over its directory d, and a stick at /m.   *)
EXTENDS Pipeline

MCHome == "disk" :> <<>> @@ "stick" :> <<"m">> @@ "longnames" :> <<"d">>
MCFiles == {<<"a">>, <<"d", "x">>, <<"d", "y">>, <<"d", "r">>, <<"m", "u">>}
MCInitFiles == {<<"d", "x">>}
MCRecord == {<<"d", "r">>}
=============================================================================
