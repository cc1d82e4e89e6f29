--------------------------- MODULE MCModelRouter ---------------------------
(* A cloud provider that is preferred and a local one, which a private      *)
(* request is confined to.  Two requests at a time, and more of them than   *)
(* it takes to open both circuits and to try them again.                    *)
EXTENDS ModelRouter

MCRegistered == <<"local", "cloud">>
MCRank == [local |-> 2, cloud |-> 1]
MCFits == {{"local", "cloud"}, {"local"}}
MCCaller == {"c1", "c2"}
=============================================================================
