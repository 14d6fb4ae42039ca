--------------------------- MODULE MCClientServer ---------------------------
(* Two clients that may close and connect again at any time: one controls  *)
(* the CPU, the other one watches it.                                      *)
EXTENDS ClientServer
CONSTANTS c1, c2
MCRequests == (c1 :> {"RUN"}) @@ (c2 :> {"OPT", "REQ_MEMORY"})
=============================================================================
