--------------------------- MODULE MCPullRequests ---------------------------
(* The close step of a hitch, a `pr create` and a salvage push on one run.   *)
EXTENDS PullRequests
MCMessage == [c \in Callers |-> CASE c = "close" -> "title"
                                   [] c = "cli" -> "harness"
                                   [] c = "salvage" -> "salvage"]
=============================================================================
