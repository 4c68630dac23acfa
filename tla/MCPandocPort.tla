---------------------------- MODULE MCPandocPort ----------------------------
(***************************************************************************)
(* Runtimes 1 and 2 are workspaces of the daemon, 3 is a program of its    *)
(* own.                                                                    *)
(***************************************************************************)
EXTENDS PandocPort

MCHost == [r \in {1, 2, 3} |-> IF r = 3 THEN "mcp" ELSE "daemon"]
=============================================================================
