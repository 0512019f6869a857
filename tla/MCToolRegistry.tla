--------------------------- MODULE MCToolRegistry ---------------------------
(* Small instances of ToolRegistry. *)
EXTENDS ToolRegistry
=============================================================================
