---------------------------- MODULE MCToolRegistry -----------------------------
(* Small instances of ToolRegistry for TLC. *)
EXTENDS ToolRegistry

CONSTANTS a, b, c, d
=============================================================================
