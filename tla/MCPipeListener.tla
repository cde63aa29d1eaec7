--------------------------- MODULE MCPipeListener ---------------------------
(* An instance of PipeListener for TLC. *)
EXTENDS PipeListener
=============================================================================
