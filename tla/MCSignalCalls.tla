--------------------------- MODULE MCSignalCalls ---------------------------
(* An instance of SignalCalls for TLC. *)
EXTENDS SignalCalls
=============================================================================
