---------------------------- MODULE MCWSServer ----------------------------
(* Instances of WSServer for TLC. *)
EXTENDS WSServer

MCPayloadSizes == {0, 2}
=============================================================================
