----------------------------- MODULE MCClientConn -----------------------------
(* Two connections of the gRPC client, and a server that may change identity.  *)
EXTENDS ClientConn

CONSTANTS t1, t2, old, new

MCTransports == {t1, t2}
MCIdentities == {old, new}
===============================================================================
