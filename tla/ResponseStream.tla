--------------------------- MODULE ResponseStream ---------------------------
(***************************************************************************)
(* What every transport owes a gRPC call for its response, whatever the    *)
(* encoding: the messages of the server arrive without a gap, the server's *)
(* status comes after all of them, and a response that is cut short ends   *)
(* in a failure.  At any time, the call may fail.                          *)
(***************************************************************************)
EXTENDS Naturals

VARIABLES
  sent,       \* number of messages the gRPC server has sent
  finished,   \* it has set the status of the call
  delivered,  \* number of messages passed on to the client
  outcome     \* how the call has ended for the client

streamVars == <<sent, finished, delivered, outcome>>

Init ==
    /\ sent = 0
    /\ finished = FALSE
    /\ delivered = 0
    /\ outcome = "none"

Send ==
    /\ ~finished
    /\ sent' = sent + 1
    /\ UNCHANGED <<finished, delivered, outcome>>

Finish ==
    /\ ~finished
    /\ finished' = TRUE
    /\ UNCHANGED <<sent, delivered, outcome>>

Deliver ==
    /\ outcome = "none"
    /\ delivered < sent
    /\ delivered' = delivered + 1
    /\ UNCHANGED <<sent, finished, outcome>>

\* The client gets the status: there is one, and nothing is missing.
Complete ==
    /\ outcome = "none"
    /\ finished
    /\ delivered = sent
    /\ outcome' = "status"
    /\ UNCHANGED <<sent, finished, delivered>>

Fail ==
    /\ outcome = "none"
    /\ outcome' = "failed"
    /\ UNCHANGED <<sent, finished, delivered>>

Next == Send \/ Finish \/ Deliver \/ Complete \/ Fail

Spec == Init /\ [][Next]_streamVars
=============================================================================
