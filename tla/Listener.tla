------------------------------- MODULE Listener -------------------------------
(***************************************************************************)
(* What internal/pipeconn promises of its listener: Dial and Accept meet   *)
(* while it is open; once it is closed, a call that begins is refused, and *)
(* a call that began before either is refused or still meets another one   *)
(* that began before.                                                      *)
(***************************************************************************)
CONSTANTS Dialers, Acceptors  \* the goroutines that call DialContext and Accept

Callers == Dialers \cup Acceptors

VARIABLES
  open,    \* the listener has not been closed
  status,  \* "idle", "waiting", or "late" for a call that began too late
  result   \* what the last call has returned: "none" while it runs

vars == <<open, status, result>>

Init ==
    /\ open = TRUE
    /\ status = [p \in Callers |-> "idle"]
    /\ result = [p \in Callers |-> "none"]

Begin(p) ==
    /\ status[p] = "idle"
    /\ status' = [status EXCEPT ![p] = IF open THEN "waiting" ELSE "late"]
    /\ result' = [result EXCEPT ![p] = "none"]
    /\ UNCHANGED open

Meet(d, a) ==
    /\ status[d] = "waiting"
    /\ status[a] = "waiting"
    /\ status' = [status EXCEPT ![d] = "idle", ![a] = "idle"]
    /\ result' = [result EXCEPT ![d] = "conn", ![a] = "conn"]
    /\ UNCHANGED open

Refuse(p) ==
    /\ ~open
    /\ status[p] # "idle"
    /\ status' = [status EXCEPT ![p] = "idle"]
    /\ result' = [result EXCEPT ![p] = "ErrClosed"]
    /\ UNCHANGED open

\* The context of a dial has ended.
GiveUp(d) ==
    /\ status[d] = "waiting"
    /\ status' = [status EXCEPT ![d] = "idle"]
    /\ result' = [result EXCEPT ![d] = "ctx"]
    /\ UNCHANGED open

Close ==
    /\ open
    /\ open' = FALSE
    /\ UNCHANGED <<status, result>>

Next ==
    \/ \E p \in Callers : Begin(p) \/ Refuse(p)
    \/ \E d \in Dialers : GiveUp(d)
    \/ \E d \in Dialers, a \in Acceptors : Meet(d, a)
    \/ Close

Spec == Init /\ [][Next]_vars
==============================================================================
