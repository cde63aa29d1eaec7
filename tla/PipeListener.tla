----------------------------- MODULE PipeListener -----------------------------
(***************************************************************************)
(* internal/pipeconn/pipe_listener.go: Accept, DialContext and Close on    *)
(* one listener, each cut into the atomic operations of its Signal (see    *)
(* Signal) and its select.  serverConnsC has no buffer: a connection is    *)
(* handed over in one step of a Dial and an Accept that are both in their  *)
(* select, and a select with several ready cases takes any of them.        *)
(***************************************************************************)
EXTENDS Signal, FiniteSets

CONSTANTS Dialers, Acceptors, Closers  \* the goroutines, by the method they call

ASSUME DisjointRoles ==
    /\ Dialers \cap Acceptors = {}
    /\ Closers \cap (Dialers \cup Acceptors) = {}

Callers == Dialers \cup Acceptors
Procs == Callers \cup Closers

VARIABLES
  pc,      \* where each goroutine is: "idle" between two calls
  held,    \* the channel it has loaded from the signal
  ended,   \* the context of its DialContext has ended
  result   \* what its last call has returned: "none" while it runs

vars == <<signalVars, pc, held, ended, result>>

TypeOK ==
    /\ ch \in {Nil, 1}
    /\ closedChans \subseteq {1}
    /\ pc \in [Procs -> {"idle", "look", "enter", "select", "close"}]
    /\ held \in [Procs -> {Nil, 1}]
    /\ \A p \in Procs : pc[p] = "close" => p \in Closers /\ held[p] = 1
    /\ ended \in [Dialers -> BOOLEAN]
    /\ result \in [Procs -> {"none", "conn", "ErrClosed", "ctx", "nil", "ErrAlreadyClosed"}]

Init ==
    /\ SignalInit
    /\ pc = [p \in Procs |-> "idle"]
    /\ held = [p \in Procs |-> Nil]
    /\ ended = [d \in Dialers |-> FALSE]
    /\ result = [p \in Procs |-> "none"]

\* The calls of the goroutines in P return r; the next dial has a context of its own.
Return(P, r) ==
    /\ pc' = [p \in Procs |-> IF p \in P THEN "idle" ELSE pc[p]]
    /\ result' = [p \in Procs |-> IF p \in P THEN r ELSE result[p]]
    /\ ended' = [d \in Dialers |-> IF d \in P THEN FALSE ELSE ended[d]]

------------------------------------------------------------------------------
(* Accept and DialContext                                                   *)

\* l.closed.IsDone(): the load of the pointer, then the look at the channel.
IsDoneLoad(p) ==
    /\ pc[p] = "idle"
    /\ pc' = [pc EXCEPT ![p] = "look"]
    /\ held' = [held EXCEPT ![p] = WaitC]
    /\ result' = [result EXCEPT ![p] = "none"]
    /\ UNCHANGED <<signalVars, ended>>

\* A method that leaves it to the select to notice that the listener is closed.
SeenClosedNever(p) == FALSE

SeenClosed(p) == Closed(held[p])

IsDoneLook(p) ==
    /\ pc[p] = "look"
    /\ \/ /\ SeenClosed(p)
          /\ Return({p}, "ErrClosed")
       \/ /\ ~SeenClosed(p)
          /\ pc' = [pc EXCEPT ![p] = "enter"]
          /\ UNCHANGED <<ended, result>>
    /\ UNCHANGED <<signalVars, held>>

\* The select evaluates l.closed.Done() before it looks at its cases.
EnterSelect(p) ==
    /\ pc[p] = "enter"
    /\ pc' = [pc EXCEPT ![p] = "select"]
    /\ held' = [held EXCEPT ![p] = WaitC]
    /\ UNCHANGED <<signalVars, ended, result>>

\* case conn := <-l.serverConnsC and case l.serverConnsC <- serverConn
Handover(d, a) ==
    /\ pc[d] = "select"
    /\ pc[a] = "select"
    /\ Return({d, a}, "conn")
    /\ UNCHANGED <<signalVars, held>>

\* case <-l.closed.Done()
SelectClosed(p) ==
    /\ pc[p] = "select"
    /\ Closed(held[p])
    /\ Return({p}, "ErrClosed")
    /\ UNCHANGED <<signalVars, held>>

\* case <-ctx.Done()
SelectCtx(d) ==
    /\ pc[d] = "select"
    /\ ended[d]
    /\ Return({d}, "ctx")
    /\ UNCHANGED <<signalVars, held>>

\* The caller's context ends, during the call or before it.
EndCtx(d) ==
    /\ ended' = [ended EXCEPT ![d] = TRUE]
    /\ UNCHANGED <<signalVars, pc, held, result>>

------------------------------------------------------------------------------
(* Close: l.closed.Signal()                                                 *)

CloseSwap(p) ==
    /\ pc[p] = "idle"
    /\ SwapNil
    /\ \/ /\ AlreadyTriggered
          /\ Return({p}, "ErrAlreadyClosed")
          /\ UNCHANGED held
       \/ /\ ~AlreadyTriggered
          /\ pc' = [pc EXCEPT ![p] = "close"]
          /\ held' = [held EXCEPT ![p] = ch]
          /\ result' = [result EXCEPT ![p] = "none"]
          /\ UNCHANGED ended
    /\ UNCHANGED closedChans

CloseFinish(p) ==
    /\ pc[p] = "close"
    /\ CloseChan(held[p])
    /\ Return({p}, "nil")
    /\ UNCHANGED <<ch, held>>

------------------------------------------------------------------------------
Call(p) == IsDoneLook(p) \/ EnterSelect(p) \/ SelectClosed(p)

Next ==
    \/ \E p \in Callers : IsDoneLoad(p) \/ Call(p)
    \/ \E d \in Dialers : SelectCtx(d) \/ EndCtx(d)
    \/ \E d \in Dialers, a \in Acceptors : Handover(d, a)
    \/ \E p \in Closers : CloseSwap(p) \/ CloseFinish(p)

Spec == Init /\ [][Next]_vars

\* A goroutine that can go on does so.  Nobody has to begin a call.
FairSpec ==
    /\ Spec
    /\ \A p \in Callers : WF_vars(Call(p))
    /\ \A p \in Closers : WF_vars(CloseFinish(p))

------------------------------------------------------------------------------
(* Properties                                                               *)

Closing == { p \in Closers : pc[p] = "close" }

\* However many Closes race, one of them closes the listener: from the swap on,
\* exactly one goroutine is about to close the channel, or it is closed and nobody
\* is (closing it again would panic); and no call is told that the listener is
\* closed before it is.
ClosedByOne ==
    \/ /\ ch = Nil
       /\ \/ closedChans = {1} /\ Closing = {}
          \/ closedChans = {} /\ \E p \in Closers : Closing = {p}
    \/ /\ ch = 1
       /\ closedChans = {}
       /\ Closing = {}
       /\ \A p \in Procs : result[p] \notin {"nil", "ErrClosed", "ErrAlreadyClosed"}

\* The abstract listener: a call is late if its first look at the signal finds it
\* triggered.
Status == [p \in Callers |->
             IF pc[p] = "idle" THEN "idle"
             ELSE IF pc[p] = "look" /\ held[p] = Nil THEN "late" ELSE "waiting"]

Results == [p \in Callers |-> result[p]]

L == INSTANCE Listener WITH open <- ch # Nil, status <- Status, result <- Results

\* The code implements the abstract listener: in particular a Dial or Accept that
\* begins after the listener was closed never gets a connection, although its
\* select would choose at random, and ErrClosed is never a false alarm.
ImplementsListener == L!Spec

\* Close frees every call: a Dial or Accept in progress when the listener is
\* closed returns, even one that has loaded the channel before it was closed.
CloseFreesCalls == \A p \in Callers : ch = Nil /\ pc[p] # "idle" ~> pc[p] = "idle"
==============================================================================
