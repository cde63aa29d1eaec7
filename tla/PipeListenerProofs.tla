-------------------------- MODULE PipeListenerProofs --------------------------
(***************************************************************************)
(* Proofs about PipeListener, for any number of dialers, acceptors and     *)
(* closers.                                                                *)
(***************************************************************************)
EXTENDS PipeListener, TLAPS

\* A caller that holds the nil pointer has read it from a triggered signal, and
\* gone past the check only with a channel: the callers' part of the invariant.
HeldInv ==
    \A p \in Callers :
        /\ pc[p] \in {"look", "select"} /\ held[p] = Nil => ch = Nil
        /\ pc[p] = "enter" => held[p] # Nil

Inv == TypeOK /\ ClosedByOne /\ HeldInv

\* The initial states satisfy the invariant.
LEMMA InvInit == Init => Inv
BY DisjointRoles
   DEF Init, Inv, TypeOK, ClosedByOne, Closing, HeldInv, SignalInit, Procs, Callers, Nil

\* The types are kept by every step, given those of the signal and of the calls.
LEMMA TypeStep == Inv /\ [Next]_vars => TypeOK'
<1> SUFFICES ASSUME Inv, [Next]_vars PROVE TypeOK'
    OBVIOUS
<1> USE DisjointRoles DEF Procs, Callers, Nil
<1>1. ASSUME NEW p \in Callers, IsDoneLoad(p) PROVE TypeOK'
    BY <1>1 DEF Inv, TypeOK, IsDoneLoad, WaitC, signalVars
<1>2. ASSUME NEW p \in Callers, IsDoneLook(p) PROVE TypeOK'
    BY <1>2 DEF Inv, TypeOK, IsDoneLook, Return, signalVars
<1>3. ASSUME NEW p \in Callers, EnterSelect(p) PROVE TypeOK'
    BY <1>3 DEF Inv, TypeOK, EnterSelect, WaitC, signalVars
<1>4. ASSUME NEW p \in Callers, SelectClosed(p) PROVE TypeOK'
    BY <1>4 DEF Inv, TypeOK, SelectClosed, Return, signalVars
<1>5. ASSUME NEW d \in Dialers, SelectCtx(d) PROVE TypeOK'
    BY <1>5 DEF Inv, TypeOK, SelectCtx, Return, signalVars
<1>6. ASSUME NEW d \in Dialers, EndCtx(d) PROVE TypeOK'
    BY <1>6 DEF Inv, TypeOK, EndCtx, signalVars
<1>7. ASSUME NEW d \in Dialers, NEW a \in Acceptors, Handover(d, a) PROVE TypeOK'
    BY <1>7 DEF Inv, TypeOK, Handover, Return, signalVars
<1>8. ASSUME NEW p \in Closers, CloseSwap(p) PROVE TypeOK'
    BY <1>8, ZenonT(40) DEF Inv, TypeOK, CloseSwap, SwapNil, AlreadyTriggered, Return
<1>9. ASSUME NEW p \in Closers, CloseFinish(p) PROVE TypeOK'
    BY <1>9 DEF Inv, TypeOK, CloseFinish, CloseChan, Return
<1>10. CASE UNCHANGED vars
    BY <1>10 DEF Inv, TypeOK, vars, signalVars
<1> QED
    BY <1>1, <1>2, <1>3, <1>4, <1>5, <1>6, <1>7, <1>8, <1>9, <1>10, Zenon DEF Next, Call

\* A channel that a caller finds closed belongs to a triggered signal.
LEMMA ClosedIsTriggered ==
    ASSUME Inv, NEW p \in Callers, pc[p] \in {"look", "select"}, Closed(held[p])
    PROVE  ch = Nil
BY DEF Inv, TypeOK, ClosedByOne, HeldInv, Closed, Procs, Callers, Nil

\* What a step of a caller does at most: the signal and the closers are left
\* alone, and ErrClosed is reported only when the signal is triggered.
Quiet ==
    /\ UNCHANGED signalVars
    /\ \A p \in Closers : pc'[p] = pc[p]
    /\ \A p \in Procs : \/ result'[p] = result[p]
                        \/ result'[p] \in {"none", "conn", "ctx"}
                        \/ result'[p] = "ErrClosed" /\ ch = Nil

\* Such a step keeps ClosedByOne.
LEMMA QuietStep == Inv /\ Quiet => ClosedByOne'
<1> SUFFICES ASSUME Inv, Quiet PROVE ClosedByOne'
    OBVIOUS
<1>1. Closing' = Closing
    BY DEF Closing, Quiet
<1>2. CASE ch = Nil
    BY <1>1, <1>2 DEF Inv, ClosedByOne, signalVars, Nil, Quiet
<1>3. CASE ch = 1
    BY <1>1, <1>3 DEF Inv, ClosedByOne, signalVars, Nil, Quiet
<1> QED
    BY <1>2, <1>3 DEF Inv, TypeOK

\* One Close closes the listener, whatever the callers do.
LEMMA ClosedByOneStep == Inv /\ [Next]_vars => ClosedByOne'
<1> SUFFICES ASSUME Inv, [Next]_vars PROVE ClosedByOne'
    OBVIOUS
<1> USE DisjointRoles DEF Procs, Callers
<1>0. TypeOK
    BY DEF Inv
<1>1. ASSUME NEW p \in Callers, IsDoneLoad(p) PROVE Quiet
    BY <1>0, <1>1 DEF TypeOK, IsDoneLoad, Quiet, signalVars
<1>2. ASSUME NEW p \in Callers, IsDoneLook(p) PROVE Quiet
  <2>1. SeenClosed(p) => ch = Nil
    BY <1>2, ClosedIsTriggered DEF IsDoneLook, SeenClosed
  <2> QED
    BY <1>0, <1>2, <2>1 DEF TypeOK, IsDoneLook, Return, Quiet, signalVars
<1>3. ASSUME NEW p \in Callers, EnterSelect(p) PROVE Quiet
    BY <1>0, <1>3 DEF TypeOK, EnterSelect, Quiet, signalVars
<1>4. ASSUME NEW p \in Callers, SelectClosed(p) PROVE Quiet
  <2>1. ch = Nil
    BY <1>4, ClosedIsTriggered DEF SelectClosed
  <2> QED
    BY <1>0, <1>4, <2>1 DEF TypeOK, SelectClosed, Return, Quiet, signalVars
<1>5. ASSUME NEW d \in Dialers, SelectCtx(d) PROVE Quiet
    BY <1>0, <1>5 DEF TypeOK, SelectCtx, Return, Quiet, signalVars
<1>6. ASSUME NEW d \in Dialers, EndCtx(d) PROVE Quiet
    BY <1>0, <1>6 DEF TypeOK, EndCtx, Quiet, signalVars
<1>7. ASSUME NEW d \in Dialers, NEW a \in Acceptors, Handover(d, a) PROVE Quiet
    BY <1>0, <1>7 DEF TypeOK, Handover, Return, Quiet, signalVars
<1>8. ASSUME NEW p \in Closers, CloseSwap(p) PROVE ClosedByOne'
  <2> USE <1>8 DEF Inv, TypeOK, ClosedByOne, Closing, CloseSwap, SwapNil, AlreadyTriggered, Nil
  <2>1. CASE ch = Nil
    <3>1. Closing' = Closing
        BY <2>1 DEF Return
    <3> QED
        BY <2>1, <3>1
  <2>2. CASE ch = 1
    <3>1. Closing' = {p}
        BY <2>2
    <3> QED
        BY <2>2, <3>1
  <2> QED
    BY <2>1, <2>2
<1>9. ASSUME NEW p \in Closers, CloseFinish(p) PROVE ClosedByOne'
  <2> USE <1>9 DEF Inv, TypeOK, ClosedByOne, Closing, CloseFinish, CloseChan, Return, Nil
  <2>1. Closing = {p} /\ held[p] = 1 /\ ch = Nil
    OBVIOUS
  <2>2. Closing' = {}
    BY <2>1
  <2> QED
    BY <2>1, <2>2
<1>10. ASSUME UNCHANGED vars PROVE Quiet
    BY <1>10 DEF vars, Quiet
<1> QED
    BY QuietStep, <1>1, <1>2, <1>3, <1>4, <1>5, <1>6, <1>7, <1>8, <1>9, <1>10, Zenon DEF Next, Call

\* A nil pointer is never stale: the listener's signal is not reset.
LEMMA HeldStep == Inv /\ [Next]_vars => HeldInv'
<1> SUFFICES ASSUME Inv, [Next]_vars PROVE HeldInv'
    OBVIOUS
<1> USE DisjointRoles DEF Procs, Callers, Nil
<1>1. ASSUME NEW p \in Callers, IsDoneLoad(p) PROVE HeldInv'
    BY <1>1 DEF Inv, TypeOK, HeldInv, IsDoneLoad, WaitC, signalVars
<1>2. ASSUME NEW p \in Callers, IsDoneLook(p) PROVE HeldInv'
    BY <1>2 DEF Inv, TypeOK, HeldInv, IsDoneLook, SeenClosed, Closed, Return, signalVars
<1>3. ASSUME NEW p \in Callers, EnterSelect(p) PROVE HeldInv'
    BY <1>3 DEF Inv, TypeOK, HeldInv, EnterSelect, WaitC, signalVars
<1>4. ASSUME NEW p \in Callers, SelectClosed(p) PROVE HeldInv'
    BY <1>4 DEF Inv, TypeOK, HeldInv, SelectClosed, Return, signalVars
<1>5. ASSUME NEW d \in Dialers, SelectCtx(d) PROVE HeldInv'
    BY <1>5 DEF Inv, TypeOK, HeldInv, SelectCtx, Return, signalVars
<1>6. ASSUME NEW d \in Dialers, EndCtx(d) PROVE HeldInv'
    BY <1>6 DEF Inv, TypeOK, HeldInv, EndCtx, signalVars
<1>7. ASSUME NEW d \in Dialers, NEW a \in Acceptors, Handover(d, a) PROVE HeldInv'
    BY <1>7 DEF Inv, TypeOK, HeldInv, Handover, Return, signalVars
<1>8. ASSUME NEW p \in Closers, CloseSwap(p) PROVE HeldInv'
    BY <1>8 DEF Inv, TypeOK, HeldInv, CloseSwap, SwapNil, Return
<1>9. ASSUME NEW p \in Closers, CloseFinish(p) PROVE HeldInv'
    BY <1>9 DEF Inv, TypeOK, HeldInv, CloseFinish, Return
<1>10. CASE UNCHANGED vars
    BY <1>10 DEF Inv, TypeOK, HeldInv, vars, signalVars
<1> QED
    BY <1>1, <1>2, <1>3, <1>4, <1>5, <1>6, <1>7, <1>8, <1>9, <1>10, Zenon DEF Next, Call

\* The inductive invariant holds in every behaviour.
LEMMA InvHolds == Spec => []Inv
<1>1. Inv /\ [Next]_vars => Inv'
    BY TypeStep, ClosedByOneStep, HeldStep DEF Inv
<1> QED
    BY <1>1, InvInit, PTL DEF Spec

\* However many Closes race, one of them closes the listener and the signal's
\* channel is closed once; nobody is told ErrClosed or ErrAlreadyClosed before.
THEOREM OneClose == Spec => []ClosedByOne
BY InvHolds, PTL DEF Inv

------------------------------------------------------------------------------
(* Refinement: each step of the code is a step of Listener or changes none  *)
(* of what it speaks of.                                                    *)

\* The initial states of the code are initial states of the abstract listener.
LEMMA RefineInit == Init => L!Init
BY DEF Init, L!Init, L!Callers, Status, Results, Callers, Procs, SignalInit, Nil

\* Every step of the code is a step of the abstract listener or a stutter.
LEMMA RefineNext == Inv /\ [Next]_vars => [L!Next]_(L!vars)
<1> SUFFICES ASSUME Inv, [Next]_vars PROVE [L!Next]_(L!vars)
    OBVIOUS
<1> USE DisjointRoles DEF Procs, Callers, L!Callers, Nil
<1>0. TypeOK /\ HeldInv
    BY DEF Inv
<1> USE <1>0 DEF TypeOK
<1>1. ASSUME NEW p \in Callers, IsDoneLoad(p) PROVE L!Begin(p)
    BY <1>1 DEF IsDoneLoad, WaitC, signalVars, Status, Results, L!Begin
<1>2. ASSUME NEW p \in Callers, IsDoneLook(p) PROVE L!Refuse(p) \/ UNCHANGED L!vars
  <2>1. CASE SeenClosed(p)
    <3>1. ch = Nil
        BY <1>2, <2>1, ClosedIsTriggered DEF IsDoneLook, SeenClosed
    <3>2. Return({p}, "ErrClosed") /\ UNCHANGED <<ch, held>> /\ pc[p] = "look"
        BY <1>2, <2>1, Zenon DEF IsDoneLook, signalVars
    <3> QED
        BY <3>1, <3>2 DEF Return, Status, Results, L!Refuse
  <2>2. CASE ~SeenClosed(p)
    BY <1>2, <2>2 DEF IsDoneLook, SeenClosed, Closed, signalVars, Status, Results, L!vars
  <2> QED
    BY <2>1, <2>2
<1>3. ASSUME NEW p \in Callers, EnterSelect(p) PROVE UNCHANGED L!vars
    BY <1>3 DEF EnterSelect, WaitC, signalVars, Status, Results, L!vars
<1>4. ASSUME NEW p \in Callers, SelectClosed(p) PROVE L!Refuse(p)
  <2>1. ch = Nil
    BY <1>4, ClosedIsTriggered DEF SelectClosed
  <2> QED
    BY <1>4, <2>1 DEF SelectClosed, Return, signalVars, Status, Results, L!Refuse
<1>5. ASSUME NEW d \in Dialers, SelectCtx(d) PROVE L!GiveUp(d)
    BY <1>5 DEF SelectCtx, Return, signalVars, Status, Results, L!GiveUp
<1>6. ASSUME NEW d \in Dialers, EndCtx(d) PROVE UNCHANGED L!vars
    BY <1>6 DEF EndCtx, signalVars, Status, Results, L!vars
<1>7. ASSUME NEW d \in Dialers, NEW a \in Acceptors, Handover(d, a) PROVE L!Meet(d, a)
    BY <1>7 DEF Handover, Return, signalVars, Status, Results, L!Meet
<1>8. ASSUME NEW p \in Closers, CloseSwap(p) PROVE L!Close \/ UNCHANGED L!vars
  <2>1. \A q \in Callers : pc'[q] = pc[q] /\ held'[q] = held[q] /\ result'[q] = result[q]
    BY <1>8, ZenonT(40) DEF CloseSwap, Return
  <2>2. UNCHANGED <<Status, Results>>
    BY <2>1 DEF Status, Results
  <2>3. ch' = Nil
    BY <1>8 DEF CloseSwap, SwapNil
  <2> QED
    BY <2>2, <2>3 DEF L!Close, L!vars
<1>9. ASSUME NEW p \in Closers, CloseFinish(p) PROVE UNCHANGED L!vars
    BY <1>9 DEF CloseFinish, Return, Status, Results, L!vars
<1>10. ASSUME UNCHANGED vars PROVE UNCHANGED L!vars
    BY <1>10 DEF vars, signalVars, Status, Results, L!vars
<1> QED
    BY <1>1, <1>2, <1>3, <1>4, <1>5, <1>6, <1>7, <1>8, <1>9, <1>10, Zenon
    DEF Next, Call, L!Next

\* Accept, DialContext and Close implement the abstract listener, for any number
\* of goroutines: no call that begins after the swap of Close gets a connection,
\* and ErrClosed is reported only by a closed listener.
THEOREM Refinement == Spec => ImplementsListener
BY RefineInit, RefineNext, InvHolds, PTL DEF Spec, ImplementsListener, L!Spec

\* Every variable keeps its type; in particular only a caller of Close that has won the
\* swap is about to close the channel.
THEOREM TypeCorrect == Spec => []TypeOK
BY InvHolds, PTL DEF Inv
==============================================================================
