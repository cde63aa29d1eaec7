----------------------------- MODULE SignalProofs -----------------------------
(***************************************************************************)
(* Proofs about SignalCalls, for any number of goroutines and of Resets.   *)
(***************************************************************************)
EXTENDS SignalCalls, TLAPS

\* The positions at which a call looks at the channel it holds.
Looking == {"look", "wait", "timed", "when"}

\* Why a report is true: a call that looks at a channel has met the triggered
\* signal already, or it still holds the channel of a signal that is not
\* triggered, and that channel is open.
HitInv ==
    \A p \in Procs :
        /\ pc[p] \in Looking => p \in hit \/ (held[p] = ch /\ ch # Nil)
        /\ pc[p] = "close" => p \in hit

Inv == TypeOK /\ EachChannelAccounted /\ HitInv /\ NoFalseAlarm

\* The initial states satisfy the invariant.
LEMMA InvInit == Init => Inv
<1> SUFFICES ASSUME Init PROVE Inv
    OBVIOUS
<1> USE MaxChansAssumption DEF Init, SignalInit, Nil
<1>1. TypeOK
    BY DEF TypeOK
<1>2. EachChannelAccounted
    BY DEF EachChannelAccounted, Closers
<1>3. HitInv /\ NoFalseAlarm
    BY DEF HitInv, Looking, NoFalseAlarm
<1> QED
    BY <1>1, <1>2, <1>3 DEF Inv

\* Every step keeps the types.
LEMMA TypeStep == Inv /\ [Next]_vars => TypeOK'
<1> SUFFICES ASSUME TypeOK, [Next]_vars PROVE TypeOK'
    BY DEF Inv
<1> USE MaxChansAssumption DEF TypeOK, Nil, signalVars
<1>1. ASSUME NEW p \in Procs, NEW l \in Looking, Load(p, l) PROVE TypeOK'
    BY <1>1 DEF Load, Looking, WaitC
<1>2. ASSUME NEW p \in Procs, Swap(p) PROVE TypeOK'
    BY <1>2 DEF Swap, SwapNil, AlreadyTriggered, Return
<1>3. ASSUME NEW p \in Procs, SignalClose(p) PROVE TypeOK'
  <2>1. held[p] \in 1 .. made
    BY <1>3 DEF SignalClose
  <2> QED
    BY <1>3, <2>1 DEF SignalClose, CloseChan, Return
<1>4. ASSUME NEW p \in Procs, Reset(p) PROVE TypeOK'
    BY <1>4 DEF Reset, MayReset
<1>5. ASSUME NEW p \in Procs,
             WhenStopped(p) \/ IsDoneLook(p) \/ WaitReturn(p) \/ TimedReturn(p) \/ TimedOut(p)
      PROVE  TypeOK'
    BY <1>5 DEF Return, WhenStopped, IsDoneLook, WaitReturn, TimedReturn, TimedOut
<1>6. ASSUME Conditions PROVE TypeOK'
    BY <1>6 DEF Conditions
<1>7. ASSUME UNCHANGED vars PROVE TypeOK'
    BY <1>7 DEF vars
<1>8. ASSUME NEW p \in Procs, Begin(p) PROVE TypeOK'
    BY <1>1, <1>2, <1>4, <1>8
    DEF Begin, SignalSwap, WhenStart, IsDoneLoad, WaitLoad, TimedLoad, Looking
<1>9. ASSUME NEW p \in Procs, Finish(p) PROVE TypeOK'
    BY <1>2, <1>3, <1>5, <1>9 DEF Finish, WhenTriggered
<1> QED
    BY <1>6, <1>7, <1>8, <1>9 DEF Next

\* Steps that move no goroutine to or from the closing of a channel and leave the
\* signal alone keep every channel accounted for.
LEMMA QuietStep ==
    ASSUME Inv, UNCHANGED <<ch, closedChans, made>>,
           \A p \in Procs : /\ pc'[p] = "close" <=> pc[p] = "close"
                            /\ pc[p] = "close" => held'[p] = held[p]
    PROVE  EachChannelAccounted'
<1>1. \A c \in 1 .. made : Closers(c)' = Closers(c)
    BY DEF Closers
<1> QED
    BY <1>1, Zenon DEF Inv, EachChannelAccounted

\* Every step keeps every channel accounted for.
LEMMA AccountedStep == Inv /\ [Next]_vars => EachChannelAccounted'
<1> SUFFICES ASSUME Inv, [Next]_vars PROVE EachChannelAccounted'
    OBVIOUS
<1>0. TypeOK /\ EachChannelAccounted
    BY DEF Inv
<1>1. ASSUME NEW p \in Procs, NEW l \in Looking, Load(p, l) PROVE EachChannelAccounted'
    BY <1>0, <1>1, QuietStep DEF TypeOK, Load, Looking, signalVars
<1>2. ASSUME NEW p \in Procs, pc[p] # "close", Swap(p) PROVE EachChannelAccounted'
  <2>1. CASE ch = Nil
    BY <1>0, <1>2, <2>1, QuietStep DEF TypeOK, Swap, SwapNil, AlreadyTriggered, Return
  <2>2. CASE ch # Nil
    <3>0. /\ ch' = Nil /\ UNCHANGED <<closedChans, made>>
          /\ pc' = [pc EXCEPT ![p] = "close"] /\ held' = [held EXCEPT ![p] = ch]
        BY <1>2, <2>2 DEF Swap, SwapNil, AlreadyTriggered
    <3>1. ch \in 1 .. made
        BY <1>0, <2>2 DEF TypeOK, Nil
    <3>2. Closers(ch) = {} /\ ch \notin closedChans
        BY <1>0, <3>1, Zenon DEF EachChannelAccounted
    <3>3. ASSUME NEW c \in 1 .. made, c # ch PROVE Closers(c)' = Closers(c)
        BY <1>0, <1>2, <3>0, <3>3 DEF TypeOK, Closers
    <3>4. ASSUME NEW c \in 1 .. made, c = ch PROVE Closers(c)' = {p}
        BY <1>0, <3>0, <3>2, <3>4 DEF TypeOK, Closers
    <3>5. \A c \in 1 .. made : c # Nil
        BY <1>0 DEF TypeOK, Nil
    <3>6. SUFFICES ASSUME NEW c \in 1 .. made
                   PROVE  /\ c # ch'
                          /\ \/ c \in closedChans' /\ Closers(c)' = {}
                             \/ c \notin closedChans' /\ \E q \in Procs : Closers(c)' = {q}
        BY <3>0, Zenon DEF EachChannelAccounted
    <3> QED
        BY <1>0, <3>0, <3>2, <3>3, <3>4, <3>5, Zenon DEF EachChannelAccounted
  <2> QED
    BY <2>1, <2>2
<1>3. ASSUME NEW p \in Procs, SignalClose(p) PROVE EachChannelAccounted'
  <2> DEFINE h == held[p]
  <2>0. /\ pc[p] = "close" /\ closedChans' = closedChans \cup {h}
        /\ UNCHANGED <<ch, made, held>> /\ pc' = [pc EXCEPT ![p] = "idle"]
    BY <1>3 DEF SignalClose, CloseChan, Return
  <2>1. h \in 1 .. made /\ p \in Closers(h)
    BY <1>0, <2>0 DEF TypeOK, Closers, Nil
  <2>2. Closers(h) = {p} /\ h # ch
    BY <1>0, <2>1, Zenon DEF EachChannelAccounted
  <2>3. ASSUME NEW c \in 1 .. made, c # h PROVE Closers(c)' = Closers(c)
    BY <1>0, <2>0, <2>3 DEF TypeOK, Closers
  <2>4. ASSUME NEW c \in 1 .. made, c = h PROVE Closers(c)' = {}
    BY <1>0, <2>0, <2>2, <2>4 DEF TypeOK, Closers
  <2>5. ASSUME NEW c \in 1 .. made, c # h PROVE c \in closedChans' <=> c \in closedChans
    BY <2>0, <2>5
  <2> HIDE DEF h
  <2> QED
    BY <1>0, <2>0, <2>2, <2>3, <2>4, <2>5, Zenon DEF EachChannelAccounted
<1>4. ASSUME NEW p \in Procs, Reset(p) PROVE EachChannelAccounted'
  <2>0. /\ ch = Nil /\ made' = made + 1 /\ ch' = made + 1 /\ made \in Nat
        /\ UNCHANGED <<closedChans, pc, held>>
    BY <1>0, <1>4, MaxChansAssumption DEF Reset, MayReset, TypeOK
  <2>1. \A c \in 1 .. made' : Closers(c)' = Closers(c)
    BY <2>0 DEF Closers
  <2>2. Closers(made + 1) = {} /\ made + 1 \notin closedChans
    BY <1>0, <2>0 DEF TypeOK, Closers
  <2>3. ASSUME NEW c \in 1 .. made', c # made + 1 PROVE c \in 1 .. made /\ c # ch /\ c # ch'
    BY <2>0, <2>3 DEF Nil
  <2> QED
    BY <1>0, <2>0, <2>1, <2>2, <2>3, Zenon DEF EachChannelAccounted
<1>5. ASSUME NEW p \in Procs,
             WhenStopped(p) \/ IsDoneLook(p) \/ WaitReturn(p) \/ TimedReturn(p) \/ TimedOut(p)
      PROVE  EachChannelAccounted'
    BY <1>0, <1>5, QuietStep
    DEF TypeOK, Return, WhenStopped, IsDoneLook, WaitReturn, TimedReturn, TimedOut, signalVars
<1>6. ASSUME Conditions PROVE EachChannelAccounted'
    BY <1>6, QuietStep DEF Conditions, signalVars
<1>7. ASSUME UNCHANGED vars PROVE EachChannelAccounted'
    BY <1>7, QuietStep DEF vars, signalVars
<1>8. ASSUME NEW p \in Procs, Begin(p) PROVE EachChannelAccounted'
    BY <1>1, <1>2, <1>4, <1>8
    DEF Begin, SignalSwap, WhenStart, IsDoneLoad, WaitLoad, TimedLoad, Looking
<1>9. ASSUME NEW p \in Procs, Finish(p) PROVE EachChannelAccounted'
    BY <1>2, <1>3, <1>5, <1>9 DEF Finish, WhenTriggered
<1> QED
    BY <1>6, <1>7, <1>8, <1>9 DEF Next

\* The channel of a signal that is not triggered is open.
LEMMA CurrentIsOpen == ASSUME Inv, ch # Nil PROVE ~Closed(ch)
<1>1. ch \in 1 .. made
    BY DEF Inv, TypeOK, Nil
<1> QED
    BY <1>1, Zenon DEF Inv, EachChannelAccounted, Closed

\* Every step keeps what makes the reports true, and the reports.
LEMMA HitStep == Inv /\ [Next]_vars => HitInv' /\ NoFalseAlarm'
<1> SUFFICES ASSUME Inv, [Next]_vars PROVE HitInv' /\ NoFalseAlarm'
    OBVIOUS
<1>0. TypeOK /\ HitInv /\ NoFalseAlarm
    BY DEF Inv
<1> USE <1>0 DEF TypeOK, HitInv, NoFalseAlarm, Looking
<1>1. ASSUME NEW p \in Procs, NEW l \in Looking, Load(p, l) PROVE HitInv' /\ NoFalseAlarm'
    BY <1>1 DEF Load, WaitC, signalVars
<1>2. ASSUME NEW p \in Procs, Swap(p) PROVE HitInv' /\ NoFalseAlarm'
    BY <1>2 DEF Swap, SwapNil, AlreadyTriggered, Return, Nil
<1>3. ASSUME NEW p \in Procs, SignalClose(p) PROVE HitInv' /\ NoFalseAlarm'
    BY <1>3 DEF SignalClose, Return
<1>4. ASSUME NEW p \in Procs, Reset(p) PROVE HitInv' /\ NoFalseAlarm'
    BY <1>4 DEF Reset, MayReset, Nil
<1>5. ASSUME NEW p \in Procs,
             WhenStopped(p) \/ IsDoneLook(p) \/ WaitReturn(p) \/ TimedReturn(p) \/ TimedOut(p)
      PROVE  HitInv' /\ NoFalseAlarm'
  <2>1. pc[p] \in Looking /\ Closed(held[p]) => p \in hit
    BY CurrentIsOpen
  <2> QED
    BY <1>5, <2>1
    DEF Return, WhenStopped, IsDoneLook, WaitReturn, TimedReturn, TimedOut, TimeoutResult, signalVars
<1>6. ASSUME Conditions PROVE HitInv' /\ NoFalseAlarm'
    BY <1>6 DEF Conditions, signalVars
<1>7. ASSUME UNCHANGED vars PROVE HitInv' /\ NoFalseAlarm'
    BY <1>7 DEF vars, signalVars
<1>8. ASSUME NEW p \in Procs, Begin(p) PROVE HitInv' /\ NoFalseAlarm'
    BY <1>1, <1>2, <1>4, <1>8
    DEF Begin, SignalSwap, WhenStart, IsDoneLoad, WaitLoad, TimedLoad
<1>9. ASSUME NEW p \in Procs, Finish(p) PROVE HitInv' /\ NoFalseAlarm'
    BY <1>2, <1>3, <1>5, <1>9 DEF Finish, WhenTriggered
<1> QED
    BY <1>6, <1>7, <1>8, <1>9 DEF Next

\* The inductive invariant holds in every behaviour.
LEMMA InvHolds == Spec => []Inv
<1>1. Inv /\ [Next]_vars => Inv'
    BY TypeStep, AccountedStep, HitStep DEF Inv
<1> QED
    BY <1>1, InvInit, PTL DEF Spec

\* Signal and Reset never close a channel twice and never lose one with its
\* waiters, however many goroutines call them at once.
THEOREM Accounted == Spec => []EachChannelAccounted
BY InvHolds, PTL DEF Inv

\* IsDone, Wait, WaitWithTimeout and Signal report a trigger only if the signal was
\* triggered during the call, whatever Resets come in between.
THEOREM TrueReports == Spec => []NoFalseAlarm
BY InvHolds, PTL DEF Inv

\* Every variable keeps its type; in particular nobody is about to close a channel that
\* it does not hold.
THEOREM TypeCorrect == Spec => []TypeOK
BY InvHolds, PTL DEF Inv
==============================================================================
