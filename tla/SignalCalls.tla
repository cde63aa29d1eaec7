----------------------------- MODULE SignalCalls -----------------------------
(***************************************************************************)
(* internal/concurrency: any number of goroutines that call the methods of *)
(* one Signal and the functions of wait.go and do.go on it.  A call is cut *)
(* into its atomic operations: Signal swaps the pointer and only then      *)
(* closes the channel; whoever waits has loaded the pointer before, and a  *)
(* Reset may come at any time in between.                                  *)
(***************************************************************************)
EXTENDS Signal, FiniteSets

CONSTANTS Procs,    \* the goroutines
          MaxChans  \* bound on the channels made, that is, on successful Resets

ASSUME MaxChansAssumption == MaxChans \in Nat \ {0}

VARIABLES
  made,     \* number of channels made
  pc,       \* the call each goroutine is in
  held,     \* the channel it has loaded
  hit,      \* history: those in whose call the signal was triggered at some time
  told,     \* those whose last call has said that the signal was triggered
  conds     \* the conditions of SignalWhen, "trigger" and "cancel", that are fulfilled

vars == <<signalVars, made, pc, held, hit, told, conds>>

TypeOK ==
    /\ made \in 1 .. MaxChans
    /\ ch \in 0 .. made
    /\ closedChans \subseteq 1 .. made
    /\ pc \in [Procs -> {"idle", "close", "look", "wait", "timed", "when"}]
    /\ held \in [Procs -> 0 .. made]
    /\ \A p \in Procs : pc[p] = "close" => held[p] # Nil
    /\ hit \subseteq Procs
    /\ told \subseteq Procs
    /\ conds \subseteq {"trigger", "cancel"}

Init ==
    /\ SignalInit
    /\ made = 1
    /\ pc = [p \in Procs |-> "idle"]
    /\ held = [p \in Procs |-> Nil]
    /\ hit = {}
    /\ told = {}
    /\ conds = {}

\* The call of p returns; b: it says that the signal is, or was, triggered.
Return(p, b) ==
    /\ pc' = [pc EXCEPT ![p] = "idle"]
    /\ told' = IF b THEN told \cup {p} ELSE told \ {p}

\* A call of p begins by loading the pointer, and goes on at l.
Load(p, l) ==
    /\ pc[p] = "idle"
    /\ held' = [held EXCEPT ![p] = WaitC]
    /\ pc' = [pc EXCEPT ![p] = l]
    /\ hit' = IF ch = Nil THEN hit \cup {p} ELSE hit \ {p}
    /\ told' = told \ {p}
    /\ UNCHANGED <<signalVars, made, conds>>

------------------------------------------------------------------------------
(* Signal, Reset and SignalWhen                                             *)

\* The first half of Signal.
Swap(p) ==
    /\ SwapNil
    /\ \/ /\ AlreadyTriggered
          /\ Return(p, FALSE)
          /\ UNCHANGED <<held, hit>>
       \/ /\ ~AlreadyTriggered
          /\ held' = [held EXCEPT ![p] = ch]
          /\ pc' = [pc EXCEPT ![p] = "close"]
          /\ hit' = Procs
          /\ UNCHANGED told
    /\ UNCHANGED <<closedChans, made, conds>>

SignalSwap(p) == pc[p] = "idle" /\ Swap(p)

SignalClose(p) ==
    /\ pc[p] = "close"
    /\ CloseChan(held[p])
    /\ Return(p, TRUE)
    /\ UNCHANGED <<ch, made, held, hit, conds>>

\* A Reset that replaces the channel of a signal that is not triggered.
MayResetAlways == TRUE

\* The condition of the compare-and-swap.
MayReset == ch = Nil

Reset(p) ==
    /\ pc[p] = "idle"
    /\ MayReset
    /\ made < MaxChans
    /\ made' = made + 1
    /\ ch' = made'
    /\ UNCHANGED <<closedChans, pc, held, hit, told, conds>>

\* The select of SignalWhen, with each of its cases.
WhenStart(p) == Load(p, "when")

WhenTriggered(p) ==
    /\ pc[p] = "when"
    /\ "trigger" \in conds
    /\ Swap(p)

WhenStopped(p) ==
    /\ pc[p] = "when"
    /\ "cancel" \in conds \/ Closed(held[p])
    /\ Return(p, FALSE)
    /\ UNCHANGED <<signalVars, made, held, hit, conds>>

------------------------------------------------------------------------------
(* IsDone, Wait, WaitWithTimeout                                            *)

IsDoneLoad(p) == Load(p, "look")

IsDoneLook(p) ==
    /\ pc[p] = "look"
    /\ Return(p, Closed(held[p]))
    /\ UNCHANGED <<signalVars, made, held, hit, conds>>

WaitLoad(p) == Load(p, "wait")

WaitReturn(p) ==
    /\ pc[p] = "wait"
    /\ Closed(held[p])
    /\ Return(p, TRUE)
    /\ UNCHANGED <<signalVars, made, held, hit, conds>>

\* WaitWithTimeout with a positive timeout; DoWithTimeout acts if it is told so.
TimedLoad(p) == Load(p, "timed")

TimedReturn(p) ==
    /\ pc[p] = "timed"
    /\ Closed(held[p])
    /\ Return(p, TRUE)
    /\ UNCHANGED <<signalVars, made, held, hit, conds>>

\* A timeout reported as a success.
TimeoutResultTrue == TRUE

TimeoutResult == FALSE

\* The timer fires; the channel may be closed by now, and select chooses.
TimedOut(p) ==
    /\ pc[p] = "timed"
    /\ Return(p, TimeoutResult)
    /\ UNCHANGED <<signalVars, made, held, hit, conds>>

------------------------------------------------------------------------------
\* The conditions of SignalWhen belong to its callers.
Conditions ==
    /\ \E c \in {"trigger", "cancel"} : conds' = conds \cup {c}
    /\ UNCHANGED <<signalVars, made, pc, held, hit, told>>

Begin(p) == \/ SignalSwap(p) \/ Reset(p) \/ WhenStart(p) \/ IsDoneLoad(p)
            \/ WaitLoad(p) \/ TimedLoad(p)

Finish(p) == \/ SignalClose(p) \/ WhenTriggered(p) \/ WhenStopped(p) \/ IsDoneLook(p)
             \/ WaitReturn(p) \/ TimedReturn(p) \/ TimedOut(p)

Next == (\E p \in Procs : Begin(p) \/ Finish(p)) \/ Conditions

Spec == Init /\ [][Next]_vars

\* Goroutines run when they can.  Nobody has to call anything.
FairSpec == Spec /\ \A p \in Procs : WF_vars(Finish(p))

------------------------------------------------------------------------------
(* Properties                                                               *)

\* The goroutines that are about to close channel c.
Closers(c) == { p \in Procs : pc[p] = "close" /\ held[p] = c }

\* Every channel ever handed out is the signal's current one, or closed, or
\* about to be closed by exactly one goroutine, and never two of these: no channel
\* is closed twice (which would panic), none is forgotten with its waiters, and
\* a signal that was reset never hands out a closed channel.
EachChannelAccounted ==
    \A c \in 1 .. made :
        \/ c = ch /\ c \notin closedChans /\ Closers(c) = {}
        \/ c # ch /\ c \in closedChans /\ Closers(c) = {}
        \/ c # ch /\ c \notin closedChans /\ \E p \in Procs : Closers(c) = {p}

\* Whoever is told that the signal was triggered is told the truth: it was so at
\* some time during the call, even if the signal has been reset meanwhile.
NoFalseAlarm == told \subseteq hit

\* No wake-up is lost: a goroutine that waits for a channel the signal has given
\* up returns, however soon the signal is reset.
WaitersWake ==
    \A p \in Procs :
        pc[p] \in {"wait", "when", "timed"} /\ held[p] # ch ~> pc[p] = "idle"
==============================================================================
