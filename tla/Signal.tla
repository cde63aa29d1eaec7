-------------------------------- MODULE Signal --------------------------------
(***************************************************************************)
(* internal/concurrency/signal.go: the state of a Signal and the atomic    *)
(* operations its methods are made of.  Channels are numbered; Nil is the  *)
(* nil pointer of a triggered signal, and also closedCh, the channel that  *)
(* is handed out for it.                                                   *)
(***************************************************************************)
EXTENDS Naturals

VARIABLES
  ch,           \* s.ch: the channel of a signal that is not triggered, or Nil
  closedChans   \* the channels that have been closed

signalVars == <<ch, closedChans>>

Nil == 0

\* NewSignal: Reset has given the zero value its first channel.
SignalInit ==
    /\ ch = 1
    /\ closedChans = {}

\* WaitC, Done and Snapshot: one atomic load.
WaitC == ch

\* A receive from c does not block.
Closed(c) == c = Nil \/ c \in closedChans

\* A Signal that closes the channel and leaves it in place.
SwapNilForgotten == UNCHANGED ch

\* atomic.SwapPointer(&s.ch, nil)
SwapNil == ch' = Nil

\* A Signal that does not look at what it has swapped out.
AlreadyTriggeredNever == FALSE

\* The swap returned nil: somebody else has triggered the signal.
AlreadyTriggered == ch = Nil

\* A Signal that forgets those who wait.
CloseChanForgotten(c) == UNCHANGED closedChans

\* close(*ch)
CloseChan(c) == closedChans' = closedChans \cup {c}
==============================================================================
