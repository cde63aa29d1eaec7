---------------------------- MODULE WSReaderProofs ----------------------------
(***************************************************************************)
(* Proofs about WSReader: for all client scripts and all read sizes.       *)
(*                                                                         *)
(* The token of barrierC is in one of three places: in the channel, with   *)
(* readerLoop between its two selects, or with doRead until it gives it    *)
(* back.  (After a failed read it is lost, which is why the errors of Read *)
(* are sticky.)  Everything else rests on this.                            *)
(***************************************************************************)
EXTENDS WSReader, TLAPS

\* readerLoop has the token from its first select until its result is received.
LoopHasToken == loopPc \in {"reader", "send"}

\* doRead has the token from that moment until it gives it back.
ReadHasToken == readPc \in {"fill", "push"}

\* The token is in at most one place.
TokenInv ==
    /\ LoopHasToken => barrierC = 0 /\ ~ReadHasToken
    /\ ReadHasToken => barrierC = 0

\* Whoever may ask for the next io.Reader finds the previous one read to its end.
DrainedInv ==
    /\ barrierC = 1 => undrained = 0
    /\ loopPc = "reader" => undrained = 0
    /\ readPc = "push" => undrained = 0

\* doRead is called only while no Read has failed.
StickyInv == err # NoErr => readPc = "idle"

\* Only a part of the message in r.buf is left, and only while Read may use it.
RangeInv ==
    /\ loopRes.msg <= opened
    /\ loopPc = "send" /\ loopRes.err = NoErr => loopRes.msg >= 1
    /\ readPc = "fill" => rr >= 1
    /\ readPc \in {"push", "check", "copy"} => buf >= 1
    /\ readPc \in {"select", "fill", "push", "check"} => currMsg = 0
    /\ readPc = "copy" => currMsg > 0
    /\ currMsg > 0 => buf >= 1 /\ currMsg <= script[buf].size

\* The message that the token's owner works on is the one after r.buf's.
NextInv ==
    /\ barrierC = 1 => opened = buf
    /\ loopPc = "reader" => opened = buf
    /\ loopPc = "send" /\ loopRes.err = NoErr => loopRes.msg = buf + 1 /\ opened = buf + 1
    /\ readPc = "fill" => rr = buf + 1 /\ opened = buf + 1
    /\ readPc = "push" => opened = buf

\* Everything up to byte k of message i has been returned by Read.
Reached(i, k) ==
    IF k = 0 THEN EndsAt(i - 1)
    ELSE delivered # <<>> /\ delivered[Len(delivered)] = <<i, k>>

\* How far Read has come, in each of its states.
ProgressInv ==
    /\ readPc \in {"idle", "select", "fill"} /\ currMsg = 0 => EndsAt(buf)
    /\ readPc \in {"push", "check"} => EndsAt(buf - 1)
    /\ currMsg > 0 => Reached(buf, script[buf].size - currMsg)

TokInv == TypeOK /\ TokenInv /\ DrainedInv /\ StickyInv /\ RangeInv

\* While no Read has failed, the next byte to deliver is known; after a failure
\* nothing more is delivered.
OrderInv == DeliveredInOrder /\ EOFMeansComplete /\ (err = NoErr => NextInv /\ ProgressInv)

Inv == TokInv /\ OrderInv

------------------------------------------------------------------------------
(* The token, the io.Reader and the types                                   *)

\* The message r.buf holds is one of the client's.
LEMMA BufSize ==
  ASSUME TypeOK, buf >= 1
  PROVE  buf \in 1 .. Len(script) /\ script[buf] \in Message /\ script[buf].size \in Nat
<1>1. buf \in 1 .. Len(script) /\ script[buf] \in Message
  BY DEF TypeOK
<1> QED
  BY <1>1 DEF Message

\* The bytes one copy returns.
LEMMA BytesType ==
  ASSUME NEW n \in Nat, NEW b \in Nat, NEW f \in Nat
  PROVE  [k \in 1 .. n |-> <<b, f + k>>] \in Seq(Nat \X Nat)
<1>1. \A k \in 1 .. n : <<b, f + k>> \in Nat \X Nat
  OBVIOUS
<1> QED
  BY <1>1

\* newWebSocketReader establishes the invariant.
LEMMA TokInvInit == Init => TokInv
<1> SUFFICES ASSUME Init PROVE TokInv
  OBVIOUS
<1>1. script \in Seq(Message) /\ Len(script) \in Nat
  BY ScriptsAssumption DEF Init
<1>2. loopRes \in Result
  BY DEF Init, Result
<1>3. delivered \in Seq(Nat \X Nat)
  BY DEF Init
<1>4. /\ started \in 0 .. Len(script) /\ arrived \in 0 .. started
      /\ opened \in 0 .. started /\ undrained \in 0 .. opened
      /\ rr \in 0 .. opened /\ buf \in 0 .. opened
      /\ barrierC \in 0 .. 1 /\ currMsg \in Nat
  BY <1>1 DEF Init
<1>5. ctxDone \in BOOLEAN /\ closed \in BOOLEAN
  BY DEF Init
<1>6. TypeOK
  BY <1>1, <1>2, <1>3, <1>4, <1>5 DEF Init, TypeOK
<1> QED
  BY <1>6 DEF Init, TokInv, TokenInv, DrainedInv, StickyInv, RangeInv, LoopHasToken,
              ReadHasToken

\* readerLoop never hands over io.EOF.
LEMMA LoopResType ==
  ASSUME TypeOK
  PROVE  loopRes.msg \in Nat /\ loopRes.err \in {"connection", "message type", NoErr}
  BY DEF TypeOK, Result, LoopErrors

\* The step in which readerLoop takes the io.Reader of the next message.
LEMMA LoopReaderTok == ASSUME TokInv, LoopReader PROVE TokInv'
<1>1. /\ opened < started
      /\ opened' = opened + 1
      /\ undrained' = opened'
      /\ loopPc = "reader" /\ loopPc' = "send"
  BY Zenon DEF LoopReader
<1>2. UNCHANGED <<peerVars, link, ctlVars, barrierC, readVars>>
  BY DEF LoopReader
<1>3. opened \in Nat /\ started \in Nat /\ opened' \in Nat
  BY <1>1 DEF TokInv, TypeOK
<1>4. loopRes' \in Result /\ loopRes'.msg = opened'
  <2>1. PICK e \in {NoErr, "message type"} : loopRes' = [msg |-> opened', err |-> e]
    BY Zenon DEF LoopReader
  <2>2. e \in LoopErrors \cup {NoErr}
    BY DEF LoopErrors
  <2> QED
    BY <1>3, <2>1, <2>2, Zenon DEF Result
<1>5. TypeOK'
  BY <1>1, <1>2, <1>3, <1>4 DEF TokInv, TypeOK, peerVars, ctlVars, readVars
<1>6. (TokenInv /\ DrainedInv /\ StickyInv)'
  BY <1>1, <1>2 DEF TokInv, TokenInv, DrainedInv, StickyInv, LoopHasToken, ReadHasToken,
                    peerVars, ctlVars, readVars
<1>7. RangeInv'
  BY <1>1, <1>2, <1>3, <1>4 DEF TokInv, TypeOK, RangeInv, peerVars, ctlVars, readVars
<1> QED
  BY <1>5, <1>6, <1>7 DEF TokInv

\* Every step of the two goroutines, of Close and of the peer preserves it.
LEMMA TokInvNext == TokInv /\ [Next]_vars => TokInv'
<1> SUFFICES ASSUME TokInv, [Next]_vars PROVE TokInv'
  OBVIOUS
<1> USE DEF TokInv, TypeOK, TokenInv, DrainedInv, StickyInv, RangeInv, LoopHasToken,
            ReadHasToken, peerVars, ctlVars, connVars, loopVars, readVars
<1>1. CASE LoopTakeBarrier
  BY <1>1 DEF LoopTakeBarrier, TakeToken
<1>2. CASE LoopStop
  BY <1>2 DEF LoopStop
<1>3. CASE LoopReader
  BY <1>3, LoopReaderTok
<1>4. CASE LoopReaderErr
  <2>1. loopRes' \in Result /\ loopRes'.msg = 0 /\ loopRes'.err # NoErr
    BY <1>4 DEF LoopReaderErr, Result, LoopErrors, NoErr
  <2> QED BY <1>4, <2>1 DEF LoopReaderErr
<1>5. CASE ReadCall
  BY <1>5 DEF ReadCall, MayRead, AfterCall
<1>6. CASE ReadCanceled
  BY <1>6 DEF ReadCanceled, ReturnErr, Errors
<1>7. CASE Handoff
  <2>1. loopRes.msg \in Nat /\ loopRes.err \in Errors \cup {NoErr}
    BY LoopResType DEF Errors
  <2>2. rr' = loopRes.msg /\ rr' \in 0 .. opened
    BY <1>7, <2>1 DEF Handoff
  <2>3. CASE loopRes.err = NoErr
    BY <1>7, <2>2, <2>3 DEF Handoff
  <2>4. CASE loopRes.err # NoErr
    BY <1>7, <2>1, <2>2, <2>4 DEF Handoff, ReturnErr
  <2> QED BY <2>3, <2>4
<1>8. CASE ReadFill
  BY <1>8 DEF ReadFill
<1>9. CASE ReadFillErr
  <2>1. readPc' = "idle" /\ err' = "connection" /\ buf' = 0 /\ currMsg' = 0
    BY <1>9 DEF ReadFillErr, ReturnErr
  <2>2. err' \in Errors
    BY <2>1 DEF Errors
  <2>3. buf' \in 0 .. opened
    BY <2>1
  <2> QED BY <1>9, <2>1, <2>2, <2>3 DEF ReadFillErr
<1>10. CASE ReadPush
  BY <1>10 DEF ReadPush, GiveToken
<1>11. CASE ReadCheck
  <2>1. buf \in 1 .. Len(script) /\ script[buf] \in Message
    BY <1>11, BufSize DEF ReadCheck
  <2>2. CASE FrameError(script[buf]) = NoErr
    <3>1. script[buf].size \in Nat /\ script[buf].size > 0
      BY <2>1, <2>2 DEF FrameError, ValidateGRPCFrame, MessageHeaderLength, Message, NoErr
    <3>2. currMsg' = script[buf].size /\ readPc' = "copy" /\ UNCHANGED err
      BY <1>11, <2>2 DEF ReadCheck, NoErr
    <3> QED BY <1>11, <2>1, <3>1, <3>2 DEF ReadCheck
  <2>3. CASE FrameError(script[buf]) # NoErr
    <3>1. FrameError(script[buf]) \in Errors
      BY <2>3 DEF FrameError, Errors
    <3>2. err' = FrameError(script[buf]) /\ readPc' = "idle" /\ UNCHANGED currMsg
      BY <1>11, <2>3 DEF ReadCheck, ReturnErr
    <3> QED BY <1>11, <2>1, <3>1, <3>2 DEF ReadCheck
  <2> QED BY <2>2, <2>3
<1>12. CASE ReadCopy
  <2>1. buf \in 1 .. Len(script) /\ script[buf].size \in Nat
    BY <1>12, BufSize DEF ReadCopy
  <2> PICK p \in ReadSizes :
         /\ delivered' = delivered \o [k \in 1 .. CopyLen(p) |->
                                         <<buf, script[buf].size - currMsg + k>>]
         /\ currMsg' = currMsg - CopyLen(p)
    BY <1>12 DEF ReadCopy
  <2>2. CopyLen(p) \in 1 .. currMsg
    BY <1>12, ReadSizesAssumption DEF ReadCopy, CopyLen
  <2>3. script[buf].size - currMsg \in Nat
    BY <2>1, <1>12 DEF ReadCopy
  <2>4. [k \in 1 .. CopyLen(p) |-> <<buf, script[buf].size - currMsg + k>>] \in Seq(Nat \X Nat)
    <3> HIDE DEF TokInv, TypeOK
    <3>1. CopyLen(p) \in Nat /\ buf \in Nat
      BY <2>1, <2>2
    <3> QED BY <3>1, <2>3, BytesType
  <2>5. delivered' \in Seq(Nat \X Nat)
    BY <2>4
  <2>6. currMsg' \in Nat /\ currMsg' <= currMsg
    BY <2>2
  <2> QED BY <1>12, <2>1, <2>5, <2>6 DEF ReadCopy
<1>13. CASE Close
  BY <1>13 DEF Close
<1>14. CASE CancelCtx
  BY <1>14 DEF CancelCtx
<1>15. CASE ConnDown
  BY <1>15 DEF ConnDown
<1>16. CASE PeerStart
  BY <1>16 DEF PeerStart
<1>17. CASE PeerFinish
  BY <1>17 DEF PeerFinish
<1>18. CASE PeerClose
  BY <1>18 DEF PeerClose
<1>19. CASE UNCHANGED vars
  BY <1>19 DEF vars
<1> QED
  BY <1>1, <1>2, <1>3, <1>4, <1>5, <1>6, <1>7, <1>8, <1>9, <1>10, <1>11, <1>12, <1>13, <1>14, <1>15, <1>16, <1>17, <1>18, <1>19
  DEF Next, ReaderLoop, DoRead, Environment

\* The variables of the reader keep their types: no Read copies more than is
\* left of the message, and message numbers stay within what has arrived.
THEOREM TypeCorrect == Spec => []TypeOK
<1>1. TokInv => TypeOK
  BY DEF TokInv
<1> QED
  BY <1>1, TokInvInit, TokInvNext, PTL DEF Spec

\* readerLoop never asks for an io.Reader while one is open, for any script.
THEOREM OneReader == Spec => []OneReaderAtATime
<1>1. TokInv => OneReaderAtATime
  BY DEF TokInv, DrainedInv, OneReaderAtATime
<1> QED
  BY <1>1, TokInvInit, TokInvNext, PTL DEF Spec

\* Giving the token back never blocks doRead.
THEOREM BarrierFree == Spec => []BarrierNeverFull
<1>1. TokInv => BarrierNeverFull
  BY DEF TokInv, TokenInv, ReadHasToken, BarrierNeverFull
<1> QED
  BY <1>1, TokInvInit, TokInvNext, PTL DEF Spec

------------------------------------------------------------------------------
(* Errors are sticky                                                        *)

\* Once a Read has failed, no step of any goroutine changes the error or returns
\* another byte.
THEOREM Sticky == Spec => StickyError
<1>1. TokInv /\ [Next]_vars =>
        [err # NoErr => err' = err /\ delivered' = delivered]_<<err, delivered>>
  <2> SUFFICES ASSUME TokInv, [Next]_vars, err # NoErr
               PROVE  err' = err /\ delivered' = delivered
    OBVIOUS
  <2>1. readPc = "idle"
    BY DEF TokInv, StickyInv
  <2> QED
    BY <2>1 DEF Next, vars, ReaderLoop, DoRead, Environment, readVars,
      LoopTakeBarrier, LoopStop, LoopReader, LoopReaderErr, ReadCall, MayRead,
      ReadCanceled, Handoff, ReadFill, ReadFillErr, ReadPush, ReadCheck, ReadCopy,
      Close, CancelCtx, ConnDown, PeerStart, PeerFinish, PeerClose
<1> QED
  BY <1>1, TokInvInit, TokInvNext, PTL DEF Spec, StickyError

------------------------------------------------------------------------------
(* What Read returns                                                        *)

\* Appending the n bytes after byte f of message b.
LEMMA AppendBytes ==
  ASSUME NEW d \in Seq(Nat \X Nat), NEW n \in Nat, NEW b \in Nat, NEW f \in Nat,
         NEW e, e = d \o [k \in 1 .. n |-> <<b, f + k>>]
  PROVE  /\ Len(e) = Len(d) + n
         /\ \A j \in 1 .. Len(d) : e[j] = d[j]
         /\ \A k \in 1 .. n : e[Len(d) + k] = <<b, f + k>>
<1> DEFINE t == [k \in 1 .. n |-> <<b, f + k>>]
<1>1. t \in Seq(Nat \X Nat)
  BY BytesType
<1>2. Len(t) = n
  BY <1>1
<1>3. \A k \in 1 .. n : t[k] = <<b, f + k>>
  OBVIOUS
<1> HIDE DEF t
<1>4. e = d \o t
  BY DEF t
<1> QED
  BY <1>1, <1>2, <1>3, <1>4

\* Bytes appended where Read had come to keep the order, and Read has then come
\* as far as the last of them.
LEMMA CopyOrder ==
  ASSUME TypeOK, DeliveredInOrder, buf >= 1, NEW n \in Nat, n >= 1, NEW f \in Nat,
         Reached(buf, f), UNCHANGED script,
         delivered' = delivered \o [k \in 1 .. n |-> <<buf, f + k>>]
  PROVE  /\ DeliveredInOrder'
         /\ delivered' # <<>>
         /\ delivered'[Len(delivered')] = <<buf, f + n>>
<1>1. delivered \in Seq(Nat \X Nat) /\ buf \in Nat /\ Len(delivered) \in Nat
  BY DEF TypeOK
<1>2. /\ Len(delivered') = Len(delivered) + n
      /\ \A j \in 1 .. Len(delivered) : delivered'[j] = delivered[j]
      /\ \A k \in 1 .. n : delivered'[Len(delivered) + k] = <<buf, f + k>>
  BY <1>1, AppendBytes
<1>3. delivered' # <<>> /\ delivered'[Len(delivered')] = <<buf, f + n>>
  <2>1. Len(delivered') # 0
    BY <1>1, <1>2
  <2>2. delivered' # <<>>
    BY <2>1
  <2>3. n \in 1 .. n
    OBVIOUS
  <2>4. delivered'[Len(delivered) + n] = <<buf, f + n>>
    BY <1>2, <2>3, Zenon
  <2> QED BY <1>2, <2>2, <2>4, Zenon
<1>4. delivered'[1] = <<1, 1>>
  <2>1. CASE delivered = <<>>
    <3>1. f = 0 /\ buf = 1
      BY <1>1, <2>1 DEF Reached, EndsAt
    <3> QED
      BY <1>1, <1>2, <2>1, <3>1
  <2>2. CASE delivered # <<>>
    BY <1>1, <1>2, <2>2 DEF DeliveredInOrder
  <2> QED BY <2>1, <2>2
<1>5. ASSUME NEW j \in 1 .. Len(delivered') - 1
      PROVE  Follows(delivered[j], delivered[j + 1])'
  <2>1. CASE j < Len(delivered)
    <3>1. Follows(delivered[j], delivered[j + 1])
      BY <1>1, <2>1 DEF DeliveredInOrder
    <3>2. j \in 1 .. Len(delivered) /\ j + 1 \in 1 .. Len(delivered)
      BY <1>1, <1>2, <2>1
    <3>3. delivered'[j] = delivered[j] /\ delivered'[j + 1] = delivered[j + 1]
      BY <1>2, <3>2, Zenon
    <3> QED BY <3>1, <3>3 DEF Follows
  <2>2. CASE j = Len(delivered)
    <3>1. delivered'[j] = delivered[j] /\ delivered'[j + 1] = <<buf, f + 1>>
      BY <1>1, <1>2, <2>2
    <3>2. CASE f = 0
      <4>1. delivered[j] = <<buf - 1, script[buf - 1].size>>
        BY <1>1, <2>2, <3>2 DEF Reached, EndsAt
      <4>2. delivered'[j][1] = buf - 1 /\ delivered'[j][2] = script[buf - 1].size
        BY <3>1, <4>1, SMT
      <4>3. (buf - 1) + 1 = buf /\ f + 1 = 1
        BY <1>1, <3>2
      <4>4. delivered'[j + 1] = <<(buf - 1) + 1, 1>>
        BY <3>1, <4>3, Zenon
      <4> QED BY <4>2, <4>4, Zenon DEF Follows
    <3>3. CASE f # 0
      <4>1. delivered[j] = <<buf, f>>
        BY <2>2, <3>3 DEF Reached
      <4>2. delivered'[j][1] = buf /\ delivered'[j][2] = f
        BY <3>1, <4>1, SMT
      <4> QED BY <3>1, <4>2, Zenon DEF Follows
    <3> QED BY <3>2, <3>3
  <2>3. CASE j > Len(delivered)
    <3> DEFINE k == j - Len(delivered)
    <3>1. k \in 1 .. n /\ k + 1 \in 1 .. n /\ j = Len(delivered) + k
      BY <1>1, <1>2, <2>3
    <3> HIDE DEF k
    <3>2. delivered'[Len(delivered) + k] = <<buf, f + k>>
      BY <1>2, <3>1
    <3>3. delivered'[Len(delivered) + (k + 1)] = <<buf, f + (k + 1)>>
      BY <1>2, <3>1, Zenon
    <3>4. Len(delivered) + (k + 1) = j + 1 /\ f + (k + 1) = (f + k) + 1
      BY <1>1, <3>1
    <3> QED BY <3>1, <3>2, <3>3, <3>4 DEF Follows
  <2>4. j < Len(delivered) \/ j = Len(delivered) \/ j > Len(delivered)
    BY <1>1, <1>2
  <2> QED BY <2>1, <2>2, <2>3, <2>4, Zenon
<1> QED
  BY <1>3, <1>4, <1>5 DEF DeliveredInOrder

\* Nothing is delivered yet, so the first byte to come is the first message's.
LEMMA OrderInit == Init => OrderInv
<1> SUFFICES ASSUME Init PROVE OrderInv
  OBVIOUS
<1>1. delivered = <<>> /\ Len(delivered) = 0
  BY DEF Init
<1>2. DeliveredInOrder
  BY <1>1 DEF DeliveredInOrder
<1>3. EOFMeansComplete
  BY DEF Init, EOFMeansComplete, NoErr
<1>4. NextInv /\ ProgressInv
  BY DEF Init, NextInv, ProgressInv, EndsAt
<1> QED
  BY <1>2, <1>3, <1>4 DEF OrderInv

\* A step that delivers nothing and reports no io.EOF only has to keep the two
\* invariants about what comes next.
LEMMA QuietStep ==
  ASSUME OrderInv, UNCHANGED <<script, delivered>>, err' # "EOF" \/ UNCHANGED err,
         err' = NoErr => (NextInv /\ ProgressInv)'
  PROVE  OrderInv'
<1>1. DeliveredInOrder'
  BY DEF OrderInv, DeliveredInOrder, Follows
<1>2. EOFMeansComplete'
  BY DEF OrderInv, EOFMeansComplete, EndsAt
<1> QED
  BY <1>1, <1>2 DEF OrderInv

\* Every step preserves the order of what Read returns.
LEMMA OrderNext == TokInv /\ OrderInv /\ [Next]_vars => OrderInv'
<1> SUFFICES ASSUME TokInv, OrderInv, [Next]_vars PROVE OrderInv'
  OBVIOUS
<1> USE DEF peerVars, ctlVars, connVars, loopVars, readVars
<1>0. TypeOK /\ TokenInv /\ DrainedInv /\ StickyInv /\ RangeInv
  BY DEF TokInv
<1>t. buf \in Nat /\ opened \in Nat /\ currMsg \in Nat /\ rr \in Nat
  BY <1>0 DEF TypeOK
<1>1. CASE LoopTakeBarrier \/ LoopStop
  BY <1>0, <1>1, QuietStep
  DEF LoopTakeBarrier, LoopStop, TakeToken, OrderInv, NextInv, ProgressInv, Reached, EndsAt
<1>2. CASE LoopReader
  <2>1. loopRes'.msg = opened + 1 /\ opened' = opened + 1 /\ loopPc = "reader" /\ loopPc' = "send"
    BY <1>2 DEF LoopReader
  <2>2. UNCHANGED <<peerVars, link, ctlVars, barrierC, readVars>>
    BY <1>2 DEF LoopReader
  <2>3. barrierC = 0 /\ ~ReadHasToken
    BY <1>0, <2>1 DEF TokenInv, LoopHasToken
  <2> QED
    BY <2>1, <2>2, <2>3, QuietStep
    DEF OrderInv, NextInv, ProgressInv, Reached, EndsAt, ReadHasToken
<1>3. CASE LoopReaderErr
  <2>1. loopRes'.err # NoErr
    BY <1>3 DEF LoopReaderErr, NoErr
  <2> QED
    BY <1>0, <1>3, <2>1, QuietStep
    DEF LoopReaderErr, OrderInv, NextInv, ProgressInv, Reached, EndsAt, TokenInv, LoopHasToken
<1>4. CASE ReadCall
  BY <1>0, <1>4, QuietStep
  DEF ReadCall, MayRead, AfterCall, OrderInv, NextInv, ProgressInv, Reached, EndsAt
<1>5. CASE ReadCanceled
  BY <1>5, QuietStep DEF ReadCanceled, ReturnErr, NoErr
<1>6. CASE Handoff
  <2>1. CASE loopRes.err = NoErr
    BY <1>0, <1>6, <2>1, QuietStep
    DEF Handoff, OrderInv, NextInv, ProgressInv, Reached, EndsAt, RangeInv
  <2>2. CASE loopRes.err # NoErr
    <3>1. err' # "EOF" /\ err' # NoErr
      BY <1>0, <1>6, <2>2, LoopResType DEF Handoff, ReturnErr
    <3> QED BY <1>6, <3>1, QuietStep DEF Handoff
  <2> QED BY <2>1, <2>2
<1>7. CASE ReadFill
  <2>1. err = NoErr /\ NextInv /\ ProgressInv
    BY <1>0, <1>7 DEF ReadFill, StickyInv, OrderInv
  <2>2. rr = buf + 1 /\ opened = buf + 1 /\ currMsg = 0 /\ EndsAt(buf)
    BY <1>0, <1>7, <2>1 DEF ReadFill, NextInv, ProgressInv, RangeInv
  <2>3. ~LoopHasToken /\ barrierC = 0
    BY <1>0, <1>7 DEF ReadFill, TokenInv, ReadHasToken
  <2>4. NextInv'
    BY <1>7, <2>2, <2>3 DEF ReadFill, NextInv, LoopHasToken
  <2>5. buf' - 1 = buf
    BY <1>7, <1>t, <2>2 DEF ReadFill
  <2>6. ProgressInv'
    BY <1>7, <2>2, <2>5 DEF ReadFill, ProgressInv, EndsAt
  <2> QED BY <1>7, <2>4, <2>6, QuietStep DEF ReadFill
<1>8. CASE ReadFillErr
  BY <1>8, QuietStep DEF ReadFillErr, ReturnErr, NoErr
<1>9. CASE ReadPush
  BY <1>0, <1>9, QuietStep
  DEF ReadPush, GiveToken, OrderInv, NextInv, ProgressInv, Reached, EndsAt
<1>10. CASE ReadCheck
  <2>1. err = NoErr /\ NextInv /\ ProgressInv
    BY <1>0, <1>10 DEF ReadCheck, StickyInv, OrderInv
  <2>2. buf \in 1 .. Len(script) /\ script[buf] \in Message /\ script[buf].size \in Nat
    BY <1>0, <1>10, BufSize DEF ReadCheck, RangeInv
  <2>3. EndsAt(buf - 1)
    BY <1>10, <2>1 DEF ReadCheck, ProgressInv
  <2>4. UNCHANGED <<script, delivered, barrierC, opened, buf, loopPc, loopRes>>
    BY <1>10 DEF ReadCheck
  <2>5. CASE FrameError(script[buf]) = NoErr
    <3>1. currMsg' = script[buf].size /\ readPc' = "copy" /\ UNCHANGED err
      BY <1>10, <2>5 DEF ReadCheck
    <3>2. NextInv'
      BY <2>1, <2>4, <3>1 DEF NextInv
    <3>3. script'[buf'].size - currMsg' = 0
      BY <2>2, <2>4, <3>1
    <3>4. ProgressInv'
      BY <2>3, <2>4, <3>1, <3>3 DEF ProgressInv, Reached, EndsAt
    <3> QED BY <2>1, <2>4, <3>1, <3>2, <3>4, QuietStep
  <2>6. CASE FrameError(script[buf]) # NoErr /\ FrameError(script[buf]) # "EOF"
    BY <1>10, <2>4, <2>6, QuietStep DEF ReadCheck, ReturnErr
  <2>7. CASE FrameError(script[buf]) = "EOF"
    <3>1. err' = "EOF" /\ "EOF" # NoErr
      BY <1>10, <2>7 DEF ReadCheck, ReturnErr, NoErr
    <3>2. IsEndOfStream(script[buf])
      BY <2>7 DEF FrameError, NoErr
    <3>3. DeliveredInOrder'
      BY <2>4 DEF OrderInv, DeliveredInOrder, Follows
    <3>4. EOFMeansComplete'
      BY <2>2, <2>3, <2>4, <3>2 DEF EOFMeansComplete, EndsAt
    <3> QED BY <3>1, <3>3, <3>4 DEF OrderInv
  <2> QED BY <2>5, <2>6, <2>7
<1>11. CASE ReadCopy
  <2>1. err = NoErr /\ NextInv /\ ProgressInv
    BY <1>0, <1>11 DEF ReadCopy, StickyInv, OrderInv
  <2>2. currMsg > 0 /\ buf >= 1 /\ currMsg <= script[buf].size
    BY <1>0, <1>11 DEF ReadCopy, RangeInv
  <2>3. script[buf].size \in Nat
    BY <1>0, <2>2, BufSize
  <2> DEFINE f == script[buf].size - currMsg
  <2>4. PICK p \in ReadSizes :
         /\ delivered' = delivered \o [k \in 1 .. CopyLen(p) |-> <<buf, f + k>>]
         /\ currMsg' = currMsg - CopyLen(p)
    BY <1>11 DEF ReadCopy
  <2> DEFINE n == CopyLen(p)
  <2>5. n \in Nat /\ n >= 1 /\ n <= currMsg /\ f \in Nat
    BY <1>t, <2>2, <2>3, ReadSizesAssumption DEF CopyLen
  <2>6. Reached(buf, f)
    BY <2>1, <2>2 DEF ProgressInv
  <2>7. UNCHANGED <<script, barrierC, opened, buf, loopPc, loopRes, err, rr>> /\ readPc' = "idle"
    BY <1>11 DEF ReadCopy
  <2>8. script[buf].size - (currMsg - n) = f + n /\ f + n # 0
    BY <1>t, <2>3, <2>5
  <2> HIDE DEF n, f
  <2>9. /\ DeliveredInOrder'
        /\ delivered' # <<>>
        /\ delivered'[Len(delivered')] = <<buf, f + n>>
    <3>1. delivered' = delivered \o [k \in 1 .. n |-> <<buf, f + k>>]
      BY <2>4 DEF n
    <3>2. DeliveredInOrder /\ UNCHANGED script
      BY <2>7 DEF OrderInv
    <3> QED BY <1>0, <2>2, <2>5, <2>6, <3>1, <3>2, CopyOrder
  <2>10. script'[buf'].size - currMsg' = f + n
    BY <2>4, <2>7, <2>8 DEF n
  <2>11. ProgressInv'
    <3>1. ASSUME currMsg' = 0 PROVE EndsAt(buf)'
      <4>1. f + n = script'[buf'].size
        BY <2>3, <2>7, <2>10, <3>1
      <4> QED BY <2>2, <2>7, <2>9, <4>1 DEF EndsAt
    <3>2. Reached(buf, script[buf].size - currMsg)'
      BY <2>7, <2>8, <2>9, <2>10 DEF Reached
    <3> QED BY <2>7, <3>1, <3>2 DEF ProgressInv
  <2>12. NextInv'
    BY <2>1, <2>7 DEF NextInv
  <2>13. EOFMeansComplete'
    BY <2>1, <2>7 DEF EOFMeansComplete, NoErr
  <2> QED BY <2>9, <2>11, <2>12, <2>13 DEF OrderInv
<1>12. CASE Environment
  BY <1>12, QuietStep
  DEF Environment, Close, CancelCtx, ConnDown, PeerStart, PeerFinish, PeerClose,
      OrderInv, NextInv, ProgressInv, Reached, EndsAt
<1>13. CASE UNCHANGED vars
  BY <1>13, QuietStep DEF vars, OrderInv, NextInv, ProgressInv, Reached, EndsAt
<1> QED
  BY <1>1, <1>2, <1>3, <1>4, <1>5, <1>6, <1>7, <1>8, <1>9, <1>10, <1>11, <1>12, <1>13
  DEF Next, ReaderLoop, DoRead

\* Init and Next keep the two parts together.
LEMMA InvHolds == Spec => []Inv
<1>1. Init => Inv
  BY TokInvInit, OrderInit DEF Inv
<1>2. Inv /\ [Next]_vars => Inv'
  BY TokInvNext, OrderNext DEF Inv
<1> QED
  BY <1>1, <1>2, PTL DEF Spec

\* Read returns the client's bytes in order and without a gap.
THEOREM InOrder == Spec => []DeliveredInOrder
<1>1. Inv => DeliveredInOrder
  BY DEF Inv, OrderInv
<1> QED
  BY <1>1, InvHolds, PTL

\* Read reports io.EOF only for a request the client has completed, and only
\* after every byte before its end-of-stream frame.
THEOREM EOFComplete == Spec => []EOFMeansComplete
<1>1. Inv => EOFMeansComplete
  BY DEF Inv, OrderInv
<1> QED
  BY <1>1, InvHolds, PTL
==============================================================================
