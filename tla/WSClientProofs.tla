---------------------------- MODULE WSClientProofs ----------------------------
(***************************************************************************)
(* Proofs about WSClient, for every server: any sequences of messages, any *)
(* status codes and any number of messages of the gRPC client.             *)
(***************************************************************************)
EXTENDS WSClient, FiniteSetTheorems, SequenceTheorems, TLAPS

\* errFlag is raised before connErr is stored: in between, somebody is about to.
\* Main gets past its loop with an error, with trailers or with a status in the
\* header.
ErrorInv ==
    /\ errFlag = 1 => connErr # "nil" \/ mainPc = "store" \/ writePc = "store"
    /\ mainPc \in {"store", "closeBody", "wait"} =>
         errFlag = 1 \/ ~dataExpected \/ headerStatus # <<>>
    /\ mainPc = "start" => writePc = "idle" /\ errFlag = 0
    /\ mainPc \in {"close", "done"} => writePc \in {"idle", "done"}
    /\ mainPc = "close" /\ FinalStatus = <<>> => errFlag = 0 /\ ~dataExpected

\* The writer sends every message it has taken, and reads on only then.
WriteInv ==
    /\ writePc \in {"idle", "read", "eos"} => sent = taken
    /\ writePc = "send" => sent + 1 = taken
    /\ writePc = "eos" => requestEnd = "eof" /\ taken = requests
    /\ eosSent => writePc = "done"

\* What main has read so far: the header first, then the messages it has written, one
\* after the other, then the trailers.
ReadInv ==
    /\ \A k \in 1 .. Len(written) : written[k] = k + 1 /\ IsDataFrame(script[k + 1])
    /\ mainPc \in {"start", "header"} =>
         next = 0 /\ written = <<>> /\ headerStatus = <<>> /\ trailerStatus = <<>> /\ dataExpected
    /\ written # <<>> \/ mainPc = "body" \/ ~dataExpected =>
         /\ Len(written) + 1 <= next
         /\ IsMetadataFrame(script[1])
         /\ script[1].meta = "none"
    /\ mainPc = "body" /\ dataExpected => next = Len(written) + 1
    /\ mainPc \in {"start", "header", "body"} => closeRead = "idle"
    /\ ~dataExpected =>
         /\ Len(written) + 2 <= next
         /\ IsMetadataFrame(script[Len(written) + 2])
         /\ script[Len(written) + 2].mt = "binary"

\* Where the statuses come from.
StatusInv ==
    /\ headerStatus # <<>> =>
         \/ mainPc = "done" /\ headerStatus = <<"Unavailable">>
         \/ /\ written = <<>> /\ 1 <= next
            /\ IsMetadataFrame(script[1])
            /\ script[1].mt = "binary"
            /\ script[1].meta \in Statuses
            /\ headerStatus = <<script[1].meta>>
    /\ trailerStatus # <<>> =>
         \/ mainPc \in {"close", "done"} /\ trailerStatus = <<"Unavailable">>
         \/ /\ ~dataExpected
            /\ script[Len(written) + 2].meta \in Statuses
            /\ trailerStatus = <<script[Len(written) + 2].meta>>

\* There is a place for StatusAt.
StatusAtInv ==
    \E i \in 1 .. arrived + 1 :
        /\ i <= arrived => IsMetadataFrame(script[i]) /\ script[i].meta \in Statuses
        /\ \A j \in 1 .. i - 1 :
              ~(IsMetadataFrame(script[j]) /\ script[j].meta \in Statuses)

Inv ==
    /\ TypeOK
    /\ ErrorInv /\ FailureReported
    /\ WriteInv /\ EOSMeansWholeRequest
    /\ ReadInv /\ StatusInv /\ StatusAtInv

\* The initial states satisfy the invariant.
LEMMA InvInit == Init => Inv
<1> SUFFICES ASSUME Init PROVE Inv
    OBVIOUS
<1> USE ScriptsAssumption, MaxRequestsAssumption DEF Init
<1>1. TypeOK
  <2>1. script \in Seq(ServerMessage) /\ Len(script) \in Nat
    OBVIOUS
  <2>2. \A S : <<>> \in Seq(S)
    BY EmptySeq
  <2>3. /\ headerStatus \in Seq(Statuses \cup {"Unavailable"})
        /\ trailerStatus \in Seq(Statuses \cup {"Unavailable"})
        /\ written \in Seq(1 .. Len(script))
    BY <2>2
  <2>4. /\ arrived \in 0 .. Len(script)
        /\ next \in 0 .. arrived
        /\ requests \in 0 .. MaxRequests
        /\ taken \in 0 .. requests
        /\ sent \in 0 .. taken
        /\ errFlag \in 0 .. 1
    BY <2>1
  <2> HIDE ScriptsAssumption, MaxRequestsAssumption
  <2> QED
    BY <2>1, <2>3, <2>4, Zenon DEF TypeOK, Ends
<1>2. ErrorInv /\ FailureReported /\ WriteInv /\ EOSMeansWholeRequest
    BY DEF ErrorInv, FailureReported, Finished, FinalStatus, WriteInv, EOSMeansWholeRequest
<1>3. ReadInv /\ StatusInv
    BY DEF ReadInv, StatusInv
<1>4. StatusAtInv
    BY DEF StatusAtInv
<1> QED
    BY <1>1, <1>2, <1>3, <1>4 DEF Inv

\* A sequence of one element.
LEMMA Singleton ==
    ASSUME NEW S, NEW x \in S
    PROVE  <<x>> \in Seq(S) /\ <<x>> # <<>> /\ <<x>>[1] = x
BY EmptySeq, AppendProperties

\* What setHeader adds are statuses.
LEMMA StatusOfType ==
    ASSUME NEW m PROVE StatusOf(m) \in Seq(Statuses \cup {"Unavailable"})
<1>1. <<>> \in Seq(Statuses \cup {"Unavailable"})
    BY EmptySeq
<1>2. ASSUME m.meta \in Statuses PROVE <<m.meta>> \in Seq(Statuses \cup {"Unavailable"})
    BY <1>2, Singleton
<1> QED
    BY <1>1, <1>2 DEF StatusOf

\* The message that conn.Read returns is one of the script.
LEMMA Received ==
    ASSUME TypeOK, next < arrived, next' = next + 1
    PROVE  next' \in 1 .. Len(script) /\ next' \in 0 .. arrived
BY DEF TypeOK

\* Every step keeps the types.
LEMMA TypeStep == Inv /\ [Next]_vars => TypeOK'
<1> SUFFICES ASSUME TypeOK, WriteInv, [Next]_vars PROVE TypeOK'
    BY DEF Inv
<1> USE MaxRequestsAssumption
    DEF TypeOK, peerVars, clientVars, connVars, readVars, errVars, writeVars, respVars
<1>1. ASSUME MainRefuse PROVE TypeOK'
    BY <1>1 DEF MainRefuse
<1>2. ASSUME MainDialErr PROVE TypeOK'
    BY <1>2 DEF MainDialErr
<1>3. ASSUME MainDial PROVE TypeOK'
    BY <1>3 DEF MainDial
<1>4. ASSUME MainHeader PROVE TypeOK'
  <2>1. next' \in 0 .. arrived
    BY <1>4, Received DEF MainHeader, Receive
  <2>2. headerStatus' \in Seq(Statuses \cup {"Unavailable"})
    BY <1>4, StatusOfType DEF MainHeader
  <2> QED
    BY <1>4, <2>1, <2>2 DEF MainHeader, ReturnErr, ReturnOk, CloseRead
<1>5. ASSUME MainBody PROVE TypeOK'
  <2>1. next' \in 1 .. Len(script) /\ next' \in 0 .. arrived
    BY <1>5, Received DEF MainBody, Receive
  <2>2. Append(written, next') \in Seq(1 .. Len(script))
    BY <2>1, AppendProperties
  <2>3. \A m : trailerStatus \o StatusOf(m) \in Seq(Statuses \cup {"Unavailable"})
    BY StatusOfType, ConcatProperties
  <2>4. written' \in Seq(1 .. Len(script))
    BY <1>5, <2>2, Zenon DEF MainBody
  <2>5. trailerStatus' \in Seq(Statuses \cup {"Unavailable"})
    <3>1. trailerStatus' \in {trailerStatus, trailerStatus \o StatusOf(script[next'])}
        BY <1>5 DEF MainBody
    <3>2. trailerStatus \o StatusOf(script[next']) \in Seq(Statuses \cup {"Unavailable"})
        BY <2>3
    <3>3. trailerStatus \in Seq(Statuses \cup {"Unavailable"})
        OBVIOUS
    <3> HIDE DEF TypeOK
    <3> QED
        BY <3>1, <3>2, <3>3, Zenon
  <2>6. UNCHANGED <<peerVars, clientVars, bodyClosed, connVars, errVars, writeVars,
                    httpStatus, headerStatus>>
    BY <1>5 DEF MainBody
  <2>7. /\ dataExpected' \in BOOLEAN
        /\ UNCHANGED <<mainPc, closeRead>> \/ (mainPc' = "swap" /\ closeRead' = "reading")
    BY <1>5, Zenon DEF MainBody, ReturnErr, CloseRead
  <2> QED
    BY <2>1, <2>4, <2>5, <2>6, <2>7
<1>6. ASSUME MainWriteErr PROVE TypeOK'
    BY <1>6 DEF MainWriteErr, ReturnErr, CloseRead
<1>7. ASSUME MainReadErr PROVE TypeOK'
    BY <1>7 DEF MainReadErr, ReadFails, ReturnErr, ReturnOk, CloseRead
<1>8. ASSUME MainSwap PROVE TypeOK'
    BY <1>8 DEF MainSwap
<1>9. ASSUME MainStore PROVE TypeOK'
    BY <1>9 DEF MainStore
<1>10. ASSUME MainCloseBody PROVE TypeOK'
    BY <1>10 DEF MainCloseBody
<1>11. ASSUME MainReport PROVE TypeOK'
  <2>0. <<"Unavailable">> \in Seq(Statuses \cup {"Unavailable"})
    BY Singleton
  <2>1. trailerStatus' \in Seq(Statuses \cup {"Unavailable"})
    BY <1>11, <2>0, Zenon DEF MainReport
  <2> QED
    BY <1>11, <2>1 DEF MainReport, Waited
<1>12. ASSUME MainClose PROVE TypeOK'
    BY <1>12 DEF MainClose, CloseConn
<1>13. ASSUME WriterRead PROVE TypeOK'
    BY <1>13 DEF WriterRead
<1>14. ASSUME WriterBodyEnd PROVE TypeOK'
    BY <1>14 DEF WriterBodyEnd, AfterBody
<1>15. ASSUME WriterSend PROVE TypeOK'
  <2>1. CASE writePc = "send"
    <3>1. sent' = sent + 1 /\ sent + 1 = taken
        BY <1>15, <2>1 DEF WriterSend, WriteInv
    <3> QED
        BY <1>15, <2>1, <3>1 DEF WriterSend, AfterSend
  <2>2. CASE writePc = "eos"
    BY <1>15, <2>2 DEF WriterSend
  <2> QED
    BY <1>15, <2>1, <2>2 DEF WriterSend
<1>16. ASSUME WriterSendErr PROVE TypeOK'
    BY <1>16 DEF WriterSendErr
<1>17. ASSUME WriterSwap PROVE TypeOK'
    BY <1>17 DEF WriterSwap
<1>18. ASSUME WriterStore PROVE TypeOK'
    BY <1>18 DEF WriterStore
<1>19. ASSUME WriterClose PROVE TypeOK'
    BY <1>19 DEF WriterClose, CloseConn
<1>20. ASSUME CloseReader PROVE TypeOK'
    BY <1>20 DEF CloseReader, Receive, CloseConn, ReadFails
<1>21. ASSUME ClientSend PROVE TypeOK'
    BY <1>21 DEF ClientSend
<1>22. ASSUME ClientEnd PROVE TypeOK'
    BY <1>22 DEF ClientEnd
<1>23. ASSUME ClientCancel PROVE TypeOK'
    BY <1>23 DEF ClientCancel
<1>24. ASSUME ServerSend PROVE TypeOK'
    BY <1>24 DEF ServerSend
<1>25. ASSUME ServerStall PROVE TypeOK'
    BY <1>25 DEF ServerStall
<1>26. ASSUME ServerEnd PROVE TypeOK'
    BY <1>26 DEF ServerEnd
<1>27. ASSUME UNCHANGED vars PROVE TypeOK'
    BY <1>27 DEF vars
<1> QED
    BY <1>1, <1>2, <1>3, <1>4, <1>5, <1>6, <1>7, <1>8, <1>9, <1>10, <1>11, <1>12, <1>13, <1>14, <1>15, <1>16, <1>17, <1>18, <1>19, <1>20, <1>21, <1>22, <1>23, <1>24, <1>25, <1>26, <1>27, Zenon
    DEF Next, Main, Writer, Environment

------------------------------------------------------------------------------
(* The request: what the writer has sent                                    *)

RequestSame == UNCHANGED <<writeVars, requests, requestEnd>>

\* Every step keeps the count of the messages sent, and the end-of-stream message comes
\* after all of them.
LEMMA WriteStep == Inv /\ [Next]_vars => WriteInv' /\ EOSMeansWholeRequest'
<1> SUFFICES ASSUME Inv, [Next]_vars PROVE WriteInv' /\ EOSMeansWholeRequest'
    OBVIOUS
<1>0. TypeOK /\ ErrorInv /\ WriteInv /\ EOSMeansWholeRequest
    BY DEF Inv
<1> USE DEF WriteInv, EOSMeansWholeRequest, writeVars
<1>1. ASSUME RequestSame PROVE WriteInv' /\ EOSMeansWholeRequest'
    BY <1>0, <1>1 DEF RequestSame
<1>2. ASSUME MainDial PROVE WriteInv' /\ EOSMeansWholeRequest'
    BY <1>0, <1>2 DEF MainDial, ErrorInv, clientVars
<1>3. ASSUME WriterRead PROVE WriteInv' /\ EOSMeansWholeRequest'
    BY <1>0, <1>3 DEF WriterRead, TypeOK, clientVars
<1>4. ASSUME WriterBodyEnd PROVE WriteInv' /\ EOSMeansWholeRequest'
    BY <1>0, <1>4 DEF WriterBodyEnd, AfterBody, clientVars
<1>5. ASSUME WriterSend PROVE WriteInv' /\ EOSMeansWholeRequest'
    BY <1>0, <1>5 DEF WriterSend, AfterSend, clientVars
<1>6. ASSUME WriterSendErr \/ WriterSwap \/ WriterStore \/ WriterClose
      PROVE WriteInv' /\ EOSMeansWholeRequest'
    BY <1>0, <1>6 DEF WriterSendErr, WriterSwap, WriterStore, WriterClose, clientVars
<1>7. ASSUME ClientSend \/ ClientEnd PROVE WriteInv' /\ EOSMeansWholeRequest'
    BY <1>0, <1>7 DEF ClientSend, ClientEnd
<1>8. ASSUME \/ MainRefuse \/ MainDialErr \/ MainHeader \/ MainBody \/ MainWriteErr
             \/ MainReadErr \/ MainSwap \/ MainStore \/ MainCloseBody \/ MainReport
             \/ MainClose \/ CloseReader
      PROVE RequestSame
    BY <1>8 DEF MainRefuse, MainDialErr, MainHeader, MainBody, MainWriteErr, MainReadErr,
                MainSwap, MainStore, MainCloseBody, MainReport, MainClose, CloseReader,
                RequestSame, clientVars
<1>9. ASSUME ClientCancel \/ ServerSend \/ ServerStall \/ ServerEnd PROVE RequestSame
    BY <1>9 DEF ClientCancel, ServerSend, ServerStall, ServerEnd, RequestSame, clientVars
<1>10. ASSUME UNCHANGED vars PROVE RequestSame
    BY <1>10 DEF vars, RequestSame, clientVars
<1> QED
    BY <1>1, <1>2, <1>3, <1>4, <1>5, <1>6, <1>7, <1>8, <1>9, <1>10, Zenon
    DEF Next, Main, Writer, Environment

------------------------------------------------------------------------------
(* Errors: none is lost between errFlag and connErr                         *)

ErrorSame == UNCHANGED <<errVars, mainPc, writePc, dataExpected, httpStatus,
                         headerStatus, trailerStatus>>

\* Every step keeps what is known of the error.
LEMMA ErrorStep == Inv /\ [Next]_vars => ErrorInv' /\ FailureReported'
<1> SUFFICES ASSUME Inv, [Next]_vars PROVE ErrorInv' /\ FailureReported'
    OBVIOUS
<1>0. TypeOK /\ ErrorInv /\ FailureReported
    BY DEF Inv
<1>00. StatusInv /\ ReadInv
    BY DEF Inv
<1> USE DEF ErrorInv, FailureReported, Finished, FinalStatus, errVars
<1>1. ASSUME ErrorSame PROVE ErrorInv' /\ FailureReported'
    BY <1>0, <1>1 DEF ErrorSame
<1>2. ASSUME MainRefuse PROVE ErrorInv' /\ FailureReported'
    BY <1>0, <1>2 DEF MainRefuse, writeVars
<1>3. ASSUME MainDialErr PROVE ErrorInv' /\ FailureReported'
    BY <1>0, <1>3, Singleton DEF MainDialErr, writeVars
<1>4. ASSUME MainDial PROVE ErrorInv' /\ FailureReported'
    BY <1>0, <1>4 DEF MainDial
<1>5. ASSUME MainHeader PROVE ErrorInv' /\ FailureReported'
    BY <1>0, <1>5, Singleton DEF MainHeader, ReturnErr, ReturnOk, StatusOf, writeVars
<1>6. ASSUME MainBody PROVE ErrorInv' /\ FailureReported'
    BY <1>0, <1>6 DEF MainBody, ReturnErr, writeVars
<1>7. ASSUME MainWriteErr PROVE ErrorInv' /\ FailureReported'
    BY <1>0, <1>7 DEF MainWriteErr, ReturnErr, writeVars
<1>8. ASSUME MainReadErr PROVE ErrorInv' /\ FailureReported'
    BY <1>0, <1>8 DEF MainReadErr, ReturnErr, ReturnOk, writeVars, respVars
<1>9. ASSUME MainSwap PROVE ErrorInv' /\ FailureReported'
    BY <1>0, <1>9 DEF MainSwap, TypeOK, writeVars, readVars, respVars
<1>10. ASSUME MainStore PROVE ErrorInv' /\ FailureReported'
    BY <1>0, <1>10 DEF MainStore, writeVars, readVars, respVars
<1>11. ASSUME MainCloseBody PROVE ErrorInv' /\ FailureReported'
    BY <1>0, <1>11 DEF MainCloseBody, writeVars, readVars, respVars
<1>12. ASSUME MainReport PROVE ErrorInv' /\ FailureReported'
  <2>0. <<"Unavailable">> # <<>>
    BY Singleton
  <2>1. /\ mainPc = "wait" /\ writePc = "done" /\ mainPc' = "close"
        /\ UNCHANGED <<errFlag, connErr, writePc, dataExpected, headerStatus>>
    BY <1>12 DEF MainReport, Waited, writeVars, readVars
  <2>2. errFlag \in 0 .. 1
    BY <1>0 DEF TypeOK
  <2>3. connErr = "nil" /\ headerStatus = <<>> => errFlag = 0 /\ ~dataExpected
    BY <1>0, <2>1, <2>2
  <2>4. headerStatus = <<>> => trailerStatus' # <<>> \/ (errFlag = 0 /\ ~dataExpected)
    BY <1>12, <2>0, <2>3, Zenon DEF MainReport
  <2> QED
    BY <1>0, <2>1, <2>4
<1>13. ASSUME MainClose PROVE ErrorInv' /\ FailureReported'
    BY <1>0, <1>13 DEF MainClose, writeVars, readVars, respVars
<1>14. ASSUME WriterRead \/ WriterBodyEnd \/ WriterSend \/ WriterSendErr
       PROVE ErrorInv' /\ FailureReported'
    BY <1>0, <1>14 DEF WriterRead, WriterBodyEnd, WriterSend, WriterSendErr, readVars, respVars
<1>15. ASSUME WriterSwap \/ WriterStore \/ WriterClose
       PROVE ErrorInv' /\ FailureReported'
    BY <1>0, <1>15 DEF WriterSwap, WriterStore, WriterClose, readVars, respVars, TypeOK
<1>16. ASSUME CloseReader PROVE ErrorSame
    BY <1>16 DEF CloseReader, ErrorSame, writeVars, respVars
<1>17. ASSUME Environment PROVE ErrorSame
    BY <1>17 DEF Environment, ClientSend, ClientEnd, ClientCancel, ServerSend, ServerStall,
                 ServerEnd, ErrorSame, writeVars, readVars, respVars
<1>18. ASSUME UNCHANGED vars PROVE ErrorSame
    BY <1>18 DEF vars, ErrorSame, writeVars, readVars, respVars
<1> QED
    BY <1>1, <1>2, <1>3, <1>4, <1>5, <1>6, <1>7, <1>8, <1>9, <1>10, <1>11, <1>12, <1>13,
       <1>14, <1>15, <1>16, <1>17, <1>18, Zenon
    DEF Next, Main, Writer

------------------------------------------------------------------------------
(* The response: what main has read and written                             *)

\* What a step does at most that reads nothing for the client: it may read on, but only
\* after the loop.
ReadSame ==
    /\ UNCHANGED <<script, written, dataExpected, headerStatus, trailerStatus>>
    /\ next' >= next
    /\ \/ UNCHANGED <<mainPc, next, closeRead>>
       \/ mainPc' \notin {"start", "header", "body"}
    /\ mainPc \in {"close", "done"} => mainPc' \in {"close", "done"}
    /\ mainPc = "done" => mainPc' = "done"

\* Such a step keeps what is known of the response.
LEMMA ReadSameStep ==
    ASSUME TypeOK, TypeOK', ReadInv, StatusInv, ReadSame PROVE ReadInv' /\ StatusInv'
<1>1. Len(written) \in Nat /\ next \in Nat /\ next' \in Nat
    BY DEF TypeOK
<1>2. ReadInv'
    BY <1>1 DEF ReadInv, ReadSame
<1>3. StatusInv'
    BY <1>1 DEF StatusInv, ReadSame
<1> QED
    BY <1>2, <1>3

\* The steps that are of this kind.
LEMMA ReadSameSteps ==
    ASSUME TypeOK, ReadInv, [Next]_vars
    PROVE  ReadSame \/ MainDialErr \/ MainDial \/ MainHeader \/ MainBody \/ MainReport
<1>0. next \in Nat
    BY DEF TypeOK
<1> USE <1>0 DEF ReadSame, peerVars, readVars, respVars
<1>1. ASSUME MainRefuse PROVE ReadSame
    BY <1>1 DEF MainRefuse
<1>2. ASSUME MainWriteErr PROVE ReadSame
    BY <1>2 DEF MainWriteErr, ReturnErr
<1>3. ASSUME MainReadErr PROVE ReadSame
    BY <1>3 DEF MainReadErr, ReturnErr, ReturnOk
<1>4. ASSUME MainSwap \/ MainStore \/ MainCloseBody \/ MainClose PROVE ReadSame
    BY <1>4 DEF MainSwap, MainStore, MainCloseBody, MainClose
<1>5. ASSUME Writer PROVE ReadSame
    BY <1>5 DEF Writer, WriterRead, WriterBodyEnd, WriterSend, WriterSendErr, WriterSwap,
                WriterStore, WriterClose
<1>6. ASSUME CloseReader PROVE ReadSame
    BY <1>6 DEF CloseReader, Receive, ReadInv
<1>7. ASSUME Environment PROVE ReadSame
    BY <1>7 DEF Environment, ClientSend, ClientEnd, ClientCancel, ServerSend, ServerStall,
                ServerEnd
<1>8. ASSUME UNCHANGED vars PROVE ReadSame
    BY <1>8 DEF vars
<1> HIDE DEF ReadSame
<1> QED
    BY <1>1, <1>2, <1>3, <1>4, <1>5, <1>6, <1>7, <1>8, Zenon DEF Next, Main

\* readHeader keeps what is known of the response.
LEMMA HeaderStep ==
    ASSUME TypeOK, TypeOK', ReadInv, StatusInv, MainHeader PROVE ReadInv' /\ StatusInv'
<1>1. /\ next = 0 /\ next' = 1 /\ written = <<>> /\ Len(written) = 0
      /\ dataExpected /\ headerStatus = <<>> /\ trailerStatus = <<>>
      /\ UNCHANGED <<script, written, dataExpected, trailerStatus>>
      /\ closeRead = "idle"
    BY EmptySeq DEF ReadInv, MainHeader, Receive, peerVars
<1>2. CASE mainPc' = "swap" /\ UNCHANGED headerStatus
    BY <1>1, <1>2 DEF ReadInv, StatusInv
<1>3. CASE /\ mainPc' = "closeBody"
           /\ ~Unusable(script[1]) /\ IsMetadataFrame(script[1])
           /\ script[1].meta \in Statuses
           /\ headerStatus' = StatusOf(script[1])
    BY <1>1, <1>3 DEF ReadInv, StatusInv, Unusable, StatusOf
<1>4. CASE /\ mainPc' = "body" /\ UNCHANGED <<headerStatus, closeRead>>
           /\ IsMetadataFrame(script[1]) /\ script[1].meta = "none"
    BY <1>1, <1>4 DEF ReadInv, StatusInv
<1> QED
    BY <1>1, <1>2, <1>3, <1>4 DEF MainHeader, ReturnErr, ReturnOk

\* A message in the loop keeps what is known of the response.
LEMMA BodyStep ==
    ASSUME TypeOK, TypeOK', ReadInv, StatusInv, MainBody PROVE ReadInv' /\ StatusInv'
<1> DEFINE n == Len(written)
           m == script[next']
<1>1. /\ mainPc = "body" /\ next' = next + 1
      /\ UNCHANGED <<script, headerStatus>>
      /\ n \in Nat /\ next \in Nat
      /\ n + 1 <= next /\ IsMetadataFrame(script[1]) /\ script[1].meta = "none"
      /\ dataExpected => next = n + 1
    BY DEF TypeOK, ReadInv, MainBody, Receive, peerVars
<1>2. headerStatus = <<>>
    BY <1>1, StatusesAssumption DEF StatusInv
<1>3. CASE mainPc' = "swap" /\ UNCHANGED <<dataExpected, trailerStatus, written>>
  <2>1. ReadSame
    BY <1>1, <1>3 DEF ReadSame
  <2> QED
    BY <2>1, ReadSameStep
<1>4. CASE /\ dataExpected /\ IsDataFrame(m)
           /\ written' = Append(written, next')
           /\ UNCHANGED <<mainPc, closeRead, dataExpected, trailerStatus>>
  <2>1. next' \in 1 .. Len(script)
    BY Received DEF MainBody, Receive
  <2>2. /\ Len(written') = n + 1
        /\ \A k \in 1 .. n : written'[k] = written[k]
        /\ written'[n + 1] = n + 2
    BY <1>1, <1>4, <2>1, AppendProperties DEF TypeOK
  <2>3. \A k \in 1 .. n + 1 : written'[k] = k + 1 /\ IsDataFrame(script[k + 1])
    BY <1>1, <1>4, <2>2 DEF ReadInv
  <2>4. ReadInv'
    BY <1>1, <1>4, <2>2, <2>3 DEF ReadInv
  <2>5. StatusInv'
    BY <1>1, <1>2, <1>4 DEF StatusInv
  <2> QED
    BY <2>4, <2>5
<1>5. CASE /\ dataExpected /\ ~Unusable(m) /\ IsMetadataFrame(m)
           /\ dataExpected' = FALSE
           /\ UNCHANGED written
           /\ \/ mainPc' = "swap" /\ UNCHANGED trailerStatus
              \/ /\ trailerStatus' = trailerStatus \o StatusOf(m)
                 /\ UNCHANGED <<mainPc, closeRead>>
  <2>1. next' = n + 2 /\ trailerStatus = <<>>
    BY <1>1, <1>5 DEF StatusInv
  <2>2. trailerStatus' \in {<<>>, StatusOf(m)}
    BY <1>5, <2>1, StatusOfType, ConcatEmptySeq
  <2>3. ReadInv'
    BY <1>1, <1>5, <2>1 DEF ReadInv, Unusable
  <2>4. StatusInv'
    BY <1>1, <1>2, <1>5, <2>1, <2>2 DEF StatusInv, StatusOf
  <2> QED
    BY <2>3, <2>4
<1> QED
    BY <1>3, <1>4, <1>5 DEF MainBody, ReturnErr, MessageExpected

\* Every step keeps what is known of the response.
LEMMA ReadStep == Inv /\ [Next]_vars => ReadInv' /\ StatusInv'
<1> SUFFICES ASSUME Inv, [Next]_vars PROVE ReadInv' /\ StatusInv'
    OBVIOUS
<1>0. TypeOK /\ ReadInv /\ StatusInv /\ TypeOK'
    BY TypeStep DEF Inv
<1>1. ASSUME MainDialErr PROVE ReadInv' /\ StatusInv'
    BY <1>0, <1>1 DEF MainDialErr, ReadInv, StatusInv, peerVars, readVars
<1>2. ASSUME MainDial PROVE ReadInv' /\ StatusInv'
    BY <1>0, <1>2 DEF MainDial, ReadInv, StatusInv, peerVars, readVars, respVars
<1>3. ASSUME MainReport PROVE ReadInv' /\ StatusInv'
    BY <1>0, <1>3 DEF MainReport, Waited, ReadInv, StatusInv, peerVars, readVars
<1> QED
    BY <1>0, <1>1, <1>2, <1>3, ReadSameSteps, ReadSameStep, HeaderStep, BodyStep, Zenon

------------------------------------------------------------------------------
(* Where the server's status is                                             *)

HasStatus(m) == IsMetadataFrame(m) /\ m.meta \in Statuses

\* Of the first a messages of s, the first that has a status is number i; or none has one.
IsStatusAt(s, a, i) ==
    /\ i \in 1 .. a + 1
    /\ i <= a => HasStatus(s[i])
    /\ \A j \in 1 .. i - 1 : ~HasStatus(s[j])

\* There is one such place at most.
LEMMA StatusAtUnique ==
    ASSUME NEW s, NEW a \in Nat, NEW i, IsStatusAt(s, a, i), NEW k, IsStatusAt(s, a, k)
    PROVE  i = k
<1>1. i \in Nat /\ k \in Nat /\ i >= 1 /\ k >= 1
    BY DEF IsStatusAt
<1>2. ~(i < k) /\ ~(k < i)
    BY <1>1 DEF IsStatusAt
<1> QED
    BY <1>1, <1>2

\* StatusAt is it.
LEMMA StatusAtIs == StatusAtInv => IsStatusAt(script, arrived, StatusAt)
BY DEF StatusAtInv, StatusAt, IsStatusAt, HasStatus

\* The next message moves the place only if no message had a status, nor has this one.
LEMMA StatusAtArrives ==
    ASSUME NEW s, NEW a \in Nat, NEW i, IsStatusAt(s, a, i)
    PROVE  IsStatusAt(s, a + 1, IF i = a + 1 /\ ~HasStatus(s[a + 1]) THEN a + 2 ELSE i)
<1>1. i \in 1 .. a + 1
    BY DEF IsStatusAt
<1>2. CASE i <= a
    BY <1>1, <1>2 DEF IsStatusAt
<1>3. CASE i = a + 1 /\ HasStatus(s[a + 1])
    BY <1>3 DEF IsStatusAt
<1>4. CASE i = a + 1 /\ ~HasStatus(s[a + 1])
    BY <1>4 DEF IsStatusAt
<1> QED
    BY <1>1, <1>2, <1>3, <1>4

\* The script stays, and messages arrive one by one.
LEMMA ScriptStep ==
    ASSUME Inv, [Next]_vars
    PROVE  script' = script /\ (arrived' = arrived \/ (ServerSend /\ arrived' = arrived + 1))
<1> USE DEF peerVars
<1>1. ASSUME Main PROVE UNCHANGED peerVars
    BY <1>1 DEF Main, MainRefuse, MainDialErr, MainDial, MainHeader, MainBody, MainWriteErr,
                MainReadErr, MainSwap, MainStore, MainCloseBody, MainReport, MainClose
<1>2. ASSUME Writer PROVE UNCHANGED peerVars
    BY <1>2 DEF Writer, WriterRead, WriterBodyEnd, WriterSend, WriterSendErr, WriterSwap,
                WriterStore, WriterClose
<1>3. ASSUME CloseReader PROVE UNCHANGED peerVars
    BY <1>3 DEF CloseReader
<1>4. ASSUME ClientSend \/ ClientEnd \/ ClientCancel PROVE UNCHANGED peerVars
    BY <1>4 DEF ClientSend, ClientEnd, ClientCancel
<1>5. ASSUME ServerSend PROVE script' = script /\ arrived' = arrived + 1
    BY <1>5 DEF ServerSend
<1>6. ASSUME ServerStall \/ ServerEnd PROVE UNCHANGED <<script, arrived>>
    BY <1>6 DEF ServerStall, ServerEnd
<1>7. ASSUME UNCHANGED vars PROVE UNCHANGED peerVars
    BY <1>7 DEF vars
<1> QED
    BY <1>1, <1>2, <1>3, <1>4, <1>5, <1>6, <1>7 DEF Next, Environment

\* Where the status is after a step.
LEMMA StatusAtStep ==
    ASSUME Inv, [Next]_vars
    PROVE  /\ StatusAtInv'
           /\ StatusAt' = IF /\ ServerSend
                             /\ StatusAt = arrived + 1 /\ ~HasStatus(script[arrived + 1])
                          THEN arrived + 2 ELSE StatusAt
<1> DEFINE i == IF /\ arrived' = arrived + 1
                   /\ StatusAt = arrived + 1 /\ ~HasStatus(script[arrived + 1])
                THEN arrived + 2 ELSE StatusAt
<1>0. arrived \in Nat /\ script' = script
    BY ScriptStep DEF Inv, TypeOK
<1>1. IsStatusAt(script, arrived, StatusAt)
    BY StatusAtIs DEF Inv
<1>2. IsStatusAt(script, arrived', i)
    BY <1>0, <1>1, ScriptStep, StatusAtArrives
<1>3. StatusAtInv'
    BY <1>0, <1>2 DEF StatusAtInv, IsStatusAt, HasStatus
<1>4. IsStatusAt(script', arrived', StatusAt')
    BY <1>3 DEF StatusAtInv, StatusAt, IsStatusAt, HasStatus
<1>5. StatusAt' = i
    BY <1>0, <1>2, <1>4, ScriptStep, StatusAtUnique
<1>6. arrived' = arrived + 1 <=> ServerSend
    BY <1>0, ScriptStep DEF ServerSend
<1> QED
    BY <1>3, <1>5, <1>6

------------------------------------------------------------------------------
(* Theorems                                                                 *)

\* The inductive invariant holds in every behaviour.
LEMMA InvHolds == Spec => []Inv
<1>1. Inv /\ [Next]_vars => Inv'
    BY TypeStep, ErrorStep, WriteStep, ReadStep, StatusAtStep DEF Inv
<1> QED
    BY <1>1, InvInit, PTL DEF Spec

\* Neither goroutine loses an error of the other, in whatever order setError's swap and
\* store are taken: a call that has failed ends with a status.
THEOREM NoFailureLost == Spec => []FailureReported
BY InvHolds, PTL DEF Inv

\* writeToServer tells the server that the request is complete only when it is.
THEOREM EndOfStreamIsTrue == Spec => []EOSMeansWholeRequest
BY InvHolds, PTL DEF Inv

\* The data messages among the first k.
DataUpTo(s, k) == { j \in 1 .. k : IsDataFrame(s[j]) }

\* The data messages before the trailers, or before a header with a status, are those
\* that ReadInv knows.
LEMMA DataBefore ==
    ASSUME TypeOK, ReadInv, NEW i \in Nat, i = Len(written) + 2 \/ (written = <<>> /\ i = 1),
           i > 1 => IsMetadataFrame(script[1])
    PROVE  DataUpTo(script, i - 1) = 2 .. Len(written) + 1
<1> DEFINE n == Len(written)
<1>1. n \in Nat /\ (written = <<>> => n = 0)
    BY LenProperties, EmptySeq DEF TypeOK
<1>2. \A k \in 1 .. n : IsDataFrame(script[k + 1])
    BY DEF ReadInv
<1>3. i = n + 2 \/ (n = 0 /\ i = 1)
    BY <1>1
<1> HIDE DEF n
<1>4. ASSUME NEW j \in 1 .. i - 1, IsDataFrame(script[j]) PROVE j \in 2 .. n + 1
    BY <1>1, <1>3, <1>4 DEF IsDataFrame, IsMetadataFrame
<1>5. ASSUME NEW j \in 2 .. n + 1 PROVE j \in 1 .. i - 1 /\ IsDataFrame(script[j])
  <2>1. j - 1 \in 1 .. n /\ (j - 1) + 1 = j
    BY <1>1, <1>5
  <2>2. IsDataFrame(script[j])
    BY <1>2, <2>1
  <2> QED
    BY <1>1, <1>3, <1>5, <2>1, <2>2
<1> QED
    BY <1>4, <1>5 DEF DataUpTo, n

\* What is written are the numbers 2, 3, ... of those messages.
LEMMA WrittenLists ==
    ASSUME TypeOK, ReadInv PROVE Lists(written, 2 .. Len(written) + 1)
<1> DEFINE n == Len(written)
<1>1. n \in Nat /\ DOMAIN written = 1 .. n
    BY LenProperties DEF TypeOK
<1>2. \A k \in 1 .. n : written[k] = k + 1
    BY DEF ReadInv
<1> HIDE DEF n
<1>3. { written[k] : k \in 1 .. n } = 2 .. n + 1
  <2>1. ASSUME NEW j \in 2 .. n + 1 PROVE \E k \in 1 .. n : j = written[k]
    <3>1. j - 1 \in 1 .. n /\ written[j - 1] = j
        BY <1>1, <1>2, <2>1
    <3> QED
        BY <3>1
  <2>2. ASSUME NEW k \in 1 .. n PROVE written[k] \in 2 .. n + 1
    BY <1>1, <1>2, <2>2
  <2> QED
    BY <2>1, <2>2, Zenon
<1> QED
    BY <1>1, <1>2, <1>3 DEF Lists, n

\* Where the status that the gRPC client sees comes from: the header, with nothing
\* written, or the message after those that were written.
LEMMA StatusSource ==
    ASSUME Inv, FinalStatus # <<>>, FinalStatus # <<"Unavailable">>
    PROVE  \E i \in Nat :
             /\ i = Len(written) + 2 \/ (written = <<>> /\ i = 1)
             /\ i <= next
             /\ i > 1 => IsMetadataFrame(script[1]) /\ script[1].meta = "none"
             /\ script[i].mt = "binary"
             /\ HasStatus(script[i])
             /\ FinalStatus = <<script[i].meta>>
<1>0. TypeOK /\ ReadInv /\ StatusInv /\ Len(written) \in Nat
    BY LenProperties DEF Inv, TypeOK
<1>1. CASE headerStatus # <<>>
  <2>1. FinalStatus = headerStatus
    BY <1>1 DEF FinalStatus
  <2> QED
    BY <1>0, <1>1, <2>1 DEF StatusInv, HasStatus
<1>2. CASE headerStatus = <<>>
  <2>1. FinalStatus = trailerStatus
    BY <1>2 DEF FinalStatus
  <2>2. /\ ~dataExpected
        /\ script[Len(written) + 2].meta \in Statuses
        /\ trailerStatus = <<script[Len(written) + 2].meta>>
    BY <1>0, <2>1 DEF StatusInv
  <2>3. /\ Len(written) + 2 <= next
        /\ IsMetadataFrame(script[Len(written) + 2])
        /\ script[Len(written) + 2].mt = "binary"
        /\ IsMetadataFrame(script[1]) /\ script[1].meta = "none"
    BY <1>0, <2>2 DEF ReadInv
  <2> QED
    BY <1>0, <2>1, <2>2, <2>3 DEF HasStatus
<1> QED
    BY <1>1, <1>2

\* For every server: if the gRPC client sees the server's status, nothing that the server
\* sent before it is missing, and nothing else was written.
THEOREM NeverCutShort == Spec => []StatusMeansWholeResponse
<1>1. Inv => StatusMeansWholeResponse
  <2> SUFFICES ASSUME Inv, Finished, FinalStatus # <<>>, FinalStatus # <<"Unavailable">>
               PROVE  \E i \in StatusMessages :
                         /\ FinalStatus = <<script[i].meta>>
                         /\ Lists(written, { j \in 1 .. i - 1 : IsDataFrame(script[j]) })
    BY DEF StatusMeansWholeResponse
  <2>0. TypeOK /\ ReadInv /\ next \in Nat /\ Len(written) \in Nat
    BY DEF Inv, TypeOK
  <2>1. PICK i \in Nat :
             /\ i = Len(written) + 2 \/ (written = <<>> /\ i = 1)
             /\ i <= next
             /\ i > 1 => IsMetadataFrame(script[1]) /\ script[1].meta = "none"
             /\ script[i].mt = "binary"
             /\ HasStatus(script[i])
             /\ FinalStatus = <<script[i].meta>>
    BY StatusSource
  <2>2. i \in StatusMessages
    BY <2>0, <2>1 DEF StatusMessages, HasStatus
  <2>3. Lists(written, { j \in 1 .. i - 1 : IsDataFrame(script[j]) })
    BY <2>0, <2>1, WrittenLists, DataBefore DEF DataUpTo
  <2> QED
    BY <2>1, <2>2, <2>3
<1> QED
    BY <1>1, InvHolds, PTL

------------------------------------------------------------------------------
(* Refinement: each step is a step of ResponseStream or changes none of     *)
(* what it speaks of.                                                       *)

\* Data messages are finitely many, and one more message adds it or nothing.
LEMMA DataCount ==
    ASSUME NEW s, NEW k \in Nat
    PROVE  /\ IsFiniteSet(DataUpTo(s, k))
           /\ Cardinality(DataUpTo(s, k)) \in Nat
           /\ IsDataFrame(s[k + 1]) =>
                Cardinality(DataUpTo(s, k + 1)) = Cardinality(DataUpTo(s, k)) + 1
           /\ ~IsDataFrame(s[k + 1]) => DataUpTo(s, k + 1) = DataUpTo(s, k)
<1>1. IsFiniteSet(DataUpTo(s, k))
  <2>1. DataUpTo(s, k) \in SUBSET (1 .. k)
    BY DEF DataUpTo
  <2>2. IsFiniteSet(1 .. k)
    BY FS_Interval
  <2> QED
    BY <2>1, <2>2, FS_Subset
<1>2. Cardinality(DataUpTo(s, k)) \in Nat
    BY <1>1, FS_CardinalityType
<1>3. ASSUME IsDataFrame(s[k + 1])
      PROVE  Cardinality(DataUpTo(s, k + 1)) = Cardinality(DataUpTo(s, k)) + 1
  <2>1. DataUpTo(s, k + 1) = DataUpTo(s, k) \cup {k + 1} /\ k + 1 \notin DataUpTo(s, k)
    BY <1>3 DEF DataUpTo
  <2> QED
    BY <1>1, <2>1, FS_AddElement
<1>4. ASSUME ~IsDataFrame(s[k + 1]) PROVE DataUpTo(s, k + 1) = DataUpTo(s, k)
    BY <1>4 DEF DataUpTo
<1> QED
    BY <1>1, <1>2, <1>3, <1>4

\* The numbers from 2 to n + 1 are n.
LEMMA FromTwo == ASSUME NEW n \in Nat PROVE Cardinality(2 .. n + 1) = n
BY FS_Interval

\* So at least n messages are data if those with these numbers are.
LEMMA DataBetween ==
    ASSUME NEW s, NEW k \in Nat, NEW n \in Nat, n + 1 <= k,
           \A j \in 1 .. n : IsDataFrame(s[j + 1])
    PROVE  n <= Cardinality(DataUpTo(s, k))
<1>1. 2 .. n + 1 \in SUBSET DataUpTo(s, k)
  <2>1. ASSUME NEW j \in 2 .. n + 1 PROVE j \in DataUpTo(s, k)
    <3>1. j - 1 \in 1 .. n /\ (j - 1) + 1 = j /\ j \in 1 .. k
        BY <2>1
    <3> QED
        BY <3>1 DEF DataUpTo
  <2> QED
    BY <2>1
<1>2. Cardinality(2 .. n + 1) = n
    BY FromTwo
<1> QED
    BY <1>1, <1>2, DataCount, FS_Subset

\* The step that delivers is the one that writes.
LEMMA BodyDelivers ==
    ASSUME Inv, MainBody
    PROVE  /\ UNCHANGED <<mainPc>> \/ mainPc' = "swap"
           /\ \/ written' = written
              \/ /\ Len(written') = Len(written) + 1
                 /\ Len(written) + 1 <= StatusAt - 2
                 /\ \A j \in 1 .. Len(written) + 1 : IsDataFrame(script[j + 1])
<1> DEFINE n == Len(written)
<1>0. TypeOK /\ ReadInv /\ n \in Nat /\ arrived \in Nat
    BY DEF Inv, TypeOK
<1>1. UNCHANGED <<mainPc>> \/ mainPc' = "swap"
    BY DEF MainBody, ReturnErr
<1>2. CASE written' = written
    BY <1>1, <1>2
<1>3. CASE dataExpected /\ IsDataFrame(script[next']) /\ written' = Append(written, next')
  <2>1. next = n + 1 /\ next' = n + 2 /\ n + 2 <= arrived
    BY <1>0, <1>3 DEF MainBody, Receive, ReadInv, TypeOK
  <2>2. Len(written') = n + 1
    BY <1>0, <1>3, <2>1, Received, AppendProperties DEF MainBody, Receive, TypeOK
  <2>3. \A j \in 1 .. n + 1 : IsDataFrame(script[j + 1])
    BY <1>0, <1>3, <2>1 DEF ReadInv
  <2>4. IsMetadataFrame(script[1]) /\ script[1].meta = "none"
    BY <1>0 DEF ReadInv, MainBody
  <2>5. \A j \in 1 .. n + 2 : ~HasStatus(script[j])
    <3>1. ASSUME NEW j \in 2 .. n + 2 PROVE ~HasStatus(script[j])
      <4>1. j - 1 \in 1 .. n + 1 /\ (j - 1) + 1 = j
        BY <1>0, <3>1
      <4>2. IsDataFrame(script[j])
        BY <2>3, <4>1
      <4> QED
        BY <4>2 DEF HasStatus, IsDataFrame, IsMetadataFrame
    <3>2. ~HasStatus(script[1])
        BY <2>4, StatusesAssumption DEF HasStatus
    <3> QED
        BY <1>0, <3>1, <3>2
  <2>6. IsStatusAt(script, arrived, StatusAt)
    BY StatusAtIs DEF Inv
  <2>7. n + 2 < StatusAt
    BY <1>0, <2>1, <2>5, <2>6 DEF IsStatusAt
  <2>8. n + 1 <= StatusAt - 2
    BY <1>0, <2>6, <2>7 DEF IsStatusAt
  <2> QED
    BY <1>1, <2>2, <2>3, <2>8
<1> QED
    BY <1>2, <1>3 DEF MainBody, MessageExpected

\* A status that the gRPC client sees has arrived, after all that was written.
LEMMA CompleteWhenSeen ==
    ASSUME Inv, FinalStatus # <<>>, FinalStatus # <<"Unavailable">>
    PROVE  /\ StatusAt <= arrived
           /\ Cardinality(DataUpTo(script, StatusAt - 1)) = Len(written)
<1> DEFINE n == Len(written)
<1>0. TypeOK /\ ReadInv /\ n \in Nat /\ arrived \in Nat /\ next \in 0 .. arrived
    BY DEF Inv, TypeOK
<1>1. PICK i \in Nat :
             /\ i = n + 2 \/ (written = <<>> /\ i = 1)
             /\ i <= next
             /\ i > 1 => IsMetadataFrame(script[1]) /\ script[1].meta = "none"
             /\ HasStatus(script[i])
    BY StatusSource
<1>2. DataUpTo(script, i - 1) = 2 .. n + 1
    BY <1>0, <1>1, DataBefore
<1>3. ASSUME NEW j \in 1 .. i - 1 PROVE ~HasStatus(script[j])
  <2>1. CASE j = 1
    BY <1>0, <1>1, <1>3, <2>1, StatusesAssumption DEF HasStatus
  <2>2. CASE j # 1
    <3>1. j \in 2 .. n + 1
        BY <1>0, <1>1, <1>3, <2>2
    <3>2. IsDataFrame(script[j])
        BY <1>2, <3>1 DEF DataUpTo
    <3> QED
        BY <3>2 DEF HasStatus, IsDataFrame, IsMetadataFrame
  <2> QED
    BY <2>1, <2>2
<1>4. i \in 1 .. arrived
    BY <1>0, <1>1
<1>5. IsStatusAt(script, arrived, i)
    BY <1>0, <1>1, <1>3, <1>4 DEF IsStatusAt
<1>6. StatusAt = i
    BY <1>0, <1>5, StatusAtIs, StatusAtUnique DEF Inv
<1>7. Cardinality(2 .. n + 1) = n
    BY <1>0, FromTwo
<1> QED
    BY <1>2, <1>4, <1>6, <1>7

\* The variables of ResponseStream, as WSClient maps them.
Sent == Cardinality(DataUpTo(script, StatusAt - 1))

Arrived == StatusAt <= arrived

\* The initial states map to initial states.
LEMMA RefineInit == Init => Stream!Init
<1> SUFFICES ASSUME Init PROVE Stream!Init
    OBVIOUS
<1>1. arrived = 0 /\ Len(written) = 0 /\ mainPc = "start"
    BY EmptySeq DEF Init
<1>2. StatusAt = 1
    BY <1>1, InvInit, StatusAtIs DEF Inv, IsStatusAt
<1>3. { j \in 1 .. StatusAt - 1 : IsDataFrame(script[j]) } = {}
    BY <1>2
<1> QED
    BY <1>1, <1>2, <1>3, FS_EmptySet DEF Stream!Init, Outcome

\* Every step maps to a step or a stutter.
LEMMA RefineNext == Inv /\ [Next]_vars => [Stream!Next]_(Stream!streamVars)
<1> SUFFICES ASSUME Inv, [Next]_vars PROVE [Stream!Next]_(Stream!streamVars)
    OBVIOUS
<1>0. /\ TypeOK /\ ReadInv /\ arrived \in Nat /\ Len(written) \in Nat
      /\ StatusAt \in Nat /\ 1 <= StatusAt /\ StatusAt <= arrived + 1
      /\ script' = script /\ Sent \in Nat
  <2>1. TypeOK /\ ReadInv /\ arrived \in Nat /\ Len(written) \in Nat
    BY DEF Inv, TypeOK
  <2>2. StatusAt \in Nat /\ 1 <= StatusAt /\ StatusAt <= arrived + 1
    BY <2>1, StatusAtIs DEF Inv, IsStatusAt
  <2>3. Sent \in Nat
    BY <2>2, DataCount DEF Sent
  <2> QED
    BY <2>1, <2>2, <2>3, ScriptStep
<1>1. CASE ServerSend
  <2>1. UNCHANGED <<written, mainPc, headerStatus, trailerStatus>> /\ arrived' = arrived + 1
    BY <1>1 DEF ServerSend, respVars
  <2>2. UNCHANGED <<Len(written), Outcome>>
    BY <2>1 DEF Outcome, FinalStatus
  <2>3. CASE StatusAt = arrived + 1 /\ ~HasStatus(script[arrived + 1])
    <3>1. StatusAt' = arrived + 2 /\ ~Arrived /\ ~Arrived'
        BY <1>0, <1>1, <2>1, <2>3, StatusAtStep DEF Arrived
    <3>2. Sent' = Cardinality(DataUpTo(script, arrived + 1))
        BY <1>0, <3>1 DEF Sent
    <3>3. Sent = Cardinality(DataUpTo(script, arrived))
        BY <1>0, <2>3 DEF Sent
    <3>4. Sent' \in {Sent, Sent + 1}
        BY <1>0, <3>2, <3>3, DataCount
    <3> QED
        BY <2>2, <3>1, <3>4
        DEF Stream!Next, Stream!Send, Stream!streamVars, Sent, Arrived, DataUpTo
  <2>4. CASE ~(StatusAt = arrived + 1 /\ ~HasStatus(script[arrived + 1]))
    <3>1. StatusAt' = StatusAt /\ Arrived'
        BY <1>0, <1>1, <2>1, <2>4, StatusAtStep DEF Arrived
    <3>2. Sent' = Sent
        BY <1>0, <3>1 DEF Sent
    <3> QED
        BY <2>2, <3>1, <3>2
        DEF Stream!Next, Stream!Finish, Stream!streamVars, Sent, Arrived, DataUpTo
  <2> QED
    BY <2>3, <2>4
<1>2. CASE ~ServerSend
  <2>1. UNCHANGED <<Sent, Arrived>>
    BY <1>0, <1>2, StatusAtStep, ScriptStep DEF Sent, Arrived
  <2>2. CASE ReadSame
    <3>1. UNCHANGED <<Len(written), FinalStatus>>
        BY <2>2 DEF ReadSame, FinalStatus
    <3>2. CASE Outcome' = Outcome
        BY <2>1, <3>1, <3>2 DEF Stream!streamVars, Sent, Arrived, DataUpTo
    <3>3. CASE Outcome' # Outcome
      <4>1. Outcome = "none" /\ mainPc' = "done"
        BY <2>2, <3>1, <3>3 DEF ReadSame, Outcome
      <4>2. CASE FinalStatus \in {<<>>, <<"Unavailable">>}
        <5>1. Outcome' = "failed"
            BY <3>1, <4>1, <4>2 DEF Outcome
        <5> QED
            BY <2>1, <3>1, <4>1, <5>1
            DEF Stream!Next, Stream!Fail, Sent, Arrived, DataUpTo
      <4>3. CASE FinalStatus \notin {<<>>, <<"Unavailable">>}
        <5>1. Outcome' = "status"
            BY <3>1, <4>1, <4>3 DEF Outcome
        <5>2. Arrived /\ Sent = Len(written)
            BY <4>3, CompleteWhenSeen DEF Arrived, Sent
        <5> QED
            BY <2>1, <3>1, <4>1, <5>1, <5>2
            DEF Stream!Next, Stream!Complete, Sent, Arrived, DataUpTo
      <4> QED
        BY <4>2, <4>3
    <3> QED
        BY <3>2, <3>3
  <2>3. CASE MainDialErr
    <3>1. Outcome = "none" /\ Outcome' = "failed" /\ UNCHANGED Len(written)
      <4>1. <<"Unavailable">> # <<>>
        BY Singleton
      <4> QED
        BY <2>3, <4>1 DEF MainDialErr, Outcome, FinalStatus
    <3> QED
        BY <2>1, <3>1 DEF Stream!Next, Stream!Fail, Sent, Arrived, DataUpTo
  <2>4. CASE MainDial \/ MainHeader \/ MainReport
    <3>1. Outcome = "none" /\ Outcome' = "none" /\ UNCHANGED Len(written)
        BY <2>4 DEF MainDial, MainHeader, MainReport, Waited, ReturnErr, ReturnOk, Outcome, respVars
    <3> QED
        BY <2>1, <3>1 DEF Stream!streamVars, Sent, Arrived, DataUpTo
  <2>5. CASE MainBody
    <3>1. Outcome = "none" /\ Outcome' = "none"
        BY <2>5, BodyDelivers DEF MainBody, Outcome
    <3>2. CASE written' = written
        BY <2>1, <3>1, <3>2 DEF Stream!streamVars, Sent, Arrived, DataUpTo
    <3>3. CASE /\ Len(written') = Len(written) + 1
               /\ Len(written) + 1 <= StatusAt - 2
               /\ \A j \in 1 .. Len(written) + 1 : IsDataFrame(script[j + 1])
      <4>1. Len(written) + 1 \in Nat /\ StatusAt - 1 \in Nat
            /\ (Len(written) + 1) + 1 <= StatusAt - 1
        BY <1>0, <3>3
      <4>2. Len(written) + 1 <= Sent
        BY <3>3, <4>1, DataBetween DEF Sent
      <4>3. Len(written) < Sent
        BY <1>0, <4>2
      <4> QED
        BY <2>1, <3>1, <3>3, <4>3
        DEF Stream!Next, Stream!Deliver, Sent, Arrived, DataUpTo
    <3> QED
        BY <2>5, <3>2, <3>3, BodyDelivers
  <2> QED
    BY <1>0, <2>2, <2>3, <2>4, <2>5, ReadSameSteps
<1> QED
    BY <1>1, <1>2

\* The client proxy implements ResponseStream, whatever the server sends and whichever
\* goroutine fails first.
THEOREM Refinement == Spec => ImplementsResponseStream
BY RefineInit, RefineNext, InvHolds, PTL DEF Spec, ImplementsResponseStream, Stream!Spec
==============================================================================
