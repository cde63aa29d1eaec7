------------------------------- MODULE WSReader -------------------------------
(***************************************************************************)
(* server/websocket_reader.go: the request body of a gRPC call that        *)
(* arrives over a WebSocket.  Two goroutines share it:                     *)
(*                                                                         *)
(*   readerLoop   takes the token from barrierC, asks the connection for   *)
(*                the next message's io.Reader and hands it over through   *)
(*                the unbuffered readerResultC;                            *)
(*   Read         (called by the gRPC server) takes the io.Reader, drains  *)
(*                it into the single buffer r.buf, gives the token back,   *)
(*                checks the frame and copies it out piece by piece.       *)
(*                                                                         *)
(* Close (called by a third goroutine) and the request's context cancel    *)
(* readCtx.  The WebSocket connection is external: messages arrive in      *)
(* order, the first byte of a message before its last one, and the         *)
(* connection may be closed by the peer between two messages or fail at    *)
(* any time.                                                               *)
(***************************************************************************)
EXTENDS GRPCProto, Sequences

CONSTANTS Scripts,    \* the message sequences a client may send
          ReadSizes   \* the lengths of the slices Read is called with

ASSUME ScriptsAssumption == Scripts \subseteq Seq(Message)
ASSUME ReadSizesAssumption == ReadSizes \subseteq Nat \ {0}

VARIABLES
  script,     \* what this client sends
  started,    \* number of messages whose first byte has arrived
  arrived,    \* number of messages that have arrived completely
  link,       \* the WebSocket connection: up, closing (close frame read next) or down
  ctxDone,    \* r.ctx, the request's context, is cancelled
  closed,     \* Close has cancelled r.readCtx
  barrierC,   \* number of tokens in the channel of capacity 1
  opened,     \* number of io.Readers the connection has given out
  undrained,  \* the message whose io.Reader is not read to its end; 0: none
  loopPc,     \* where readerLoop is
  loopRes,    \* the readerResult readerLoop wants to send
  readPc,     \* where Read is
  rr,         \* the message whose io.Reader Read has received
  buf,        \* the message whose bytes r.buf holds; 0: none, or a part of one
  currMsg,    \* len(r.currMsg): how many bytes at the end of r.buf are not read yet
  err,        \* r.err
  delivered   \* every byte Read has returned, as <<message, offset>>

peerVars == <<script, started, arrived>>
ctlVars  == <<ctxDone, closed>>
connVars == <<opened, undrained>>
loopVars == <<loopPc, loopRes>>
readVars == <<readPc, rr, buf, currMsg, err, delivered>>
vars == <<peerVars, link, ctlVars, barrierC, connVars, loopVars, readVars>>

NoErr == "nil"

Errors == {"EOF", "canceled", "connection", "message type", "frame"}

\* The errors readerLoop hands over.
LoopErrors == {"connection", "message type"}

Result == [msg: Nat, err: LoopErrors \cup {NoErr}]

TypeOK ==
    /\ script \in Seq(Message)
    /\ started \in 0 .. Len(script)
    /\ arrived \in 0 .. started
    /\ link \in {"up", "closing", "down"}
    /\ ctxDone \in BOOLEAN
    /\ closed \in BOOLEAN
    /\ barrierC \in 0 .. 1
    /\ opened \in 0 .. started
    /\ undrained \in 0 .. opened
    /\ loopPc \in {"barrier", "reader", "send", "exited"}
    /\ loopRes \in Result
    /\ readPc \in {"idle", "select", "fill", "push", "check", "copy"}
    /\ rr \in 0 .. opened
    /\ buf \in 0 .. opened
    /\ currMsg \in Nat
    /\ err \in Errors \cup {NoErr}
    /\ delivered \in Seq(Nat \X Nat)

\* newWebSocketReader: one token is in the barrier and readerLoop is started.
Init ==
    /\ script \in Scripts
    /\ started = 0
    /\ arrived = 0
    /\ link = "up"
    /\ ctxDone = FALSE
    /\ closed = FALSE
    /\ barrierC = 1
    /\ opened = 0
    /\ undrained = 0
    /\ loopPc = "barrier"
    /\ loopRes = [msg |-> 0, err |-> NoErr]
    /\ readPc = "idle"
    /\ rr = 0
    /\ buf = 0
    /\ currMsg = 0
    /\ err = NoErr
    /\ delivered = <<>>

\* A read context that forgets that it was derived from the request's context.
ReadCtxDoneOnlyClose == closed

\* r.readCtx.Done(): readCtx is a child of r.ctx.
ReadCtxDone == closed \/ ctxDone

\* A loop that does not wait for the token.
TakeTokenAlways == barrierC' = 0

\* A loop that looks at the token but leaves it in the channel.
TakeTokenLeavingIt == barrierC = 1 /\ UNCHANGED barrierC

\* <-r.barrierC
TakeToken == barrierC = 1 /\ barrierC' = 0

\* A doRead that forgets the token.
GiveTokenForgotten == UNCHANGED barrierC

\* r.barrierC <- struct{}{}: would block if the token were already there.
GiveToken == barrierC = 0 /\ barrierC' = 1

------------------------------------------------------------------------------
(* readerLoop                                                               *)

LoopTakeBarrier ==
    /\ loopPc = "barrier"
    /\ TakeToken
    /\ loopPc' = "reader"
    /\ UNCHANGED <<peerVars, link, ctlVars, connVars, loopRes, readVars>>

\* Either select of the loop returns when readCtx is done.
LoopStop ==
    /\ loopPc \in {"barrier", "send"}
    /\ ReadCtxDone
    /\ loopPc' = "exited"
    /\ UNCHANGED <<peerVars, link, ctlVars, barrierC, connVars, loopRes, readVars>>

\* conn.Reader returns the io.Reader of the next message, whose first byte has
\* arrived; a message that is not binary becomes an error and its io.Reader is
\* dropped without being read.
LoopReader ==
    /\ loopPc = "reader"
    /\ opened < started
    /\ opened' = opened + 1
    /\ undrained' = opened'
    /\ loopRes' = [msg |-> opened',
                   err |-> IF script[opened'].mt = "binary" THEN NoErr
                           ELSE "message type"]
    /\ loopPc' = "send"
    /\ UNCHANGED <<peerVars, link, ctlVars, barrierC, readVars>>

\* conn.Reader fails: the connection is gone, or the peer's close frame is next.
LoopReaderErr ==
    /\ loopPc = "reader"
    /\ link = "down" \/ (link = "closing" /\ opened = started)
    /\ loopRes' = [msg |-> 0, err |-> "connection"]
    /\ loopPc' = "send"
    /\ UNCHANGED <<peerVars, link, ctlVars, barrierC, connVars, readVars>>

------------------------------------------------------------------------------
(* Read and doRead                                                          *)

ReturnErr(e) ==
    /\ err' = e
    /\ readPc' = "idle"

\* Errors are remembered but do not stop the next Read.
MayReadIgnoringErr == readPc = "idle"

\* Read only calls doRead when no earlier call has failed.
MayRead == readPc = "idle" /\ err = NoErr

\* doRead waits for a new message even if part of the current one is left.
AfterCallAlwaysSelect == "select"

\* doRead asks for a new message only when the current one is used up.
AfterCall == IF currMsg = 0 THEN "select" ELSE "copy"

ReadCall ==
    /\ MayRead
    /\ readPc' = AfterCall
    /\ UNCHANGED <<peerVars, link, ctlVars, barrierC, connVars, loopVars,
                   rr, buf, currMsg, err, delivered>>

ReadCanceled ==
    /\ readPc = "select"
    /\ ReadCtxDone
    /\ ReturnErr("canceled")
    /\ UNCHANGED <<peerVars, link, ctlVars, barrierC, connVars, loopVars,
                   rr, buf, currMsg, delivered>>

\* The unbuffered readerResultC: readerLoop's send and doRead's receive happen
\* together; readerLoop goes round, doRead looks at rr.err.
Handoff ==
    /\ loopPc = "send"
    /\ readPc = "select"
    /\ loopPc' = "barrier"
    /\ rr' = loopRes.msg
    /\ \/ /\ loopRes.err = NoErr
          /\ readPc' = "fill"
          /\ UNCHANGED err
       \/ /\ loopRes.err # NoErr
          /\ ReturnErr(loopRes.err)
    /\ UNCHANGED <<peerVars, link, ctlVars, barrierC, connVars, loopRes,
                   buf, currMsg, delivered>>

\* r.buf.Reset and r.buf.ReadFrom: blocks until the last byte of the message.
ReadFill ==
    /\ readPc = "fill"
    /\ rr <= arrived
    /\ buf' = rr
    /\ undrained' = 0
    /\ readPc' = "push"
    /\ UNCHANGED <<peerVars, link, ctlVars, barrierC, opened, loopVars,
                   rr, currMsg, err, delivered>>

\* ReadFrom fails half-way; the token is not given back.
ReadFillErr ==
    /\ readPc = "fill"
    /\ link = "down"
    /\ buf' = 0
    /\ ReturnErr("connection")
    /\ UNCHANGED <<peerVars, link, ctlVars, barrierC, connVars, loopVars,
                   rr, currMsg, delivered>>

ReadPush ==
    /\ readPc = "push"
    /\ GiveToken
    /\ readPc' = "check"
    /\ UNCHANGED <<peerVars, link, ctlVars, connVars, loopVars,
                   rr, buf, currMsg, err, delivered>>

\* A check that takes every metadata frame for the end of the stream.
FrameErrorAnyMetadata(m) ==
    IF ~ValidateGRPCFrame(m) THEN "frame"
    ELSE IF IsMetadataFrame(m) THEN "EOF"
    ELSE NoErr

\* The three checks on a complete message: what doRead returns, if anything.
FrameError(m) ==
    IF ~ValidateGRPCFrame(m) THEN "frame"
    ELSE IF IsEndOfStream(m) THEN "EOF"
    ELSE IF ~IsDataFrame(m) THEN "frame"
    ELSE NoErr

ReadCheck ==
    /\ readPc = "check"
    /\ \/ /\ FrameError(script[buf]) = NoErr
          /\ currMsg' = script[buf].size
          /\ readPc' = "copy"
          /\ UNCHANGED err
       \/ /\ FrameError(script[buf]) # NoErr
          /\ ReturnErr(FrameError(script[buf]))
          /\ UNCHANGED currMsg
    /\ UNCHANGED <<peerVars, link, ctlVars, barrierC, connVars, loopVars,
                   rr, buf, delivered>>

\* A copy that is not bounded by the message.
CopyLenUnbounded(p) == p

\* The number of bytes copy(p, r.currMsg) copies.
CopyLen(p) == IF p < currMsg THEN p ELSE currMsg

\* copy(p, r.currMsg): currMsg is a slice of r.buf, so the bytes are those of
\* the message r.buf holds now.
ReadCopy ==
    /\ readPc = "copy"
    /\ \E p \in ReadSizes :
         LET n     == CopyLen(p)
             first == script[buf].size - currMsg
         IN  /\ delivered' = delivered \o [k \in 1 .. n |-> <<buf, first + k>>]
             /\ currMsg' = currMsg - n
    /\ readPc' = "idle"
    /\ UNCHANGED <<peerVars, link, ctlVars, barrierC, connVars, loopVars,
                   rr, buf, err>>

------------------------------------------------------------------------------
(* Close, the request's context, and the connection                         *)

Close ==
    /\ ~closed
    /\ closed' = TRUE
    /\ UNCHANGED <<peerVars, link, ctxDone, barrierC, connVars, loopVars, readVars>>

\* The context of the handler is cancelled; conn.Reader(r.ctx) then tears the
\* connection down.
CancelCtx ==
    /\ ~ctxDone
    /\ ctxDone' = TRUE
    /\ link' = "down"
    /\ UNCHANGED <<peerVars, closed, barrierC, connVars, loopVars, readVars>>

\* The connection is lost, or another goroutine of the handler closes it.
ConnDown ==
    /\ link # "down"
    /\ link' = "down"
    /\ UNCHANGED <<peerVars, ctlVars, barrierC, connVars, loopVars, readVars>>

PeerStart ==
    /\ link = "up"
    /\ started = arrived
    /\ started < Len(script)
    /\ started' = started + 1
    /\ UNCHANGED <<script, arrived, link, ctlVars, barrierC, connVars, loopVars, readVars>>

PeerFinish ==
    /\ link = "up"
    /\ arrived < started
    /\ arrived' = arrived + 1
    /\ UNCHANGED <<script, started, link, ctlVars, barrierC, connVars, loopVars, readVars>>

PeerClose ==
    /\ link = "up"
    /\ started = arrived
    /\ link' = "closing"
    /\ UNCHANGED <<peerVars, ctlVars, barrierC, connVars, loopVars, readVars>>

------------------------------------------------------------------------------
ReaderLoop == LoopTakeBarrier \/ LoopStop \/ LoopReader \/ LoopReaderErr

DoRead == ReadCanceled \/ ReadFill \/ ReadFillErr \/ ReadPush \/ ReadCheck \/ ReadCopy

Environment == Close \/ CancelCtx \/ ConnDown \/ PeerStart \/ PeerFinish \/ PeerClose

Next == ReaderLoop \/ ReadCall \/ DoRead \/ Handoff \/ Environment

Spec == Init /\ [][Next]_vars

\* The Go scheduler runs every goroutine that can run, and the gRPC server
\* reads the body until a Read fails.  The peer and the callers of Close owe
\* nothing.
Fairness ==
    /\ WF_vars(ReaderLoop)
    /\ WF_vars(DoRead)
    /\ WF_vars(Handoff)
    /\ WF_vars(ReadCall)

FairSpec == Spec /\ Fairness

------------------------------------------------------------------------------
(* Properties                                                               *)

\* readerLoop asks the connection for an io.Reader only when the previous one
\* has been read to its end, which the WebSocket library requires ("There may
\* only be one io.Reader at-a-time").
OneReaderAtATime == loopPc = "reader" => undrained = 0

\* doRead never blocks on giving the token back: whenever it is about to, the
\* channel of capacity one is empty.
BarrierNeverFull == readPc = "push" => barrierC = 0

\* Byte b comes right after byte a in the client's stream.
Follows(a, b) ==
    \/ b = <<a[1], a[2] + 1>>
    \/ a[2] = script[a[1]].size /\ b = <<a[1] + 1, 1>>

\* The bytes Read returns are the bytes of the client's messages, in order and
\* without a gap, whatever the sizes of the slices and whatever readerLoop does
\* meanwhile: reusing r.buf never overwrites bytes that are still to be read.
DeliveredInOrder ==
    /\ delivered # <<>> => delivered[1] = <<1, 1>>
    /\ \A j \in 1 .. Len(delivered) - 1 : Follows(delivered[j], delivered[j + 1])

\* Everything up to the last byte of message i has been returned by Read.
EndsAt(i) ==
    IF i = 0 THEN delivered = <<>>
    ELSE delivered # <<>> /\ delivered[Len(delivered)] = <<i, script[i].size>>

\* Read reports io.EOF only at the client's end-of-stream frame and after all
\* messages before it: a request cut short by a failure is never taken for a
\* complete one.
EOFMeansComplete ==
    err = "EOF" =>
        \E i \in 1 .. Len(script) : IsEndOfStream(script[i]) /\ EndsAt(i - 1)

\* "Errors should be sticky": after a Read has failed, no later Read returns
\* data or a different error.
StickyError ==
    [][err # NoErr => err' = err /\ delivered' = delivered]_<<err, delivered>>

\* readerLoop does not outlive its request: once the request's context is
\* cancelled the goroutine ends.
LoopExits == ctxDone ~> loopPc = "exited"

\* Everyone waiting on everyone is impossible: once the peer has closed the
\* connection or it is lost, the gRPC server's reads come to an end, because the
\* token, the io.Reader and the results keep moving until then.
ReadsComeToAnEnd == link # "up" ~> err # NoErr

\* Close "signal[s] all reads to stop": after Close no Read is left waiting.
CloseStopsReads == closed ~> readPc = "idle"
==============================================================================
