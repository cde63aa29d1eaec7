------------------------------- MODULE WSServer -------------------------------
(***************************************************************************)
(* The response side of a gRPC call served over a WebSocket:               *)
(* server/server.go (handleGRPCWS), server/websocket_writer.go and         *)
(* internal/grpcwebsocket/write.go.                                        *)
(*                                                                         *)
(* The handler's goroutine runs the gRPC server, which writes its response *)
(* through a wsResponseWriter into an io.Pipe, then closes the response    *)
(* writer, waits for the second goroutine and closes the connection.  The  *)
(* second goroutine runs grpcwebsocket.Write: it cuts the bytes of the     *)
(* pipe into gRPC frames and sends each as one WebSocket message.          *)
(*                                                                         *)
(* The pipe is synchronous: a Write returns only when all of its bytes are *)
(* read, and an empty Write when one Read has met it.  An http.Header is   *)
(* the set of its keys.  The gRPC server is external, modelled by the      *)
(* calls it makes on the http.ResponseWriter.                              *)
(***************************************************************************)
EXTENDS GRPCProto, Sequences, FiniteSets

CONSTANTS MaxMessages,   \* bound on the messages a gRPC handler sends
          PayloadSizes,  \* the sizes of their payloads
          TextLength     \* the length that an error text, read as a frame header, declares

ASSUME MaxMessagesAssumption == MaxMessages \in Nat
ASSUME PayloadSizesAssumption == PayloadSizes \subseteq Nat
ASSUME TextLengthAssumption == TextLength \in Nat /\ TextLength > 100

VARIABLES
  mainPc,         \* where the handler's goroutine is
  headersSet,     \* the gRPC server has put its response headers into hdr
  statusSet,      \* the gRPC server has put the call's status into hdr
  hdr,            \* w.header
  headerWritten,  \* w.headerWritten
  announced,      \* w.announcedTrailers is not nil
  issued,         \* every frame and text written to the response writer so far
  pipe,           \* the pieces of the current writes the other goroutine has still to read
  pipeClosed,     \* the write end of the pipe is closed
  writePc,        \* where grpcwebsocket.Write is
  msg,            \* its message buffer: the pieces read so far
  need,           \* how many bytes its current CopyN still has to read
  link,           \* the WebSocket connection
  closeCode,      \* the close code the peer is sent
  outbox,         \* the WebSocket messages sent
  stalled         \* the peer has stopped reading

serverVars == <<mainPc, headersSet, statusSet>>
headerVars == <<hdr, headerWritten, announced>>
pipeVars   == <<issued, pipe, pipeClosed>>
writeVars  == <<writePc, msg, need>>
connVars   == <<link, closeCode, outbox, stalled>>
vars == <<serverVars, headerVars, pipeVars, writeVars, connVars>>

\* Keys of the response's http.Header: "H" stands for the ordinary headers, T
\* for a trailer of the application, which the gRPC server adds unannounced.
Keys == {"H", "Content-Length", "Trailer", "Grpc-Status", "Trailer:T", "T"}

\* What the gRPC server announces in the Trailer header: its status.
Announcement == {"Grpc-Status"}

\* The size of an error text: more than a frame header.
TextSize == 6

Frame == [kind: {"metadata", "data", "text"}, keys: SUBSET Keys, length: Nat]

\* A piece of a write: which issued frame it belongs to, its size, and the
\* length its first bytes declare if they are taken for a frame header.
Piece == [frame: Nat, size: Nat, length: Nat]

TypeOK ==
    /\ mainPc \in {"accept", "serve", "returned", "closing", "wait", "done"}
    /\ headersSet \in BOOLEAN
    /\ statusSet \in BOOLEAN
    /\ hdr \subseteq Keys
    /\ headerWritten \in BOOLEAN
    /\ announced \in BOOLEAN
    /\ issued \in Seq(Frame)
    /\ pipe \in Seq(Piece)
    /\ pipeClosed \in BOOLEAN
    /\ writePc \in {"idle", "header", "payload", "fail", "done"}
    /\ msg \in Seq(Piece)
    /\ need \in Nat
    /\ link \in {"none", "up", "down"}
    /\ closeCode \in {"none", "normal", "internal"}
    /\ outbox \in Seq(Seq(Piece))
    /\ stalled \in BOOLEAN

\* The request asks for a WebSocket.
Init ==
    /\ mainPc = "accept"
    /\ headersSet = FALSE
    /\ statusSet = FALSE
    /\ hdr = {}
    /\ headerWritten = FALSE
    /\ announced = FALSE
    /\ issued = <<>>
    /\ pipe = <<>>
    /\ pipeClosed = FALSE
    /\ writePc = "idle"
    /\ msg = <<>>
    /\ need = MessageHeaderLength
    /\ link = "none"
    /\ closeCode = "none"
    /\ outbox = <<>>
    /\ stalled = FALSE

------------------------------------------------------------------------------
(* wsResponseWriter                                                         *)

\* A metadata frame: its payload has one line for each key.
Metadata(keys) ==
    [kind |-> "metadata", keys |-> keys, length |-> Cardinality(keys)]

Data(n) == [kind |-> "data", keys |-> {}, length |-> n]

\* The body of an http.Error response, which is not a frame.
Text == [kind |-> "text", keys |-> {}, length |-> TextSize]

\* A header that declares one byte less than its payload has.
PiecesDeclaringLess(i, f) ==
    << [frame |-> i, size |-> MessageHeaderLength,
        length |-> IF f.length = 0 THEN 0 ELSE f.length - 1],
       [frame |-> i, size |-> f.length, length |-> 0] >>

\* The writes that put a frame into the pipe: its header, then its payload.  A
\* text is written as it is.
Pieces(i, f) ==
    IF f.kind = "text"
    THEN << [frame |-> i, size |-> f.length, length |-> TextLength] >>
    ELSE << [frame |-> i, size |-> MessageHeaderLength, length |-> f.length],
            [frame |-> i, size |-> f.length, length |-> 0] >>

\* The headers WriteHeader sends, and leaves in the map.
HeaderKeys(h) == h \ {"Trailer", "Content-Length"}

\* A WriteHeader that forgets what was announced.
AnnouncedLost(h) == FALSE

\* sliceutils.ShallowClone(hdr["Trailer"]): nil when nothing is announced.
Announced(h) == "Trailer" \in h

\* w.Write(f), with h as the header map: WriteHeader comes first if it has not
\* been called.
WriteFrame(h, f) ==
    IF headerWritten
    THEN /\ hdr' = h
         /\ issued' = Append(issued, f)
         /\ pipe' = Pieces(Len(issued'), f)
         /\ UNCHANGED <<headerWritten, announced>>
    ELSE /\ hdr' = HeaderKeys(h)
         /\ announced' = Announced(h)
         /\ headerWritten' = TRUE
         /\ issued' = issued \o <<Metadata(hdr'), f>>
         /\ pipe' = Pieces(Len(issued) + 1, Metadata(hdr')) \o Pieces(Len(issued'), f)

\* w.WriteHeader, with h as the header map; only the first call has an effect.
WriteHeader(h) ==
    IF headerWritten
    THEN /\ hdr' = h
         /\ UNCHANGED <<headerWritten, announced, issued, pipe>>
    ELSE /\ hdr' = HeaderKeys(h)
         /\ announced' = Announced(h)
         /\ headerWritten' = TRUE
         /\ issued' = Append(issued, Metadata(hdr'))
         /\ pipe' = Pieces(Len(issued'), Metadata(hdr'))

\* The keys of the frame Close sends: the announced trailers, or the whole map
\* if nothing was announced, and the unannounced trailers without their prefix.
TrailerKeys ==
    ((IF announced THEN Announcement \cap hdr ELSE hdr \ {"Trailer"})
         \ {"Trailer:T"})
      \cup (IF "Trailer:T" \in hdr THEN {"T"} ELSE {})

------------------------------------------------------------------------------
(* The gRPC server.  Its writes run on the handler's goroutine, one after    *)
(* the other, each when the pipe has taken the one before.                   *)

Serving == mainPc = "serve" /\ pipe = <<>>

\* The headers it sets before its first write: the ones of the protocol, the
\* announcement of the status, and possibly a Content-Length of the application.
ResponseHeaders ==
    IF headersSet THEN {hdr}
    ELSE { hdr \cup {"H", "Trailer"}, hdr \cup {"H", "Trailer", "Content-Length"} }

\* SendHeader.
GRPCSendHeader ==
    /\ Serving
    /\ ~headersSet
    /\ \E h \in ResponseHeaders : WriteHeader(h)
    /\ headersSet' = TRUE
    /\ UNCHANGED <<mainPc, statusSet, pipeClosed, writeVars, connVars>>

\* A message: its five-byte header and its data are written separately.
GRPCSend ==
    /\ Serving
    /\ Len(issued) <= MaxMessages
    /\ \E h \in ResponseHeaders, n \in PayloadSizes : WriteFrame(h, Data(n))
    /\ headersSet' = TRUE
    /\ UNCHANGED <<mainPc, statusSet, pipeClosed, writeVars, connVars>>

\* The status and the trailers of the application are put into the map, which
\* ends the call.  Nothing is written: Flush does nothing.
GRPCStatus ==
    /\ Serving
    /\ \E h \in ResponseHeaders, t \in SUBSET {"Trailer:T"} :
         hdr' = h \cup {"Grpc-Status"} \cup t
    /\ headersSet' = TRUE
    /\ statusSet' = TRUE
    /\ mainPc' = "returned"
    /\ UNCHANGED <<headerWritten, announced, pipeVars, writeVars, connVars>>

\* The request is not one it accepts: http.Error, which announces nothing.
GRPCReject ==
    /\ Serving
    /\ ~headersSet
    /\ WriteFrame({"H"}, Text)
    /\ headersSet' = TRUE
    /\ mainPc' = "returned"
    /\ UNCHANGED <<statusSet, pipeClosed, writeVars, connVars>>

\* The gRPC server is stopped: the call ends without a status.
GRPCStop ==
    /\ Serving
    /\ mainPc' = "returned"
    /\ UNCHANGED <<headersSet, statusSet, headerVars, pipeVars, writeVars, connVars>>

------------------------------------------------------------------------------
(* handleGRPCWS                                                             *)

\* websocket.Accept; the response writer is made and the goroutine started.  (The copy of
\* the request, without the headers of the handshake, is for the gRPC server only, which
\* is external.)
Accept ==
    /\ mainPc = "accept"
    /\ link' = "up"
    /\ mainPc' = "serve"
    /\ writePc' = "header"
    /\ UNCHANGED <<headersSet, statusSet, headerVars, pipeVars, msg, need, closeCode, outbox,
                   stalled>>

\* The handshake is refused: an HTTP error, and the gRPC server is not asked.
AcceptErr ==
    /\ mainPc = "accept"
    /\ mainPc' = "done"
    /\ UNCHANGED <<headersSet, statusSet, headerVars, pipeVars, writeVars, connVars>>

\* conn.Close(code): only the first close of a connection that is up matters.
CloseConn(code) ==
    /\ closeCode' = IF link = "up" THEN code ELSE closeCode
    /\ link' = "down"

\* grpcResponseWriter.Close, up to its last write into the pipe.
CloseResponse ==
    /\ mainPc = "returned"
    /\ pipe = <<>>
    /\ mainPc' = "closing"
    /\ issued' = Append(issued, Metadata(TrailerKeys))
    /\ pipe' = Pieces(Len(issued'), Metadata(TrailerKeys))
    /\ hdr' = IF announced THEN hdr \ {"Trailer:T"} ELSE TrailerKeys
    /\ UNCHANGED <<headersSet, statusSet, headerWritten, announced, pipeClosed,
                   writeVars, connVars>>

\* A Close that leaves the pipe open.
ClosePipeForgotten ==
    /\ mainPc = "closing"
    /\ pipe = <<>>
    /\ mainPc' = "wait"
    /\ UNCHANGED <<headersSet, statusSet, headerVars, pipeVars, writeVars, connVars>>

\* The deferred w.writer.Close().  A pipe write fails only if the read end is
\* closed, which nobody does, so Close returns nil.
ClosePipe ==
    /\ mainPc = "closing"
    /\ pipe = <<>>
    /\ pipeClosed' = TRUE
    /\ mainPc' = "wait"
    /\ UNCHANGED <<headersSet, statusSet, headerVars, issued, pipe, writeVars, connVars>>

\* A handler that does not wait for the other goroutine.
MayFinishAtOnce == mainPc = "wait"

\* wg.Wait()
MayFinish == mainPc = "wait" /\ writePc = "done"

\* conn.Close(StatusNormalClosure)
Finish ==
    /\ MayFinish
    /\ CloseConn("normal")
    /\ mainPc' = "done"
    /\ UNCHANGED <<headersSet, statusSet, headerVars, pipeVars, writeVars, outbox, stalled>>

------------------------------------------------------------------------------
(* grpcwebsocket.Write, in the second goroutine                             *)

\* One Read of the pipe on behalf of CopyN: as much as is wanted and there is.
\* An empty piece is taken out by a Read that returns nothing.
WriteRead ==
    /\ writePc \in {"header", "payload"}
    /\ need > 0
    /\ pipe # <<>>
    /\ LET p == Head(pipe)
           n == IF p.size < need THEN p.size ELSE need
       IN  /\ msg' = IF n = 0 THEN msg ELSE Append(msg, [p EXCEPT !.size = n])
           /\ need' = need - n
           /\ pipe' = IF n = p.size THEN Tail(pipe)
                      ELSE << [p EXCEPT !.size = p.size - n] >> \o Tail(pipe)
    /\ UNCHANGED <<serverVars, headerVars, issued, pipeClosed, writePc, connVars>>

\* ParseMessageHeader: the payload's length is known.
WriteParse ==
    /\ writePc = "header"
    /\ need = 0
    /\ need' = msg[1].length
    /\ writePc' = "payload"
    /\ UNCHANGED <<serverVars, headerVars, pipeVars, msg, connVars>>

\* conn.Write, which waits for as long as the peer does not read: there is no timeout.
WriteSend ==
    /\ writePc = "payload"
    /\ need = 0
    /\ link = "up"
    /\ ~stalled
    /\ outbox' = Append(outbox, msg)
    /\ msg' = <<>>
    /\ need' = MessageHeaderLength
    /\ writePc' = "header"
    /\ UNCHANGED <<serverVars, headerVars, pipeVars, link, closeCode, stalled>>

WriteSendErr ==
    /\ writePc = "payload"
    /\ need = 0
    /\ link = "down"
    /\ writePc' = "fail"
    /\ UNCHANGED <<serverVars, headerVars, pipeVars, msg, need, connVars>>

\* The end of the pipe is the end of the response between two messages only.
AtEOF == IF writePc = "header" /\ msg = <<>> THEN "done" ELSE "fail"

WriteEOF ==
    /\ writePc \in {"header", "payload"}
    /\ need > 0
    /\ pipe = <<>>
    /\ pipeClosed
    /\ writePc' = AtEOF
    /\ UNCHANGED <<serverVars, headerVars, pipeVars, msg, need, connVars>>

\* The goroutine's conn.Close(StatusInternalError)
WriteFail ==
    /\ writePc = "fail"
    /\ CloseConn("internal")
    /\ writePc' = "done"
    /\ UNCHANGED <<serverVars, headerVars, pipeVars, msg, need, outbox, stalled>>

------------------------------------------------------------------------------
\* The peer closes the connection, it is lost, or the request's context ends.
LinkDown ==
    /\ link = "up"
    /\ link' = "down"
    /\ UNCHANGED <<serverVars, headerVars, pipeVars, writeVars, closeCode, outbox, stalled>>

\* The peer stops reading, for good, and keeps the connection.  (A pause that ends is no
\* more than a slow conn.Write.)
Stall ==
    /\ link = "up"
    /\ ~stalled
    /\ stalled' = TRUE
    /\ UNCHANGED <<serverVars, headerVars, pipeVars, writeVars, link, closeCode, outbox>>

GRPCServer == GRPCSendHeader \/ GRPCSend \/ GRPCStatus \/ GRPCReject \/ GRPCStop

Handler == Accept \/ AcceptErr \/ CloseResponse \/ ClosePipe \/ Finish

Writer == WriteRead \/ WriteParse \/ WriteSend \/ WriteSendErr \/ WriteEOF \/ WriteFail

Peer == LinkDown \/ Stall

Next == GRPCServer \/ Handler \/ Writer \/ Peer

Spec == Init /\ [][Next]_vars

\* Both goroutines run when they can; what the gRPC server does is up to the
\* application, and the peer owes nothing.
FairSpec == Spec /\ WF_vars(Handler) /\ WF_vars(Writer)

------------------------------------------------------------------------------
(* Properties                                                               *)

\* The pieces of a frame that reach the message buffer: not a payload that is empty.
Whole(i, f) == IF f.length > 0 THEN Pieces(i, f) ELSE << Head(Pieces(i, f)) >>

\* Every WebSocket message holds exactly one of the frames written to the
\* response writer, all of it, and they are sent in the order in which they were
\* written: however the pipe cuts them, frame boundaries are never lost, and the
\* text of an HTTP error never passes for a frame.
FramesInOrder ==
    /\ Len(outbox) <= Len(issued)
    /\ \A i \in 1 .. Len(outbox) :
          issued[i].kind # "text" /\ outbox[i] = Whole(i, issued[i])

\* The connection is closed normally only after everything written has been
\* sent, and if the gRPC server has finished the call, its status was the last.
NormalClosureMeansComplete ==
    closeCode = "normal" =>
        /\ Len(outbox) = Len(issued)
        /\ statusSet => "Grpc-Status" \in issued[Len(outbox)].keys

\* The client is sent each header, trailer and the status at most once, and none
\* of the http.ResponseWriter's own conventions (the announcement, the prefix).
EachKeyOnce ==
    \A i, j \in 1 .. Len(outbox) :
        /\ issued[i].keys \cap {"Trailer", "Trailer:T"} = {}
        /\ i # j => issued[i].keys \cap issued[j].keys = {}

\* When the gRPC server has returned, the handler finishes, unless the connection has
\* gone or the peer has stopped reading: the two goroutines never wait for each other.
HandlerReturns == mainPc = "returned" ~> (mainPc = "done" \/ link = "down" \/ stalled)

\* "Close the pipe when done, so the reader knows to stop": Close closes the pipe, if
\* the peer does not stop reading, also when the connection has gone.
PipeIsClosed == mainPc = "returned" ~> (pipeClosed \/ stalled)
==============================================================================
