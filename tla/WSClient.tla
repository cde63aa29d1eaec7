------------------------------- MODULE WSClient -------------------------------
(***************************************************************************)
(* client/ws_proxy.go: the HTTP/2 handler that carries one gRPC call over  *)
(* a WebSocket.  Three goroutines work on it:                              *)
(*                                                                         *)
(*   main         dials, copies the server's messages to the client        *)
(*                (readFromServer), closes the request body, waits for the *)
(*                writer, reports an error if there was one, closes the    *)
(*                connection;                                              *)
(*   writer       sends the client's messages (grpcwebsocket.Write), then  *)
(*                an end-of-stream message (writeToServer);                *)
(*   close reader started by conn.CloseRead when readFromServer returns.   *)
(*                                                                         *)
(* The gRPC client, the server and the WebSocket library are external: the *)
(* client may half-close, cut off or cancel its request at any time; the   *)
(* server sends its script, may stop reading, and may end the connection   *)
(* at any time.  A message is one step, however long it is.                *)
(***************************************************************************)
EXTENDS GRPCProto, Sequences, FiniteSets

CONSTANTS Scripts,      \* the message sequences a server may send
          Statuses,     \* the gRPC status codes a server may send
          MaxRequests   \* bound on the messages of the gRPC client

ASSUME MaxRequestsAssumption == MaxRequests \in Nat
ASSUME StatusesAssumption ==
    Statuses \cap {"none", "malformed", "Unavailable"} = {}

VARIABLES
  script,         \* what this server sends
  arrived,        \* number of messages of the script that have arrived
  serverEnd,      \* how the server's side of the connection has ended
  stalled,        \* the server has stopped reading
  requests,       \* number of messages the gRPC client has put into the body
  requestEnd,     \* how the gRPC client has ended the body
  ctxDone,        \* the request's context is cancelled
  bodyClosed,     \* req.Body.Close has been called
  link,           \* conn, as this side sees it
  closeCode,      \* the code this side has closed it with
  mainPc,         \* where ServeHTTP is
  next,           \* number of messages taken from conn
  dataExpected,   \* readFromServer's state variable
  closeRead,      \* the goroutine of conn.CloseRead
  errFlag,        \* c.errFlag
  connErr,        \* c.err
  writePc,        \* where the goroutine of writeToServer is
  taken,          \* number of messages it has read from the body
  sent,           \* number of messages it has sent
  eosSent,        \* it has sent the end-of-stream message
  httpStatus,     \* the status code w.WriteHeader was called with; 0: none
  headerStatus,   \* w.Header()["Grpc-Status"]
  trailerStatus,  \* w.Header()["Trailer:Grpc-Status"]
  written         \* the messages of the script written to w

peerVars   == <<script, arrived, serverEnd, stalled>>
clientVars == <<requests, requestEnd, ctxDone>>
connVars   == <<link, closeCode>>
readVars   == <<next, dataExpected, closeRead>>
errVars    == <<errFlag, connErr>>
writeVars  == <<writePc, taken, sent, eosSent>>
respVars   == <<httpStatus, headerStatus, trailerStatus, written>>
vars == <<peerVars, clientVars, bodyClosed, connVars, mainPc, readVars, errVars,
          writeVars, respVars>>

\* A message of the server; meta says what its payload is as a MIME header: one
\* without a Grpc-Status, one with it, or none.
ServerMessage ==
    [mt: {"binary", "text"}, flags: 0 .. 255, length: Nat, size: Nat,
     meta: Statuses \cup {"none", "malformed"}]

ASSUME ScriptsAssumption == Scripts \subseteq Seq(ServerMessage)

\* The ends of a connection conn.Read tells apart: close codes, or a failure.
Ends == {"normal", "goingAway", "internal", "lost"}

TypeOK ==
    /\ script \in Seq(ServerMessage)
    /\ arrived \in 0 .. Len(script)
    /\ serverEnd \in Ends \cup {"open"}
    /\ stalled \in BOOLEAN
    /\ requests \in 0 .. MaxRequests
    /\ requestEnd \in {"open", "eof", "truncated"}
    /\ ctxDone \in BOOLEAN
    /\ bodyClosed \in BOOLEAN
    /\ link \in {"none", "up", "down"}
    /\ closeCode \in {"none", "normal", "internal", "policy"}
    /\ mainPc \in {"start", "header", "body", "swap", "store", "closeBody", "wait",
                   "close", "done"}
    /\ next \in 0 .. arrived
    /\ dataExpected \in BOOLEAN
    /\ closeRead \in {"idle", "reading", "done"}
    /\ errFlag \in 0 .. 1
    /\ connErr \in {"nil", "read", "write"}
    /\ writePc \in {"idle", "read", "send", "eos", "swap", "store", "close", "done"}
    /\ taken \in 0 .. requests
    /\ sent \in 0 .. taken
    /\ eosSent \in BOOLEAN
    /\ httpStatus \in {0, 200, 415}
    /\ headerStatus \in Seq(Statuses \cup {"Unavailable"})
    /\ trailerStatus \in Seq(Statuses \cup {"Unavailable"})
    /\ written \in Seq(1 .. Len(script))

Init ==
    /\ script \in Scripts
    /\ arrived = 0
    /\ serverEnd = "open"
    /\ stalled = FALSE
    /\ requests = 0
    /\ requestEnd = "open"
    /\ ctxDone = FALSE
    /\ bodyClosed = FALSE
    /\ link = "none"
    /\ closeCode = "none"
    /\ mainPc = "start"
    /\ next = 0
    /\ dataExpected = TRUE
    /\ closeRead = "idle"
    /\ errFlag = 0
    /\ connErr = "nil"
    /\ writePc = "idle"
    /\ taken = 0
    /\ sent = 0
    /\ eosSent = FALSE
    /\ httpStatus = 0
    /\ headerStatus = <<>>
    /\ trailerStatus = <<>>
    /\ written = <<>>

\* conn.Close(code): "Only the first time matters."
CloseConn(code) ==
    /\ closeCode' = IF link = "up" THEN code ELSE closeCode
    /\ link' = "down"

------------------------------------------------------------------------------
(* ServeHTTP up to the two copying loops                                    *)

\* Not a gRPC request over HTTP/2.
MainRefuse ==
    /\ mainPc = "start"
    /\ httpStatus' = 415
    /\ mainPc' = "done"
    /\ UNCHANGED <<peerVars, clientVars, bodyClosed, connVars, readVars, errVars,
                   writeVars, headerStatus, trailerStatus, written>>

\* websocket.Dial fails: writeError.
MainDialErr ==
    /\ mainPc = "start"
    /\ httpStatus' = 200
    /\ headerStatus' = <<"Unavailable">>
    /\ mainPc' = "done"
    /\ UNCHANGED <<peerVars, clientVars, bodyClosed, connVars, readVars, errVars,
                   writeVars, trailerStatus, written>>

MainDial ==
    /\ mainPc = "start"
    /\ ~ctxDone
    /\ link' = "up"
    /\ mainPc' = "header"
    /\ writePc' = "read"
    /\ UNCHANGED <<peerVars, clientVars, bodyClosed, closeCode, readVars, errVars,
                   taken, sent, eosSent, respVars>>

------------------------------------------------------------------------------
(* readFromServer                                                           *)

\* conn.Read returns a message.
Receive ==
    /\ link = "up"
    /\ next < arrived
    /\ next' = next + 1

\* A readFromServer that stops reading when it returns.
CloseReadNever == "idle"

\* The deferred conn.CloseRead, which keeps on reading in a goroutine.
CloseRead == "reading"

\* readFromServer returns an error, or none.
ReturnErr ==
    /\ mainPc' = "swap"
    /\ closeRead' = CloseRead

ReturnOk ==
    /\ mainPc' = "closeBody"
    /\ closeRead' = CloseRead

\* A message that neither readHeader nor the loop accepts.
Unusable(m) == m.mt # "binary" \/ ~ValidateGRPCFrame(m)

\* The values of Grpc-Status that setHeader adds.
StatusOf(m) == IF m.meta \in Statuses THEN <<m.meta>> ELSE <<>>

\* readHeader, and the decision between a trailers-only response and a body.
MainHeader ==
    /\ mainPc = "header"
    /\ Receive
    /\ LET m == script[next']
       IN  \/ /\ Unusable(m) \/ ~IsMetadataFrame(m) \/ m.meta = "malformed"
              /\ ReturnErr
              /\ UNCHANGED <<httpStatus, headerStatus>>
           \/ /\ ~Unusable(m) /\ IsMetadataFrame(m) /\ m.meta \in Statuses
              /\ headerStatus' = StatusOf(m)
              /\ ReturnOk
              /\ UNCHANGED httpStatus
           \/ /\ ~Unusable(m) /\ IsMetadataFrame(m) /\ m.meta = "none"
              /\ httpStatus' = 200
              /\ mainPc' = "body"
              /\ UNCHANGED <<headerStatus, closeRead>>
    /\ UNCHANGED <<peerVars, clientVars, bodyClosed, connVars, dataExpected, errVars,
                   writeVars, trailerStatus, written>>

\* A loop without its state variable.
MessageExpectedAlways == TRUE

\* No message may follow the trailers.
MessageExpected == dataExpected

\* A message in the loop: data is written to the client, trailers are kept.
MainBody ==
    /\ mainPc = "body"
    /\ Receive
    /\ LET m == script[next']
       IN  \/ /\ \/ ~MessageExpected
                 \/ Unusable(m)
                 \/ IsMetadataFrame(m) /\ IsCompressed(m)
              /\ ReturnErr
              /\ UNCHANGED <<dataExpected, trailerStatus, written>>
           \/ /\ MessageExpected /\ ~Unusable(m) /\ IsDataFrame(m)
              /\ written' = Append(written, next')
              /\ UNCHANGED <<mainPc, closeRead, dataExpected, trailerStatus>>
           \/ /\ MessageExpected /\ ~Unusable(m)
              /\ IsMetadataFrame(m) /\ ~IsCompressed(m)
              /\ dataExpected' = FALSE
              /\ \/ /\ m.meta = "malformed"
                    /\ ReturnErr
                    /\ UNCHANGED trailerStatus
                 \/ /\ m.meta # "malformed"
                    /\ trailerStatus' = trailerStatus \o StatusOf(m)
                    /\ UNCHANGED <<mainPc, closeRead>>
              /\ UNCHANGED written
    /\ UNCHANGED <<peerVars, clientVars, bodyClosed, connVars, errVars, writeVars,
                   httpStatus, headerStatus>>

\* w.Write fails because the gRPC client has gone, just as a message was read.
MainWriteErr ==
    /\ mainPc = "body"
    /\ ctxDone
    /\ next < arrived
    /\ next' = next + 1
    /\ dataExpected
    /\ ~Unusable(script[next']) /\ IsDataFrame(script[next'])
    /\ ReturnErr
    /\ UNCHANGED <<peerVars, clientVars, bodyClosed, connVars, dataExpected, errVars,
                   writeVars, respVars>>

\* How the connection ends for conn.Read; the library then closes it.
ReadFails(code) ==
    /\ \/ link = "down" /\ code = "lost"
       \/ link = "up" /\ next = arrived /\ code = serverEnd /\ serverEnd # "open"
    /\ link' = "down"

\* The ends that are fine after the trailers.  (A bare io.EOF would be too, but
\* the library never returns it unwrapped.)
CleanEnds == {"normal", "goingAway"}

MainReadErr ==
    /\ mainPc \in {"header", "body"}
    /\ \E code \in Ends :
         /\ ReadFails(code)
         /\ \/ /\ mainPc = "header" \/ dataExpected \/ code \notin CleanEnds
               /\ ReturnErr
            \/ /\ mainPc = "body" /\ ~dataExpected /\ code \in CleanEnds
               /\ ReturnOk
    /\ UNCHANGED <<peerVars, clientVars, bodyClosed, closeCode, next, dataExpected,
                   errVars, writeVars, respVars>>

------------------------------------------------------------------------------
(* The rest of ServeHTTP                                                    *)

\* setError is an atomic swap, and a store by whoever was first.
MainSwap ==
    /\ mainPc = "swap"
    /\ errFlag' = 1
    /\ mainPc' = IF errFlag = 0 THEN "store" ELSE "closeBody"
    /\ UNCHANGED <<peerVars, clientVars, bodyClosed, connVars, readVars, connErr,
                   writeVars, respVars>>

MainStore ==
    /\ mainPc = "store"
    /\ connErr' = "read"
    /\ mainPc' = "closeBody"
    /\ UNCHANGED <<peerVars, clientVars, bodyClosed, connVars, readVars, errFlag,
                   writeVars, respVars>>

MainCloseBody ==
    /\ mainPc = "closeBody"
    /\ bodyClosed' = TRUE
    /\ mainPc' = "wait"
    /\ UNCHANGED <<peerVars, clientVars, connVars, readVars, errVars, writeVars, respVars>>

\* A handler that does not wait for its writer.
WaitedNot == mainPc = "wait"

\* wg.Wait()
Waited == mainPc = "wait" /\ writePc = "done"

\* writeErrorIfNecessary
MainReport ==
    /\ Waited
    /\ \/ /\ connErr # "nil" /\ headerStatus = <<>>
          /\ httpStatus' = 200
          /\ trailerStatus' = <<"Unavailable">>
       \/ /\ connErr = "nil" \/ headerStatus # <<>>
          /\ UNCHANGED <<httpStatus, trailerStatus>>
    /\ mainPc' = "close"
    /\ UNCHANGED <<peerVars, clientVars, bodyClosed, connVars, readVars, errVars,
                   writeVars, headerStatus, written>>

MainClose ==
    /\ mainPc = "close"
    /\ CloseConn("normal")
    /\ mainPc' = "done"
    /\ UNCHANGED <<peerVars, clientVars, bodyClosed, readVars, errVars, writeVars, respVars>>

------------------------------------------------------------------------------
(* The goroutine of writeToServer                                           *)

\* grpcwebsocket.Write reads a whole message from the body.
WriterRead ==
    /\ writePc = "read"
    /\ ~bodyClosed
    /\ taken < requests
    /\ taken' = taken + 1
    /\ writePc' = "send"
    /\ UNCHANGED <<peerVars, clientVars, bodyClosed, connVars, mainPc, readVars, errVars,
                   sent, eosSent, respVars>>

\* A Write that takes every failure of the body for its end.
AfterBodyAlwaysEOS(end) == "eos"

\* Only an EOF between two messages is the end of the request.
AfterBody(end) == IF end = "eof" THEN "eos" ELSE "swap"

\* The body has no message left, is cut off, is closed by main, or its stream
\* is reset.
WriterBodyEnd ==
    /\ writePc = "read"
    /\ \/ /\ ~bodyClosed
          /\ taken = requests
          /\ requestEnd # "open"
          /\ writePc' = AfterBody(requestEnd)
       \/ /\ bodyClosed \/ ctxDone
          /\ writePc' = AfterBody("failed")
    /\ UNCHANGED <<peerVars, clientVars, bodyClosed, connVars, mainPc, readVars, errVars,
                   taken, sent, eosSent, respVars>>

AfterSend == "read"

\* conn.Write succeeds: with the message, or the end-of-stream message.
WriterSend ==
    /\ link = "up"
    /\ ~stalled
    /\ \/ /\ writePc = "send"
          /\ sent' = sent + 1
          /\ writePc' = AfterSend
          /\ UNCHANGED eosSent
       \/ /\ writePc = "eos"
          /\ eosSent' = TRUE
          /\ writePc' = "done"
          /\ UNCHANGED sent
    /\ UNCHANGED <<peerVars, clientVars, bodyClosed, connVars, mainPc, readVars, errVars,
                   taken, respVars>>

\* conn.Write fails; it may notice the server's end before main reads it.
WriterSendErr ==
    /\ writePc \in {"send", "eos"}
    /\ link = "down" \/ (serverEnd # "open" /\ ~stalled)
    /\ writePc' = "swap"
    /\ UNCHANGED <<peerVars, clientVars, bodyClosed, connVars, mainPc, readVars, errVars,
                   taken, sent, eosSent, respVars>>

WriterSwap ==
    /\ writePc = "swap"
    /\ errFlag' = 1
    /\ writePc' = IF errFlag = 0 THEN "store" ELSE "close"
    /\ UNCHANGED <<peerVars, clientVars, bodyClosed, connVars, mainPc, readVars, connErr,
                   taken, sent, eosSent, respVars>>

WriterStore ==
    /\ writePc = "store"
    /\ connErr' = "write"
    /\ writePc' = "close"
    /\ UNCHANGED <<peerVars, clientVars, bodyClosed, connVars, mainPc, readVars, errFlag,
                   taken, sent, eosSent, respVars>>

WriterClose ==
    /\ writePc = "close"
    /\ CloseConn("internal")
    /\ writePc' = "done"
    /\ UNCHANGED <<peerVars, clientVars, bodyClosed, mainPc, readVars, errVars,
                   taken, sent, eosSent, respVars>>

------------------------------------------------------------------------------
(* The goroutine of conn.CloseRead                                          *)

\* A message is unexpected now; the end of the connection is not.
CloseReader ==
    /\ closeRead = "reading"
    /\ \/ Receive /\ CloseConn("policy")
       \/ (\E code \in Ends : ReadFails(code)) /\ UNCHANGED <<next, closeCode>>
    /\ closeRead' = "done"
    /\ UNCHANGED <<peerVars, clientVars, bodyClosed, mainPc, dataExpected, errVars,
                   writeVars, respVars>>

------------------------------------------------------------------------------
(* The gRPC client and the server                                           *)

ClientSend ==
    /\ mainPc # "done"
    /\ requestEnd = "open"
    /\ requests < MaxRequests
    /\ requests' = requests + 1
    /\ UNCHANGED <<peerVars, requestEnd, ctxDone, bodyClosed, connVars, mainPc, readVars,
                   errVars, writeVars, respVars>>

\* The end of the body, after a whole message or in the middle of one.
ClientEnd ==
    /\ mainPc # "done"
    /\ requestEnd = "open"
    /\ requestEnd' \in {"eof", "truncated"}
    /\ UNCHANGED <<peerVars, requests, ctxDone, bodyClosed, connVars, mainPc, readVars,
                   errVars, writeVars, respVars>>

\* conn's reads and writes are bound to the context and close conn.
ClientCancel ==
    /\ ~ctxDone
    /\ mainPc # "done"
    /\ ctxDone' = TRUE
    /\ link' = IF link = "up" THEN "down" ELSE link
    /\ UNCHANGED <<peerVars, requests, requestEnd, bodyClosed, closeCode, mainPc, readVars,
                   errVars, writeVars, respVars>>

ServerSend ==
    /\ link = "up"
    /\ serverEnd = "open"
    /\ arrived < Len(script)
    /\ arrived' = arrived + 1
    /\ UNCHANGED <<script, serverEnd, stalled, clientVars, bodyClosed, connVars, mainPc,
                   readVars, errVars, writeVars, respVars>>

ServerStall ==
    /\ link = "up"
    /\ ~stalled
    /\ stalled' = TRUE
    /\ UNCHANGED <<script, arrived, serverEnd, clientVars, bodyClosed, connVars, mainPc,
                   readVars, errVars, writeVars, respVars>>

ServerEnd ==
    /\ link = "up"
    /\ serverEnd = "open"
    /\ serverEnd' \in Ends
    /\ UNCHANGED <<script, arrived, stalled, clientVars, bodyClosed, connVars, mainPc,
                   readVars, errVars, writeVars, respVars>>

------------------------------------------------------------------------------
Main == \/ MainRefuse \/ MainDialErr \/ MainDial \/ MainHeader \/ MainBody
        \/ MainWriteErr \/ MainReadErr \/ MainSwap \/ MainStore \/ MainCloseBody
        \/ MainReport \/ MainClose

Writer == \/ WriterRead \/ WriterBodyEnd \/ WriterSend \/ WriterSendErr
          \/ WriterSwap \/ WriterStore \/ WriterClose

Environment == \/ ClientSend \/ ClientEnd \/ ClientCancel
               \/ ServerSend \/ ServerStall \/ ServerEnd

Next == Main \/ Writer \/ CloseReader \/ Environment

Spec == Init /\ [][Next]_vars

\* Every goroutine of the proxy runs when it can; the two peers owe nothing, except that
\* the gRPC client takes what is written to it: w.Write never waits for ever.
FairSpec == Spec /\ WF_vars(Main) /\ WF_vars(Writer) /\ WF_vars(CloseReader)

------------------------------------------------------------------------------
(* Properties                                                               *)

\* The status the gRPC client sees when the handler has returned.
FinalStatus == IF headerStatus # <<>> THEN headerStatus ELSE trailerStatus

Finished == mainPc = "done" /\ httpStatus # 415

\* The message in which the server has sent its status, if main has read it.
StatusMessages ==
    { i \in 1 .. next : /\ script[i].mt = "binary"
                        /\ IsMetadataFrame(script[i])
                        /\ script[i].meta \in Statuses }

\* A failure is never lost, whichever goroutine meets it, in whatever order the
\* two record it: a call that has failed, or for which the server has sent no
\* trailers, ends with a status.
FailureReported ==
    Finished /\ FinalStatus = <<>> => errFlag = 0 /\ ~dataExpected

\* The sequence has the members of the set in ascending order.
Lists(seq, set) ==
    /\ { seq[k] : k \in DOMAIN seq } = set
    /\ \A k, l \in DOMAIN seq : k < l => seq[k] < seq[l]

\* If the gRPC client sees the server's status, it has got every message the
\* server sent before that status, in order, and nothing the server sent later:
\* a response cut short never looks complete.
StatusMeansWholeResponse ==
    Finished /\ FinalStatus # <<>> /\ FinalStatus # <<"Unavailable">> =>
        \E i \in StatusMessages :
            /\ FinalStatus = <<script[i].meta>>
            /\ Lists(written, { j \in 1 .. i - 1 : IsDataFrame(script[j]) })

\* The first message with the server's status, or the number after the last.
StatusAt ==
    CHOOSE i \in 1 .. arrived + 1 :
        /\ i <= arrived => IsMetadataFrame(script[i]) /\ script[i].meta \in Statuses
        /\ \A j \in 1 .. i - 1 :
              ~(IsMetadataFrame(script[j]) /\ script[j].meta \in Statuses)

\* How the call ends for the gRPC client.
Outcome ==
    IF mainPc # "done" THEN "none"
    ELSE IF FinalStatus \in { <<>>, <<"Unavailable">> } THEN "failed" ELSE "status"

Stream == INSTANCE ResponseStream WITH
    sent <- Cardinality({ j \in 1 .. StatusAt - 1 : IsDataFrame(script[j]) }),
    finished <- StatusAt <= arrived, delivered <- Len(written), outcome <- Outcome

\* The proxy is a transport for a response: the server's messages are written
\* one by one and not before they arrive, none after the end of the call, and the
\* call ends with the server's status only when none is missing.
ImplementsResponseStream == Stream!Spec

\* The server is told that the request is complete only if it is: the client has
\* half-closed it after a whole message and all its messages were sent before.
EOSMeansWholeRequest == eosSent => requestEnd = "eof" /\ sent = requests

\* Whatever ends the connection ends the handler: neither main nor the writer is
\* left waiting for a body, a peer or each other.
CallEnds == (link = "down" \/ serverEnd # "open" \/ ctxDone) ~> mainPc = "done"

\* "Write an error back to the client ... if there are no unannounced trailers":
\* trailers received from the server are not replaced.
TrailersPreserved ==
    [][trailerStatus # <<>> => trailerStatus' = trailerStatus]_trailerStatus
==============================================================================
