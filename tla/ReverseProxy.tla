----------------------------- MODULE ReverseProxy -----------------------------
(***************************************************************************)
(* How the client's proxy hands a response to the gRPC client: proxy.go    *)
(* (modifyResponse, writeError), httputils.ExtractResponseError,           *)
(* grpcproto.EncodeGrpcMessage and non_buffering_writer.go.                *)
(*                                                                         *)
(* External: httputil.ReverseProxy, which passes the head to               *)
(* modifyResponse, copies the body and then the trailers, and aborts the   *)
(* stream if the body fails; and the HTTP/2 server of net/http, which      *)
(* keeps the headers back until they are flushed, and marks them as the    *)
(* end of the stream if the handler returns before.  The body of a         *)
(* gRPC-Web response is read through a ResponseReader, taken here by what  *)
(* the module of that name shows: frames pass, a complete trailers frame   *)
(* becomes trailers, and any other end of a non-empty body is an error.    *)
(***************************************************************************)
EXTENDS Naturals, Sequences

CONSTANT Texts   \* the texts of errors

Message == INSTANCE GRPCMessage

VARIABLES
  head,     \* the head of the response on the wire
  body,     \* the body of the response on the wire
  end,      \* how the body ends
  proxyPc,  \* where the proxy's handler is
  taken,    \* number of parts of the body it has read
  out       \* the stream to the gRPC client

wireVars == <<head, body, end>>

\* dontFlushHeadersHeaderKey
DontFlush == "Grpchttp1-Dont-Flush-Headers"

OutKeys == {"H", "Content-Length", "Trailer", "Grpc-Status", "Trailer:T", "T", DontFlush}

TypeOK ==
    /\ proxyPc \in {"roundtrip", "copy", "done"}
    /\ taken \in 0 .. Len(body)
    /\ out \in [headers: {"none", "kept", "sent"},   \* the header block
                headerKeys: SUBSET OutKeys,
                ctype: {"none", "grpc", "grpc-web", "text"},
                data: Nat,                           \* parts of messages
                trailerKeys: SUBSET OutKeys,
                end: {"open", "headers", "stream", "reset"},
                origin: {"server", "proxy"},         \* who made the response
                text: Texts \cup {<<>>},             \* the error, if it was the proxy
                message: Seq(Message!Byte)]          \* the Grpc-Message made of it

Init ==
    /\ proxyPc = "roundtrip"
    /\ taken = 0
    /\ out = [headers |-> "none", headerKeys |-> {}, ctype |-> "none", data |-> 0,
              trailerKeys |-> {}, end |-> "open", origin |-> "server",
              text |-> <<>>, message |-> <<>>]

------------------------------------------------------------------------------
(* modifyResponse                                                           *)

\* A modifyResponse that does not look at the length.
ModifiedKeysUnmarked == head.keys

\* An empty response is marked, so that its headers are not flushed.
ModifiedKeys == head.keys \cup (IF head.length = "zero" THEN {DontFlush} ELSE {})

\* The content type of a gRPC-Web response becomes that of gRPC.
ModifiedType == IF head.ctype = "grpc-web" THEN "grpc" ELSE head.ctype

\* nonBufferingWriter.WriteHeader
WriteHeader(keys, ctype) ==
    [out EXCEPT !.headers = IF DontFlush \in keys THEN "kept" ELSE "sent",
                !.headerKeys = keys \ {DontFlush}, !.ctype = ctype]

\* The end of the handler: headers that were kept back end the stream.
Ended(o) == [o EXCEPT !.headers = "sent",
                      !.end = IF o.headers = "kept" THEN "headers" ELSE "stream"]

\* The head arrives and is no error: it is passed on.
Respond ==
    /\ proxyPc = "roundtrip"
    /\ head.status = 200
    /\ out' = WriteHeader(ModifiedKeys, ModifiedType)
    /\ proxyPc' = "copy"
    /\ UNCHANGED <<taken, wireVars>>

\* ErrorHandler: the response has an error status, or there is none.
WriteError ==
    /\ proxyPc = "roundtrip"
    /\ head.status >= 400 \/ (head.status = 0 /\ end # "open")
    /\ \E t \in Texts :
         out' = Ended([WriteHeader({}, "grpc") EXCEPT
                         !.trailerKeys = {"Grpc-Status"}, !.origin = "proxy",
                         !.text = t, !.message = Message!EncodeGrpcMessage(t)])
    /\ proxyPc' = "done"
    /\ UNCHANGED <<taken, wireVars>>

------------------------------------------------------------------------------
(* Copying the body                                                         *)

\* A proxy that does not read the body through a ResponseReader.
CopyUnwrapped ==
    /\ proxyPc = "copy"
    /\ taken < Len(body)
    /\ taken' = taken + 1
    /\ out' = [out EXCEPT !.headers = "sent", !.data = @ + 1]
    /\ UNCHANGED <<proxyPc, wireVars>>

\* One Read of the body and one nonBufferingWriter.Write, which flushes.  The parts
\* of a trailers frame are held back by the ResponseReader.
Copy ==
    /\ proxyPc = "copy"
    /\ taken < Len(body)
    /\ taken' = taken + 1
    /\ out' = IF body[taken'].kind = "trailers" THEN out
              ELSE [out EXCEPT !.headers = "sent", !.data = @ + 1]
    /\ UNCHANGED <<proxyPc, wireVars>>

\* An end of the body that is good whatever has been read.
CompleteUnlessReset == end = "eof"

\* The Read at the end of the body returns EOF.
Complete ==
    /\ end = "eof"
    /\ head.ctype = "grpc-web" /\ taken > 0 =>
          body[taken].kind = "trailers" /\ body[taken].last

\* The trailers are those of the trailers frame.
CopyEnd ==
    /\ proxyPc = "copy"
    /\ taken = Len(body)
    /\ Complete
    /\ out' = Ended([out EXCEPT !.trailerKeys = UNION {body[i].keys : i \in 1 .. taken}])
    /\ proxyPc' = "done"
    /\ UNCHANGED <<taken, wireVars>>

\* A panic with http.ErrAbortHandler, which resets the stream.
CopyErr ==
    /\ proxyPc = "copy"
    /\ taken = Len(body)
    /\ end # "open"
    /\ ~Complete
    /\ out' = [out EXCEPT !.end = "reset"]
    /\ proxyPc' = "done"
    /\ UNCHANGED <<taken, wireVars>>

Proxy == Respond \/ WriteError \/ Copy \/ CopyEnd \/ CopyErr
==============================================================================
