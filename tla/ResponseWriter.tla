---------------------------- MODULE ResponseWriter ----------------------------
(***************************************************************************)
(* internal/grpcweb/response_writer.go: the http.ResponseWriter through    *)
(* which the gRPC server writes a response that is sent as gRPC-Web, and   *)
(* the end of handleGRPCWeb in server/server.go, which finalizes it.       *)
(*                                                                         *)
(* An http.Header is the set of its keys, and the Content-Type; the        *)
(* subtype is left out, because the handler has set the request's to none. *)
(* External: the gRPC server, modelled by the calls it makes, and the      *)
(* HTTP/1 server of net/http, which takes the headers at the first         *)
(* WriteHeader, Write or Flush, or when the handler returns.               *)
(***************************************************************************)
EXTENDS Naturals, Sequences

CONSTANT MaxMessages   \* bound on the messages a gRPC handler sends

VARIABLES
  pc,          \* where the handler is
  headersSet,  \* the gRPC server has put its response headers into the map
  statusKeys,  \* the keys of the status and the trailers it has put into the map
  messages,    \* number of messages it has written
  w,           \* the response writer, and whether the one below has its headers
  head,        \* the head of the response on the wire
  body,        \* the body of the response on the wire
  end          \* how the body ends, as its reader sees it

serverVars == <<pc, headersSet, statusKeys, messages>>
wireVars   == <<head, body, end>>

\* "H" stands for the ordinary headers, T for a trailer of the application.
Keys == {"H", "Content-Length", "Trailer", "Grpc-Status", "Trailer:T", "T"}

\* What the gRPC server announces in the Trailer header: its status.
Announcement == {"Grpc-Status"}

Writer == [hdr: SUBSET Keys, ctype: {"none", "grpc", "grpc-web", "text"},
           announcedTrailers: BOOLEAN,   \* it is not nil
           wroteHeader: BOOLEAN]

ResponseHead == [status: {0, 200, 400}, ctype: {"none", "grpc", "grpc-web", "text"},
                 keys: SUBSET Keys, length: {"unknown", "zero", "declared"}]

NoHead == [status |-> 0, ctype |-> "none", keys |-> {}, length |-> "unknown"]

\* The body is cut into parts wherever a cut of the connection makes a difference:
\* after a frame header, and after the status in the trailers.
Part == [kind: {"data", "trailers", "text"}, last: BOOLEAN, keys: SUBSET Keys]

TypeOK ==
    /\ pc \in {"serve", "status", "returned", "finish", "done"}
    /\ headersSet \in BOOLEAN
    /\ statusKeys \subseteq Keys
    /\ messages \in 0 .. MaxMessages
    /\ w \in Writer
    /\ head \in ResponseHead
    /\ body \in Seq(Part)
    /\ end \in {"open", "eof", "reset"}

\* NewResponseWriter
Init ==
    /\ pc = "serve"
    /\ headersSet = FALSE
    /\ statusKeys = {}
    /\ messages = 0
    /\ w = [hdr |-> {}, ctype |-> "none", announcedTrailers |-> FALSE, wroteHeader |-> FALSE]
    /\ head = NoHead
    /\ body = <<>>
    /\ end = "open"

------------------------------------------------------------------------------
(* responseWriter, as functions of its state                                *)

\* A prepareHeadersIfNecessary that leaves the content length in place.
PreparedWithLength(v) ==
    IF v.announcedTrailers THEN v
    ELSE [v EXCEPT !.announcedTrailers = "Trailer" \in v.hdr,
                   !.hdr = @ \ {"Trailer"}, !.ctype = "grpc-web"]

\* prepareHeadersIfNecessary.  The clone of hdr["Trailer"] is nil if there is none.
Prepared(v) ==
    IF v.announcedTrailers THEN v
    ELSE [v EXCEPT !.announcedTrailers = "Trailer" \in v.hdr,
                   !.hdr = @ \ {"Trailer", "Content-Length"}, !.ctype = "grpc-web"]

\* The writer below takes the headers of v, once; length is what it says about
\* the length of the body.
SendHeaders(v, status, length) ==
    /\ w' = [v EXCEPT !.wroteHeader = TRUE]
    /\ head' = IF v.wroteHeader \/ end # "open" THEN head
               ELSE [status |-> status, ctype |-> v.ctype, keys |-> v.hdr \ {"Trailer:T"},
                     length |-> IF "Content-Length" \in v.hdr THEN "declared" ELSE length]

WriteHeader(v, status) == SendHeaders(Prepared(v), status, "unknown")

\* Flush does nothing before the headers are prepared.
Flush(v) ==
    IF v.announcedTrailers THEN WriteHeader(v, 200)
    ELSE w' = v /\ UNCHANGED head

\* Parts written to a connection that is gone are lost, and the write fails.
Put(parts) == body' = IF end = "open" THEN body \o parts ELSE body

PartOf(kind, last, keys) == [kind |-> kind, last |-> last, keys |-> keys]

DataFrame == << PartOf("data", FALSE, {}), PartOf("data", TRUE, {}) >>

TrailersFrame(keys) ==
    << PartOf("trailers", FALSE, {}), PartOf("trailers", FALSE, keys \cap Announcement),
       PartOf("trailers", TRUE, keys \ Announcement) >>

\* The header map with the prefix taken off the unannounced trailers.
Folded(hdr) ==
    (hdr \ {"Trailer", "Trailer:T"}) \cup (IF "Trailer:T" \in hdr THEN {"T"} ELSE {})

------------------------------------------------------------------------------
(* The gRPC server                                                          *)

\* The writer with the headers it sets before its first call, possibly with a
\* Content-Length of the application.
WithHeaders ==
    IF headersSet THEN {w}
    ELSE { [w EXCEPT !.hdr = {"H", "Trailer"} \cup l, !.ctype = "grpc"] :
               l \in SUBSET {"Content-Length"} }

\* SendHeader: WriteHeader, then Flush.
GRPCSendHeader ==
    /\ pc = "serve"
    /\ ~headersSet
    /\ \E v \in WithHeaders : WriteHeader(v, 200)
    /\ headersSet' = TRUE
    /\ UNCHANGED <<pc, statusKeys, messages, body, end>>

\* A message: its header and its data are written, then Flush.
GRPCSend ==
    /\ pc = "serve"
    /\ messages < MaxMessages
    /\ \E v \in WithHeaders : WriteHeader(v, 200)
    /\ Put(DataFrame)
    /\ messages' = messages + 1
    /\ headersSet' = TRUE
    /\ UNCHANGED <<pc, statusKeys, end>>

\* WriteStatus: the headers are flushed before the status is put into the map.
GRPCFlush ==
    /\ pc = "serve"
    /\ \E v \in WithHeaders : Flush(v)
    /\ headersSet' = TRUE
    /\ pc' = "status"
    /\ UNCHANGED <<statusKeys, messages, body, end>>

GRPCStatus ==
    /\ pc = "status"
    /\ \E t \in SUBSET {"T"} :
         /\ w' = [w EXCEPT !.hdr = @ \cup Announcement
                                     \cup (IF "T" \in t THEN {"Trailer:T"} ELSE {})]
         /\ statusKeys' = Announcement \cup t
    /\ pc' = "returned"
    /\ UNCHANGED <<headersSet, messages, wireVars>>

\* The request is not one it accepts: http.Error, which announces nothing.
GRPCReject ==
    /\ pc = "serve"
    /\ ~headersSet
    /\ WriteHeader([w EXCEPT !.hdr = {"H"}, !.ctype = "text"], 400)
    /\ Put(<< PartOf("text", TRUE, {}) >>)
    /\ headersSet' = TRUE
    /\ pc' = "returned"
    /\ UNCHANGED <<statusKeys, messages, end>>

\* The gRPC server is stopped: the call ends without a status.
GRPCStop ==
    /\ pc = "serve"
    /\ pc' = "returned"
    /\ UNCHANGED <<headersSet, statusKeys, messages, w, wireVars>>

------------------------------------------------------------------------------
(* Finalize, and the end of the handler                                     *)

\* The keys of the trailers frame: the announced trailers, and the others
\* without their prefix.
TrailerKeys(hdr) ==
    (hdr \cap Announcement) \cup (IF "Trailer:T" \in hdr THEN {"T"} ELSE {})

\* Finalize, which takes the headers for unsent if nothing was announced.  Its two
\* writes are one step: a cut of the connection may still fall between them.
Finalize ==
    /\ pc = "returned"
    /\ \/ /\ ~w.announcedTrailers
          /\ w' = [w EXCEPT !.hdr = Folded(@)]
          /\ UNCHANGED body
       \/ /\ w.announcedTrailers
          /\ Put(TrailersFrame(TrailerKeys(w.hdr)))
          /\ w' = [w EXCEPT !.hdr = @ \ {"Trailer:T"}]
    /\ pc' = "finish"
    /\ UNCHANGED <<headersSet, statusKeys, messages, head, end>>

\* The handler returns.  Headers not sent before are sent as they are now, and
\* the empty body is announced unless the map still holds trailers; a body
\* shorter than its declared length is no proper end.
Finish ==
    /\ pc = "finish"
    /\ SendHeaders(w, 200, IF w.hdr \cap {"Trailer", "Trailer:T"} = {}
                           THEN "zero" ELSE "unknown")
    /\ end' = IF end # "open" THEN end
              ELSE IF head'.length = "declared" THEN "reset" ELSE "eof"
    /\ pc' = "done"
    /\ UNCHANGED <<headersSet, statusKeys, messages, body>>

Handler == Finalize \/ Finish

GRPCServer == GRPCSendHeader \/ GRPCSend \/ GRPCFlush \/ GRPCStatus \/ GRPCReject \/ GRPCStop
==============================================================================
