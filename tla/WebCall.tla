------------------------------- MODULE WebCall -------------------------------
(***************************************************************************)
(* A call through the client's reverse proxy: client and server settle on  *)
(* a form (Downgrade), and if that is gRPC-Web the response goes from the  *)
(* gRPC server through the server's ResponseWriter and the client's        *)
(* ReverseProxy to the gRPC client, over an HTTP/1 connection that may be  *)
(* cut at any time.                                                        *)
(***************************************************************************)
EXTENDS Naturals, Sequences

CONSTANTS MaxOptions,    \* bound on the options given to ConnectViaProxy
          MaxMessages,   \* bound on the messages a gRPC handler sends
          Texts          \* the texts of errors

Negotiation == INSTANCE Downgrade
Message == INSTANCE GRPCMessage

ASSUME MaxOptionsAssumption == MaxOptions \in Nat
ASSUME MaxMessagesAssumption == MaxMessages \in Nat
ASSUME TextsAssumption == \A t \in Texts : t \in Message!Text

VARIABLES deal,                                      \* what was settled on
          pc, headersSet, statusKeys, messages, w,   \* the server
          head, body, end,                          \* the wire
          proxyPc, taken, out,                      \* the proxy
          cut                                       \* the connection was cut

Server == INSTANCE ResponseWriter
Client == INSTANCE ReverseProxy

serverVars == <<pc, headersSet, statusKeys, messages, w>>
wireVars   == <<head, body, end>>
proxyVars  == <<proxyPc, taken, out>>
vars == <<deal, serverVars, wireVars, proxyVars, cut>>

\* The form of the answer, whether the gRPC client can use it, and what the
\* documentation promises.
Deal == [answer: Negotiation!Answers \cup {"none"}, usable: BOOLEAN,
         promise: {"works", "fails", "nothing"}]

TypeOK == deal \in Deal /\ Server!TypeOK /\ Client!TypeOK /\ cut \in BOOLEAN

Init ==
    /\ deal = [answer |-> "none", usable |-> FALSE, promise |-> "nothing"]
    /\ Server!Init
    /\ Client!Init
    /\ cut = FALSE

\* The options, the request and the handler's decision, in any surroundings.  Only
\* the client of this library has options.
Negotiate ==
    /\ deal.answer = "none"
    /\ \E e \in Negotiation!Surroundings :
       \E g \in IF e.client = "proxy" THEN Negotiation!OptionLists(MaxOptions) ELSE {<<>>} :
         LET a == Negotiation!Answer(e, Negotiation!ConnectOptions(g))
         IN  deal' = [answer |-> a, usable |-> Negotiation!Usable(e, a),
                      promise |-> Negotiation!Promise(e, g)]
    /\ UNCHANGED <<serverVars, wireVars, proxyVars, cut>>

\* The rest is about gRPC-Web.
Downgraded == deal.answer = "grpc-web"

GRPCServer == Downgraded /\ Server!GRPCServer /\ UNCHANGED <<deal, proxyVars, cut>>

Handler == Downgraded /\ Server!Handler /\ UNCHANGED <<deal, proxyVars, cut>>

Proxy == Downgraded /\ Client!Proxy /\ UNCHANGED <<deal, serverVars, cut>>

\* The connection is lost with what is under way on it.  To the proxy that is
\* an error, or the end of the body if only the end of the connection marks it.
Cut ==
    /\ Downgraded
    /\ end = "open"
    /\ cut' = TRUE
    /\ end' \in {"eof", "reset"}
    /\ \E k \in taken .. Len(body) : body' = SubSeq(body, 1, k)
    /\ head' \in (IF proxyPc = "roundtrip" /\ body' = <<>> THEN {head, Server!NoHead}
                  ELSE {head})
    /\ UNCHANGED <<deal, serverVars, proxyVars>>

Next == Negotiate \/ GRPCServer \/ Handler \/ Proxy \/ Cut

Spec == Init /\ [][Next]_vars

\* The handler and the proxy run when they can; what the gRPC server does is up to
\* the application.
FairSpec == Spec /\ WF_vars(Handler) /\ WF_vars(Proxy)

------------------------------------------------------------------------------
(* Properties                                                               *)

\* A call is answered in a form that its client can use where the documentation says
\* so, and only there: for every list of options, kind of client and server, method
\* and proxy in between, the server's preference included.  The documentation is the
\* README's table, with the exception the comment of ForceDowngrade makes; nothing is
\* said where the two are at odds: such calls to a server without this library.
PromiseKept ==
    deal.answer # "none" /\ deal.promise # "nothing" =>
        (deal.usable <=> deal.promise = "works")

\* The status the gRPC client sees: in the trailers, or in headers that end the
\* stream.
StatusSeen ==
    /\ out.end \in {"headers", "stream"}
    /\ \/ "Grpc-Status" \in out.trailerKeys
       \/ out.end = "headers" /\ "Grpc-Status" \in out.headerKeys

\* A status that is not the proxy's own is the one the gRPC server has set, and the
\* client has every message, the headers and every trailer: a response that is
\* cut off anywhere is never taken for a complete one.
StatusMeansWholeResponse ==
    StatusSeen /\ out.origin = "server" =>
        /\ statusKeys # {}
        /\ out.data = 2 * messages
        /\ out.headerKeys \cup out.trailerKeys = {"H"} \cup statusKeys

\* How the call ends for the gRPC client.
Outcome ==
    IF out.end = "open" THEN "none"
    ELSE IF StatusSeen /\ out.origin = "server" THEN "status" ELSE "failed"

\* A message is two parts of the body.
Stream == INSTANCE ResponseStream WITH
    sent <- messages, finished <- statusKeys # {},
    delivered <- out.data \div 2, outcome <- Outcome

\* Server and proxy together are a transport for a response: the messages arrive
\* one by one, and the call ends with the server's status only when none is missing.
ImplementsResponseStream == Stream!Spec

\* The client is sent each header, trailer and the status at most once, nothing of
\* the conventions of http.ResponseWriter and of the proxy's mark, no length that
\* is no longer right, and no content type but that of gRPC; and Finalize leaves
\* nothing behind that net/http would send as a trailer once more.
EachKeyOnce ==
    /\ out.headerKeys \cap out.trailerKeys = {}
    /\ (out.headerKeys \cup out.trailerKeys) \cap {"Trailer", "Trailer:T", Client!DontFlush} = {}
    /\ "Content-Length" \in out.headerKeys => body = <<>>
    /\ out.headers # "none" /\ statusKeys # {} => out.ctype = "grpc"
    /\ pc = "done" => w.hdr \cap {"Trailer", "Trailer:T"} = {}

\* The text of an error that writeError reports reaches the gRPC client as it was, also
\* if it looks escaped or is not UTF-8, and only printable ASCII gets into the header, so
\* that no text can end it or make it invalid.
ErrorTextArrives ==
    /\ \A i \in DOMAIN out.message : out.message[i] \in 32 .. 126
    /\ Message!Decoded[out.message] = Message!Repaired[out.text]

\* Once the gRPC server has set the call's status, the client gets it, unless the
\* connection is cut (or the length is wrong).  A status in the headers counts only
\* if they end the stream, so Trailers-Only must stay Trailers-Only on its way
\* through two header maps, HTTP/1 and two writers.
StatusArrives ==
    statusKeys # {} ~> \/ StatusSeen /\ out.origin = "server"
                       \/ cut \/ head.length = "declared"
==============================================================================
