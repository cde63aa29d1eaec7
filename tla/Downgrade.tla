------------------------------ MODULE Downgrade ------------------------------
(***************************************************************************)
(* Which form a call takes: the options of client/options.go,              *)
(* ConnectViaProxy, createTransport and the Director of client/proxy.go,   *)
(* and the handler of server/server.go, with whatever stands between the   *)
(* two.  It is one decision for each call, made from the options g, the    *)
(* surroundings e and the headers of the request r.                        *)
(*                                                                         *)
(* A request is reduced to what these look at.  External: a gRPC client    *)
(* without this library; a gRPC server without it, which speaks HTTP/2     *)
(* only; net/http, which negotiates the protocol, and whose ReverseProxy   *)
(* restores the TE header of the request it was given; and an HTTP/1       *)
(* reverse proxy in front of the server, which may or may not pass the TE  *)
(* header, trailers and the upgrade to a WebSocket.                        *)
(***************************************************************************)
EXTENDS Naturals, SequencesExt

\* The arguments of WithContentType; the empty one changes nothing.
ContentTypes == {"", "grpc", "grpc-web", "other"}

Option == {"ForceHTTP2", "UseWebSocket", "DontUseWebSocket", "ForceDowngrade",
           "DontForceDowngrade"} \cup ContentTypes

OptionLists(max) == UNION {[1 .. n -> Option] : n \in 0 .. max}

\* The path to the server: direct, or through an HTTP/1 proxy.
Path == [http1: {FALSE}, te: {TRUE}, trailers: {TRUE}, upgrade: {TRUE}]
          \cup [http1: {TRUE}, te: BOOLEAN, trailers: BOOLEAN, upgrade: BOOLEAN]

\* The server option applies to the downgrading server only.
Surroundings ==
    { e \in [client: {"plain", "proxy"}, server: {"plain", "downgrading"},
             preferGRPCWeb: BOOLEAN, tls: BOOLEAN, path: Path, clientStream: BOOLEAN] :
          e.server = "plain" => ~e.preferGRPCWeb }

------------------------------------------------------------------------------
(* The client                                                               *)

Defaults == [forceHTTP2 |-> FALSE, useWebSocket |-> FALSE, forceDowngrade |-> FALSE,
             contentType |-> ""]

\* The apply methods
Applied(o, opt) ==
    CASE opt = "ForceHTTP2" -> [o EXCEPT !.forceHTTP2 = TRUE]
      [] opt \in {"UseWebSocket", "DontUseWebSocket"} ->
            [o EXCEPT !.useWebSocket = (opt = "UseWebSocket")]
      [] opt \in {"ForceDowngrade", "DontForceDowngrade"} ->
            [o EXCEPT !.forceDowngrade = (opt = "ForceDowngrade")]
      [] opt \in ContentTypes -> [o EXCEPT !.contentType = opt]

\* ConnectViaProxy applies the options one after the other.
ConnectOptions(g) == FoldLeft(Applied, Defaults, g)

\* Servers without this library speak HTTP/2 only, HTTP/1 proxies HTTP/1 only.
Protocols(e) ==
    IF e.path.http1 THEN {1} ELSE IF e.server = "plain" THEN {2} ELSE {1, 2}

\* createTransport: HTTP/2 if it is forced, or negotiated with TLS.  A gRPC client of
\* its own speaks HTTP/2, a WebSocket is opened with HTTP/1.
Protocol(e, o) ==
    IF e.client = "plain" THEN 2
    ELSE IF o.useWebSocket THEN 1
    ELSE IF o.forceHTTP2 \/ (e.tls /\ 2 \in Protocols(e)) THEN 2 ELSE 1

\* The request of the gRPC client.
GRPCRequest == [proto |-> 2, te |-> TRUE, accept |-> {}, webOnly |-> FALSE,
                contentType |-> "grpc", subprotocol |-> FALSE, upgrade |-> FALSE]

\* The Director.  The TE header it deletes comes back.
Directed(o, r) ==
    [r EXCEPT !.accept = IF o.forceDowngrade THEN {"grpc-web"} ELSE {"grpc", "grpc-web"},
              !.webOnly = o.forceDowngrade,
              !.contentType = IF o.contentType = "" THEN @ ELSE o.contentType]

\* ServeHTTP of the WebSocket proxy: the headers with those of the handshake.
Handshake(r) == [r EXCEPT !.subprotocol = TRUE, !.upgrade = TRUE]

\* What the server gets after whatever stands in front of it.
Passed(e, o, r) == [r EXCEPT !.proto = Protocol(e, o), !.te = @ /\ e.path.te,
                             !.upgrade = @ /\ e.path.upgrade]

Request(e, o) ==
    Passed(e, o, IF e.client = "plain" THEN GRPCRequest
                 ELSE IF o.useWebSocket THEN Handshake(GRPCRequest)
                 ELSE Directed(o, GRPCRequest))

------------------------------------------------------------------------------
(* The server                                                               *)

\* A gRPC server without this library.
PlainAnswer(r) == IF r.proto = 2 /\ r.contentType = "grpc" THEN "grpc" ELSE "error"

\* validGRPCWebPaths holds the methods without client streaming.
DowngradableMethod(e) == ~e.clientStream

AcceptGRPCWeb(r) == "grpc-web" \in r.accept

AcceptGRPC(e, r) ==
    /\ AcceptGRPCWeb(r) => "grpc" \in r.accept
    /\ ~(e.preferGRPCWeb /\ DowngradableMethod(e) /\ AcceptGRPCWeb(r))

\* A decision that does not ask whether trailers get through.
AsGRPCWithoutTE(e, r) == AcceptGRPC(e, r) /\ ~r.webOnly

\* A gRPC response is sent if the client and all proxies can take it.
AsGRPC(e, r) == r.te /\ AcceptGRPC(e, r) /\ ~r.webOnly

\* handleGRPCWeb: over HTTP/1, and as gRPC-Web, no client streaming.
WebAnswer(e, r) ==
    IF r.proto # 2 /\ ~DowngradableMethod(e) THEN "error"
    ELSE IF AsGRPC(e, r) THEN "grpc"
    ELSE IF AcceptGRPCWeb(r) /\ DowngradableMethod(e) THEN "grpc-web"
    ELSE "error"

\* The handler: isWebSocketUpgrade, then isContentTypeValid.
DowngradingAnswer(e, r) ==
    IF r.subprotocol THEN IF r.upgrade THEN "websocket" ELSE "error"
    ELSE IF r.contentType \notin {"grpc", "grpc-web"} THEN "http"
    ELSE WebAnswer(e, r)

\* The form of the answer to a call; none without a protocol both sides speak.
Answer(e, o) ==
    IF Protocol(e, o) \notin Protocols(e) THEN "unreachable"
    ELSE IF e.server = "plain" THEN PlainAnswer(Request(e, o))
    ELSE DowngradingAnswer(e, Request(e, o))

Answers == {"grpc", "grpc-web", "websocket", "http", "error", "unreachable"}

\* The gRPC client can get a status from it: trailers come through, or the proxy
\* takes them out of the body.
Usable(e, a) == \/ a = "grpc" /\ e.path.trailers
                \/ a = "grpc-web" /\ e.client = "proxy"
                \/ a = "websocket"

------------------------------------------------------------------------------
(* What the documentation says, from the options as they were given: the     *)
(* last one of a kind counts.                                                *)

LastOf(g, kind, default) ==
    LET I == {i \in DOMAIN g : g[i] \in kind}
    IN  IF I = {} THEN default ELSE g[CHOOSE i \in I : \A j \in I : j <= i]

Mode(e, g) ==
    IF e.client = "plain" THEN "plain"
    ELSE IF LastOf(g, {"UseWebSocket", "DontUseWebSocket"}, "") = "UseWebSocket"
    THEN "websocket" ELSE "web"

Forced(g) == LastOf(g, {"ForceDowngrade", "DontForceDowngrade"}, "") = "ForceDowngrade"

\* The table of the repository's README, as the integration tests spell it out.
TableSaysOK(e, g) ==
    CASE Mode(e, g) = "plain"     -> ~e.path.http1
      [] Mode(e, g) = "websocket" -> e.server = "downgrading" /\ e.path.upgrade
      [] Mode(e, g) = "web" /\ e.server = "plain" ->
            ~e.path.http1 /\ LastOf(g, ContentTypes, "") \in {"", "grpc"}
      [] OTHER ->
            /\ LastOf(g, ContentTypes, "") # "other"
            /\ e.clientStream => ~e.path.http1

\* The table presumes that the user forces HTTP/2 where it cannot be negotiated, and
\* only there, and that no proxy announces trailers which it then drops.
TableApplies(e, g) ==
    /\ Mode(e, g) = "web" => IF e.path.http1 THEN "ForceHTTP2" \notin Range(g)
                             ELSE e.tls \/ "ForceHTTP2" \in Range(g)
    /\ e.path.te => e.path.trailers

\* The calls that "will not work" according to the comment of ForceDowngrade.
ForcedStreaming(e, g) == Mode(e, g) = "web" /\ Forced(g) /\ e.clientStream

\* The option is an exception to the table, unless the server is one without this
\* library: there the two are at odds, and nothing is promised.
Promise(e, g) ==
    IF ForcedStreaming(e, g) THEN IF e.server = "plain" THEN "nothing" ELSE "fails"
    ELSE IF ~TableApplies(e, g) THEN "nothing"
    ELSE IF TableSaysOK(e, g) THEN "works" ELSE "fails"
==============================================================================
