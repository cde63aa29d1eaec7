# go-grpc-http1: a TLA+ model

`go-grpc-http1` carries gRPC calls over networks that only let HTTP/1 or
WebSockets through. A client-side proxy inside the client process turns the gRPC
client's HTTP/2 stream into either a gRPC-Web request ("downgrade") or a
WebSocket; a handler on the server turns it back. Hardly any of its logic is
about single values: it is about two or three goroutines that share a connection,
a pipe or a buffer, and about telling a complete call from one that was cut off.

The modules follow the code in `src/`. Line numbers are those of the checked-out
commit; `PROJECT.json` maps each definition to its lines.

## Inventory

| Component | State | Operations | Talks to |
|---|---|---|---|
| WebSocket request body, `server/websocket_reader.go` | `barrierC` (a token), `readerResultC`, one buffer, the unread rest `currMsg`, a sticky `err`, two contexts | goroutine `readerLoop`; `Read`, `Close` | WebSocket connection; gRPC server (reads on its own goroutine) |
| WebSocket response, `server/websocket_writer.go`, `handleGRPCWS` in `server/server.go` | header map, `headerWritten`, `announcedTrailers`, `io.Pipe`, wait group | `Write`, `WriteHeader`, `Flush`, `Close`; the handler's sequence serve / close / wait / close connection | gRPC server; the copying goroutine |
| `grpcwebsocket.Write` | message buffer | cut a byte stream into frames, send each as a WebSocket message | used on both ends, each time on a goroutine of its own |
| WebSocket client proxy, `client/ws_proxy.go` | `errFlag`, `err`, the loop's `dataExpected`, response headers and trailers | `ServeHTTP`: dial, `readFromServer`, goroutine `writeToServer`, `setError`, `writeErrorIfNecessary` | HTTP/2 server side of the gRPC client's stream; WebSocket |
| gRPC frames, `internal/grpcproto` | none | header encoding, flags, validation, end-of-stream frame, message encoding | all of the above |
| gRPC-Web response reader, `internal/grpcweb/response_reader.go` | rest of the current message, partial header, stored trailer bytes, what has been seen, sticky `err` | `Read` (`doRead`, `consume`, `readFullTrailers`, `adjustResult`) | the reverse proxy's copying loop |
| gRPC-Web response writer, `internal/grpcweb/response_writer.go` | `announcedTrailers` | `Write`, `WriteHeader`, `Flush`, `Finalize` | gRPC server; HTTP response |
| Downgrade negotiation, `server/server.go`; `Director`, `modifyResponse` in `client/proxy.go` | none (one decision per request) | choose gRPC, gRPC-Web, WebSocket or plain HTTP | headers of the request and of the response |
| Reverse proxy and unbuffered writer, `client/proxy.go`, `client/non_buffering_writer.go` | a marker header | flush after each write, not for empty responses | `net/http/httputil` |
| Pipe listener and signal, `internal/pipeconn`, `internal/concurrency` | an atomic pointer to a channel; an unbuffered channel of connections | `Accept`, `DialContext`, `Close`; `Signal`, `Reset`, `Wait`, ... | the proxy's HTTP server and the gRPC client's dialer |
| Side-channel credentials, `client/side_channel_creds.go` | cached `authInfo` under a mutex | `ClientHandshake`, `dialViaCONNECT` | a second TLS connection to the endpoint |
| Proxy life cycle, `client/proxy.go` | the server, the gRPC connection's state | connect; close the server on shutdown | gRPC client connection |

What is hard, and what makes each part correct:

* **Request body.** `readerLoop` and `Read` alternate by a token. The library
  allows one open `io.Reader`; all messages share one buffer. Correct means: one
  reader at a time, the client's bytes in order whatever the read sizes, `io.EOF`
  only for the client's end-of-stream frame, errors sticky, no goroutine left
  behind.
* **Response.** The frames pass through a synchronous pipe in separate writes,
  some of them empty, and are put together by counts in another goroutine.
  Correct means: messages are frames, in order; a normal closure only after the
  trailers; every key once; nobody waits for ever.
* **Client proxy.** Reader and writer fail independently, the server may end,
  stop reading or send too much, the client may end, cut off or cancel its
  request. Correct means: a failure is reported, a status stands for the whole
  response, an end-of-stream message for the whole request, and the handler ends.
* **Response reader.** The body arrives in chunks cut anywhere; its end may come
  with the last bytes or after them. Correct means: exactly the data frames are
  passed on, the trailers are added once, the body is accepted if and only if it
  is well formed, and reading ends.
* **Pipe listener and signal.** Closing is a swap of a pointer followed by the
  closing of a channel, others look in between, and selects choose at random.
  Correct means: a call that begins after `Close` is refused, calls in progress
  are freed, nothing is closed twice, no waiter is forgotten by a `Reset`.
* **Response writer and reverse proxy.** One header map serves as headers,
  announcement and trailers, at different times and on both sides; whether headers
  are flushed decides what the gRPC client makes of them. Correct means: the status
  arrives, after everything else, once, and an empty response stays Trailers-Only.
* **Negotiation.** Six headers, two option lists, the transport and what proxies do
  with them decide together. Correct means: the client gets a form that it can read
  and that gets through, exactly where the documentation promises it.
* **Credentials.** A mutex is held over network operations. Correct means: one
  handshake decides for all connections, there is one side channel at a time and it is
  closed when its handshake is over, and a failure does not hang the next attempt. The
  code has one exception: it leaves the connection of a failed CONNECT open.
* **Life cycle.** The proxy's server is closed by a goroutine that watches the
  client's state, while `Serve` starts, accepts or hands connections over. Correct
  means: not too early, and nothing is left.
* **Error texts.** They travel in a header. Correct means: printable, and readable
  as they were.

`PROJECT.json` lists the hazards one by one, each with its line and the
properties that would catch it.

## Modules

| Module | Models | Used by |
|---|---|---|
| `GRPCProto` | frames as (type, flags, declared length, size), and the tests on them | `WSReader`, `WSServer`, `WSClient` |
| `WSReader` | `wsReader` | `MCWSReader`, `WSReaderProofs` |
| `WSServer` | `handleGRPCWS`, `wsResponseWriter`, `grpcwebsocket.Write` | `MCWSServer`, `WSServerProofs` |
| `WSClient` | `http2WebSocketProxy.ServeHTTP` and `websocketConn`, shown to implement `ResponseStream` | `MCWSClient`, `WSClientProofs` |
| `ResponseStream` | the abstract response of a call: what every transport owes | `WSClient`, `WebCall` |
| `ResponseWriter` | `grpcweb.responseWriter` and the end of `handleGRPCWeb` | `WebCall` |
| `ReverseProxy` | `modifyResponse`, `writeError`, `nonBufferingWriter` | `WebCall` |
| `Downgrade` | operators: options, `createTransport`, `Director`, `CreateDowngradingHandler`, `handleGRPCWeb` | `WebCall` |
| `GRPCMessage` | operators: `EncodeGrpcMessage` | `ReverseProxy`, `WebCall` |
| `WebCall` | composes these four, with a connection that may be cut; shown to implement `ResponseStream` | `MCWebCall`, `WebCallProofs` |
| `SideChannelCreds` | `sideChannelCreds` and `dialViaCONNECT` | `ClientConn` |
| `ClientConn` | `makeProxyServer`, `dialGRPCServer`, `closeServerOnConnShutdown`; composes `Listener` and `SideChannelCreds` | `MCClientConn`, `ClientConnProofs` |
| `ResponseReader` | `responseReader` | `MCResponseReader`, `ResponseReaderProofs` |
| `Signal` | the state and the atomic operations of a `Signal` | `SignalCalls`, `PipeListener` |
| `SignalCalls` | goroutines that call its methods, `wait.go`, `do.go` | `MCSignalCalls`, `SignalProofs` |
| `Listener` | the abstract listener: what the pipe listener promises | `PipeListener`, `ClientConn` |
| `PipeListener` | `pipeListener`, shown to implement `Listener` | `MCPipeListener`, `PipeListenerProofs` |
| `WSReaderProofs`, `WSServerProofs`, `WSClientProofs`, `ResponseReaderProofs`, `WebCallProofs`, `ClientConnProofs`, `SignalProofs`, `PipeListenerProofs` | theorems about the module before `Proofs` (`SignalProofs`: `SignalCalls`) | |

Definitions whose comment begins with "A ... that ..." and that stand directly
before a definition with a similar name (`TakeTokenAlways` before `TakeToken`) are
wrong versions of it: a property is worth its run only if one of them violates it.

Each module has one type invariant. Those of `WSReader`, `SignalCalls` and
`PipeListener` are part of their runs, because message and channel numbers are in them;
the others say no more than types and are there for the proofs.

### WSReader

One variable for each field, one `Pc` for each of the two goroutines. The steps
end where another goroutine can come in between: the channel operations, the calls
of the connection, the return of `Read`. The unbuffered `readerResultC` is one
joint step (`Handoff`). The connection is external; a message has a first byte
(`conn.Reader` returns) and a last byte (`ReadFrom` returns), and the connection
may be closed by the peer or go down at any time. `undrained` and `delivered` are
history: the `io.Reader` that is still open and every byte returned, as (message,
offset). `currMsg` is a length and its bytes are those of `buf`, as in the code,
where it is a slice of the buffer: overwriting the buffer too early would show.

### WSServer

The gRPC server is external: it may send headers, send messages, finish with a
status, reject the request with a plain HTTP error, or be stopped without a
status; it announces the `Trailer` key `Grpc-Status` and adds its application's
trailers with the prefix, as grpc-go 1.60 does. A header map is its set of keys.
The pipe holds the pieces of the current writes; the handler's goroutine goes on
only when they are read. `WriteRead` is one `Read` of `io.CopyN`. If
`websocket.Accept` fails, the gRPC server is not asked at all. The connection may be
lost, and the peer may stop reading for good (`Stall`): `conn.Write` has no timeout, so
the copying goroutine then stays in it, and the handler with it. Which request headers
are passed to the gRPC server (`server.go:54-69`) is left out.

### WSClient

Three goroutines: main, the writer, and the one `conn.CloseRead` starts. A message
is one step. `setError` is two steps (swap, store). The server plays a script and
may stall, end the connection with any close code, or lose it; the client sends up
to `MaxRequests` messages, ends its body after a whole message or inside one, or
cancels. The library's rules are: the first close counts; a read error closes the
connection; a message that `CloseRead` meets closes it with a policy violation; a
done context closes it. Writing to the gRPC client always completes: that it may stop
reading, so that HTTP/2's flow control blocks `w.Write`, is not modelled, and `CallEnds`
does not hold of such a client.

### ResponseReader

The one module that keeps bytes, because flags, lengths and line ends decide what
happens. `ReadUpstream` returns any number of bytes up to the buffer's size, with
or without the error at the end. `ReadMIMEHeader` stands for `net/textproto`, with
`\n` for `\r\n`; that `ReadMIMEHeader` is given everything at once is sound
because the code reads the whole frame before it looks at the result. The bytes of
the header that `Uint32` combines stay far below 2^32 in the instance.
The reference definitions (`DataFrames`, `TrailersFrame`, `WellFormed`) read the
body as a whole and share nothing with the reader but the frame format.

### Signal, SignalCalls

A channel is a number, the nil pointer and `closedCh` are `Nil`. Each atomic
operation is a step: the load with which `IsDone`, `Wait` and the select of
`SignalWhen` begin, the swap, the closing of the channel, the compare-and-swap of
`Reset` (one that fails changes nothing and is no step). `hit` is history: the
goroutines in whose call the signal was triggered at some time. The program itself
never resets its signal; the package and its tests do. The draining of a timer that
could not be stopped (`wait.go:44-46`) is left out: the timer has fired, so it cannot
block.

### PipeListener, Listener

The listener's signal is that of `Signal`. The unbuffered channel of connections
is one joint step of a dialer and an acceptor (`Handover`); the select evaluates
`Done()` when it is entered (`EnterSelect`), after the check at the beginning. The
abstract listener knows only whether it is open, who is waiting, who has come too
late and what was returned; the mapping (`Status`) calls a caller late if the load
of `IsDone` found the nil pointer. What is left to chance in the code is left open
there too: a dial and an accept that both began before `Close` may still meet.

### ResponseStream

The response of one call: messages are sent, the status is set, messages are
delivered one by one, and the call ends with the status when nothing is missing, or
fails. In `WebCall` the mapping counts two parts of the body as a message and takes
what the gRPC client is sent; in `WSClient` the server's script up to its first
status is what was sent, and the outcome is what the handler leaves when it returns.
`WSServer` has no client in it; its `FramesInOrder` and `NormalClosureMeansComplete`
say of the wire what `WSClient` assumes of its server at best.

### ResponseWriter, ReverseProxy, WebCall

`WebCall` begins with `Negotiate`, which settles on a form (`Downgrade`); if it is
gRPC-Web, the response writer and the reverse proxy take over and share the head, the
body and the end of the HTTP/1 response. A header map is its set of keys and the content type. The body
is a sequence of parts, cut wherever a lost connection makes a difference: after a
frame header, and between the status and the other trailers. `Cut` drops any number
of parts that the proxy has not read, with or without an error, and before the first
of them possibly the head. The gRPC server is that of `WSServer`; in addition it
flushes before it sets the status, which the response writer must ignore if nothing
was written. The HTTP/1 server's rules are part of `SendHeaders` and `Finish`: headers
are taken once, an empty body is announced by its length unless the map still holds
trailers, and a body shorter than its declared length is no proper end. The response
reader is taken by what `ResponseReaderProofs` shows about it (`Complete`).

A `Content-Length` that the application sets on a call without messages survives
`Finalize` and spoils a Trailers-Only response; `StatusArrives` leaves that case out.

### Downgrade

Operators, because a request is decided at once and nothing is kept: `ConnectOptions`
folds the options, `Request` is what arrives at the server, `Answer` the way out of its
handler. The reference (`Promise`) is the table of the repository's README, as the
integration tests spell it out (`TableSaysOK`), with the exception that the comment of
`ForceDowngrade` makes (`ForcedStreaming`), read off the options as they were given
and not off `connectOptions`. A path has an HTTP/1 proxy or not; the proxy passes or
drops `TE`, trailers and the upgrade independently. Nothing is promised in three cases:
the table is silent on proxies that pass `TE` and drop trailers, and on users who do not
force HTTP/2 where it cannot be negotiated; and for client streaming with
`ForceDowngrade` to a gRPC server without this library the table and the comment
contradict each other (see the findings). Worth knowing, and part of the model: the `TE` header that the `Director`
deletes comes back, because `httputil.ReverseProxy` restores it; `WithContentType` has
no effect with a WebSocket. `ExtraH2ALPNs` and `DialOpts` are passed on unread and left
out.

### GRPCMessage

Byte by byte, because which bytes are escaped is the whole function. `writeError` uses
it, and `ErrorTextArrives` compares what the gRPC client decodes with the text. A text
is any sequence of bytes; `RuneSize` is what `utf8.DecodeRuneInString` does with it,
including the second bytes that it refuses after 0xE0, 0xED, 0xF0 and 0xF4.

### SideChannelCreds

One process for each connection of the gRPC client, from the mutex to the return.
Reading the answer to CONNECT does not depend on the context: while the proxy does not
answer the call stays, and with it the mutex. Nothing makes the proxy answer, and
`HandshakesReturn` has to exclude a CONNECT without an answer. The server's identity is chosen anew at each handshake.
`sideConn` holds the calls under way with an open side channel. A connection whose CONNECT
fails stays open after its call has returned (`leaked`), and nobody has a reference to it
any more; `SideChannels` says that only an HTTP proxy that is asked to CONNECT can bring
this about.

### ClientConn

The listener is `Listener`, the specification that `PipeListener` implements; a
connection that is accepted goes through `ClientHandshake` if there is a TLS
configuration, and is closed if that fails. `http.Server.Close` is modelled with what
it misses: a listener that `Serve` has not registered yet, a connection between
`Accept` and its registration, and connections that h2c has taken over. They end because
`Serve` looks at the shutdown flag, and because the closed gRPC client closes its ends.
`EverythingEnds` does not speak of `ClientHandshake`: one that waits for the answer to its
CONNECT outlives the client.

## Runs

| Run | States | Result |
|---|---|---|
| `ws_reader` | 17 thousand | token, buffer, order, end of stream, stickiness; liveness of the reads and of the loop |
| `ws_reader_close` | | `Close` does not stop a read inside `ReadFrom` (finding 1) |
| `ws_server` | 3 thousand | frames, normal closure, keys, and the handler's return while the connection is up and the peer reads |
| `ws_server_stuck` | | the handler blocks when the connection fails (finding 2) |
| `ws_client` | 655 thousand | failures, statuses, end-of-stream messages, the refinement of `ResponseStream`, and that the call ends |
| `ws_client_status` | | a received status is replaced (finding 3) |
| `response_reader` | 43 thousand | exact payload, acceptance of exactly the well-formed bodies, reading ends |
| `response_reader_pending` | | unfinished trailers are read for ever (finding 4) |
| `signal_calls` | 58 thousand | channels, reports and waiters of a signal under every interleaving of its methods |
| `pipe_listener` | 54 thousand | the refinement of `Listener`, one successful `Close`, calls freed |
| `web_call` | 33 thousand | the form of a call against the documentation; a gRPC-Web response end to end: cut, complete, Trailers-Only; keys; error texts; the refinement of `ResponseStream`; the status arrives |
| `client_conn` | 136 thousand | one identity for all connections; a side channel only in the hands of who holds the mutex, or left open by a failed CONNECT; handshakes return; the proxy lives as long as its client, and all of it ends |

**Bounds.** `ws_reader`: scripts of up to three messages of at most seven bytes,
read sizes 2 and 5, so that a message takes one, two or three reads; each rule of
`doRead` is broken by one script, and a second message after the interesting one
shows what is left behind. `ws_server`: three messages with payloads of zero or
two bytes (with zero, an empty pipe write occurs), with and without headers sent
first. `TextLength` (what five characters of an error text declare as a length) is
1000; anything larger than the trailers behaves the same. `ws_client`: ten scripts,
one for each way through `readFromServer`; one request message is enough for a
request that is complete, cut off or not sent, and the two goroutines only meet
through the body, the connection and the error. `response_reader`: a response of
two messages and two trailers cut at each of its bytes, and twelve other bodies, most
of which break one rule; buffers of 4 bytes (less than a frame header) and 32 (more
than the body), and every split that these allow. `signal_calls`: three goroutines
(one that triggers, one that resets, one that waits) and two channels, so that a
waiter may hold the first while the second is current. `pipe_listener`: two
dialers compete for one acceptor while two closers race; calls repeat without bound.
`web_call`: two messages, so that a cut may fall before, between and after them; three
options, so that a kind may be set, taken back and combined with another; texts with
every kind of byte, whole and cut characters and something that looks escaped.
`client_conn`: two connections, so that one fails while the other waits for the mutex,
and one is accepted while the other is being registered or taken over; they are made
again without bound. Two identities, and two states of the client before the shutdown,
since only their change is seen.

Deadlock is not checked (and cannot occur in the pipe listener, where a context may
end at any time): a call ends, and then nothing moves. That nobody waits for ever
is stated by the liveness properties instead.

**Fairness.** Weak fairness for each goroutine of the code: the Go scheduler runs
what can run. In `WSReader` also for the calls of `Read`, because grpc-go reads the
body until an error; in `ResponseReader` for the reads of the reverse proxy's
copying loop. In `SignalCalls` and `PipeListener` nobody has to begin a call.
In `ClientConn` each handshake's entry into the mutex is strongly fair, because
`sync.Mutex` hands itself to a waiter that starves, and dialing and the TLS handshake
end, because gRPC gives each attempt a deadline; a gRPC client that is shut down closes
its connections and ends its dials, and before that it owes nothing. Peers, contexts,
`Close` and the application owe nothing. A peer may stall for ever: in `WSReader` and
`WSClient` liveness is stated from the moment the connection or the call's context ends,
in `WSServer` it excludes a stalled peer, and `HandshakesReturn` an HTTP proxy that never
answers; these are the places where the code itself has no timeout. What is assumed of the
gRPC client is that it takes what `WSClient` writes.

## Findings

1. `CloseStopsReads`: `ReadFrom` is bound to the request's context, not to
   `readCtx`, so `Close` does not "signal all reads to stop"
   (`websocket_reader.go:163`). grpc-go waits for its reading goroutine after
   closing the body, so a call whose peer stalls inside a message stays.
2. `PipeIsClosed`: when sending fails, nothing reads the pipe any more and nobody
   closes its read end; the handler, and with it the goroutine, blocks for ever.
   `HandlerReturns` therefore only speaks of a connection that is up (and of a peer that
   reads: there is no timeout for one that does not).
3. `TrailersPreserved`: `writeErrorIfNecessary` tests `Grpc-Status`, trailers are
   stored under `Trailer:Grpc-Status`. A server that ends a call before the client
   has half-closed it makes the writer fail, and its status is replaced by
   Unavailable. (`StatusMeansWholeResponse` still holds: what the client then sees
   is a transport error.)
4. `TrailersHandled`: an `io.EOF` from parsing the trailers is mistaken for the
   end of the body; `Read` returns `(0, nil)` for ever. `ReadsEnd` excludes
   exactly these bodies. If bytes follow such a frame, the next `Read` appends them to
   the stored beginning of the frame and may take them for its rest: then it ends
   with `io.EOF` and trailers that the server did not send. `EOFMeansComplete` excludes
   this case (`UnfinishedLine /\ GoesOn`), which came to light in the proof.

Met while modelling, without a run of their own:

* After headers without a `Trailer` header, `announcedTrailers` is nil, contrary to its
  comment (`response_writer.go:30-31`). Only a rejected request gets there (grpc-go
  always announces its status otherwise), and `Finalize` then sends no trailers frame
  after the text of the error, which happens to be right.
* `ForceDowngrade` only sets headers; a gRPC server without this library ignores them,
  answers as gRPC, and client streaming works, which the comment of the option denies
  (`options.go:64`) and the integration tests expect. `PromiseKept` claims nothing here.
* `PreferGRPCWeb` does not "always" count (`server/options.go:18-19`): client-streaming
  methods are exempt (`server.go:119`).
* The connection of a failed CONNECT is not closed (`side_channel_creds.go:99-107`; `leaked`
  in the model) and left to the garbage collector, and the proxy is looked up as for an
  `http://` URL although the endpoint speaks TLS.

## Proofs

`WSReaderProofs` proves six theorems for every set of scripts and every set of
positive read sizes (the assumptions of `WSReader`): `TypeCorrect`, `OneReader`,
`BarrierFree`, `Sticky`, `InOrder` and `EOFComplete`.

None of the properties is inductive. The argument has two layers:

* `TokInv`: the token is in at most one of three places: the channel, `readerLoop`
  between its two selects, `doRead` from the hand-over to line 132 (`TokenInv`). Who
  may ask for an `io.Reader` finds the last one drained (`DrainedInv`). `doRead`
  runs only while no `Read` has failed (`StickyInv`), and an unread rest belongs to
  the message in the buffer (`RangeInv`). After a failed read the token is lost for
  good; it is stickiness that makes this harmless.
* `OrderInv`: as long as no `Read` has failed, the message under way is the one
  after the buffer's (`NextInv`), and what was delivered ends exactly where the unread
  rest begins (`ProgressInv`). `CopyOrder` shows that one `copy` extends the delivered
  bytes without a gap; an `io.EOF` can only come from `ReadCheck`, because
  `readerLoop` never hands one over (`LoopResType`).

Both layers were checked as invariants of `ws_reader`'s instance first.

`SignalProofs`: for any number of goroutines and channels, `Accounted` and
`TrueReports`. `EachChannelAccounted` is inductive with the types; the reports need
`HitInv`: whoever looks at a channel has met the triggered signal or still holds
the current channel, which is open because every channel is accounted for.

`PipeListenerProofs`: for any number of dialers, acceptors and closers with
distinct roles (`DisjointRoles`), `OneClose` and `Refinement`. The invariant adds
`HeldInv`, that a nil pointer is never stale, because this signal is not reset;
`ClosedIsTriggered` follows and makes each refusal a step of `Listener`.

`TypeCorrect`, in both of them, adds that only who has won the swap closes a channel.

`ClientConnProofs`: for any number of transports and identities, `OneIdentity`,
`SideChannelsOwned`, `ProxyOutlivesClient` and `UsesListener`. `LockInv`: whoever
is past the mutex holds it, and nobody has an `AuthInfo` before the cache does;
`ConnectInv`: whoever waits for the answer to a CONNECT does so because there is an HTTP
proxy, so a connection that is left open was one to such a proxy;
`CloseInv`: only a client that is shut down makes somebody close the proxy.
`UsesListener` shows that each step uses the listener as `Listener` allows, which
together with `PipeListenerProofs!Refinement` justifies the composition.

`WSClientProofs`: for every set of scripts and number of requests, `NoFailureLost`,
`EndOfStreamIsTrue`, `NeverCutShort` and `Refinement` (of `ResponseStream`). `ErrorInv`:
between the swap of `errFlag` and the store of the error, one goroutine is about to
store it, and main leaves its loop only with an error, trailers or a status.
`WriteInv`: the writer has sent what it has taken. `ReadInv`: main has read the header,
the messages it has written and the trailers, in this order, and nothing in between.
`StatusInv` says where a status comes from. The mapping counts the data messages before
the first status; `StatusAtInv` says that this message exists, which the `CHOOSE` in it
needs.

`WSServerProofs`: for any number of messages of any size, `FramesIntact`,
`NormalMeansComplete` and `KeysSentOnce`. A response in transit is spread over the
outbox, the message buffer and the pipe. `WriterInv` names the six places where
`grpcwebsocket.Write` can be in a frame (`Placed`: between two, after the header, in the payload,
at its end, and two for the text of an HTTP error) and says for each what the buffer
and the pipe hold: together exactly the frames that are not yet sent. `ServeInv` and
`CloseInv` tie these frames to the header map, `EndInv` a normal closure to the end of
the pipe.

`WebCallProofs`: for any number of messages, `NeverCutShort`, `KeysSentOnce` and
`Refinement` (of `ResponseStream`). `ServerInv` distinguishes the four ways a response
takes (streamed, refused, nothing sent yet, all in the headers) and says what head,
body and header map are in each; `ProxyInv`, that the proxy has passed on what it has
taken, and that the call ended without a status or whole. A cut of the connection keeps
a prefix, which is all that `Frames` claims of the body.

Two more theorems there are about what a step computes rather than about the order of
steps, and take most of the module:

* `ErrorTextReadable`, for every set of texts. `Decoded`, `Repaired` and
  `encodeGrpcMessageUnchecked` are recursive functions over texts, which get shorter by a
  whole character, so induction is over the length (`TextInduction`, from `Least`), and
  `PieceByPiece` and `SamePieces` show that each of them satisfies its equation
  (`DecodeUnfold`, `RepairUnfold`, `EncodeUnfold`). `Decodes(x, r)` is the inductive
  statement: wherever `x` stands, the client decodes it to `r`. It holds of an escape and
  of a byte that is not escaped, hence of an encoded character, however many bytes it
  has, and hence of an encoded text (`TextArrives`). Of `RuneSize` only `RuneFits` is
  used: one to four bytes, and no more than there are; and that ASCII is one byte.
* `PromisesHold`, for lists of options of any length. `Settings` reads the last option of
  each kind, as the documentation does; `SettingsStep` shows that one more option changes
  it as its `apply` method does, and `OptionsInOrder`, by induction over the list, that
  `ConnectOptions`, a fold from the community modules, comes to the same. What is left
  is finite, one lemma for each kind of client: the request that arrives
  (`PlainRequest`, ...), the answer (`PlainClient`, ...) and the comparison with the table
  (`PlainPromised`, ...). The theorem claims nothing where `Promise` is "nothing".

`ResponseReaderProofs`: for every body, also one that is cut off or makes no sense, and
every size of the buffers, `DataOnly`, `NeverCutShort` and `CorrectBodyAccepted`.
The reference reads the body as a whole, by the recursive function `LastFrameEnd`; what
it computes is needed for every length of the body. The library's induction takes an
operator, which the provers cannot instantiate, so `SetInduction` states induction for
the set of the numbers that satisfy a predicate, and is derived from the library's fact
that a set of numbers has a least element (`Least`). `Iterate` builds the function,
`Unfold` shows that `LastFrameEnd` satisfies its equation, and `Frames` is all that the rest
uses: `DataFrames` is the only end of a frame at which no further one begins. The
invariant then says where in a frame `consume` is (`Parsing`: a partial header, or so
many bytes missing from a message that began at a frame's start), that chunk and buffer
are windows of the body, next to what was delivered (`ChunkInv`), and that the stored
bytes are those since the trailers frame began (`PendingInv`). That invariant is what
a first version of `EOFMeansComplete` failed (finding 4): after an unfinished line the stored
bytes and the rest of the body are no longer adjacent. If nothing follows the frame the
retry fails again (`InVain`), so a truncated body is never reported as complete.
`ReadMIMEHeader` is not unfolded; only its possible results are used.

The inductive invariants were checked by TLC on the instances of the runs before they
were proved. The assumptions are those of the modules (`ScriptsAssumption`,
`MaxMessagesAssumption`, ...): types of the constants and, for the listener, distinct
roles.

For the sake of the proofs some definitions have another form than one would write for
TLC alone: `Lists` in `WSClient` says that a sequence ascends and has given members,
instead of computing the sequence; `FramesInOrder` in `WSServer` compares each message
with the pieces of its frame.

Only model-checked: liveness (`LoopExits`, `ReadsComeToAnEnd`, `HandlerReturns`, `CallEnds`,
`ReadsEnd`, `StatusArrives`, `WaitersWake`, `CloseFreesCalls`, `HandshakesReturn` and
`EverythingEnds`), which needs fairness and `ENABLED`. Every other property of a passing
run is also a theorem.

## Not modelled

Logging, the wording of errors (the texts `ExtractResponseError` makes, `Split2`), TLS,
the HTTP transport and the read limit of 64 MB; compressed trailers (the only caller
passes no decompressor); in `WSClient`, that a message itself takes several steps;
in `WebCall`, the request, which the reverse proxy passes on unchanged. The WebSocket
client and server are not composed into one state machine: `WSClient` alone has 655
thousand states with a server that plays a script, and each of the three sides
(`WSReader`, `WSServer`, `WSClient`) is checked against an environment that may do
more than its partner does. The integration tests and the tools are not part of the
system.

## State of the project

All components are modelled, and every safety property and refinement that the runs check
is proved. When the code changes, the definitions that `PROJECT.json` maps to the changed
lines are the ones to revise; the runs show within minutes what still holds, and the
lemmas about the action concerned, one for each, are the only proofs to repair.
