------------------------------ MODULE ClientConn ------------------------------
(***************************************************************************)
(* The connection that ConnectViaProxy returns, client/proxy.go:           *)
(* makeProxyServer starts the in-process proxy, dialGRPCServer connects a  *)
(* gRPC client to it through the listener of internal/pipeconn, with the   *)
(* credentials of SideChannelCreds, and closeServerOnConnShutdown closes   *)
(* the proxy when the client is closed.                                    *)
(*                                                                         *)
(* The listener is the one Listener specifies.  External: http.Server,     *)
(* whose Close leaves alone a listener that Serve has not registered, a    *)
(* connection that Serve has not registered yet and the connections that   *)
(* h2c has taken over; and the gRPC client, which dials as it likes, shakes*)
(* hands on each connection before it uses it, whose state never leaves    *)
(* Shutdown, and which then closes its connections.                        *)
(***************************************************************************)
CONSTANTS Transports,  \* the connections the gRPC client tries to have
          Identities   \* the AuthInfo of the server, which may change

Server == "Serve"

ASSUME ServerAssumption == Server \notin Transports
ASSUME IdentitiesAssumption == Identities # {} /\ "none" \notin Identities \cup Transports

VARIABLES
  open, status, result,  \* the listener
  mainPc,      \* where dialGRPCServer is
  cs,          \* the state of the gRPC client
  watchPc,     \* where closeServerOnConnShutdown is
  state,       \* its variable of that name
  servePc,     \* where srv.Serve is
  registered,  \* Serve has registered the listener
  inShutdown,  \* srv.Close has been called
  conn,        \* the server's end of each transport's connection
  clientOpen,  \* the transports whose end is open
  secure,      \* tlsClientConf # nil
  hsPc, holder, authInfo, viaProxy, sideConn, leaked, returned  \* the credentials

Lis == INSTANCE Listener WITH Dialers <- Transports, Acceptors <- {Server}

Creds == INSTANCE SideChannelCreds WITH Calls <- Transports

listenerVars == <<open, status, result>>
clientVars   == <<mainPc, cs, watchPc, state>>
serveVars    == <<servePc, registered, inShutdown>>
connVars     == <<conn, clientOpen>>
credVars     == <<secure, hsPc, holder, authInfo, viaProxy, sideConn, leaked,
                  returned>>
vars == <<listenerVars, clientVars, serveVars, connVars, credVars>>

\* Connecting, Ready and TransientFailure are told apart by nobody here.
States == {"Idle", "Busy", "Shutdown"}

TypeOK ==
    /\ open \in BOOLEAN
    /\ status \in [Transports \cup {Server} -> {"idle", "waiting", "late"}]
    /\ result \in [Transports \cup {Server} -> {"none", "conn", "ErrClosed", "ctx"}]
    /\ mainPc \in {"dial", "close", "failed", "up"}
    /\ cs \in States
    /\ watchPc \in {"none", "get", "wait", "close", "done"}
    /\ state \in States \ {"Shutdown"}
    /\ servePc \in {"start", "loop", "accept", "track", "return", "done"}
    /\ registered \in BOOLEAN
    /\ inShutdown \in BOOLEAN
    /\ conn \in [Transports -> {"none", "new", "tracked", "hijacked", "closed"}]
    /\ clientOpen \subseteq Transports
    /\ secure \in BOOLEAN
    /\ Creds!TypeOK

\* makeProxyServer has made the listener and the server, and started Serve.
Init ==
    /\ Lis!Init
    /\ secure \in BOOLEAN
    /\ Creds!Init
    /\ viaProxy => secure  \* nobody asks otherwise
    /\ mainPc = "dial"
    /\ cs = "Idle"
    /\ watchPc = "none"
    /\ state = "Idle"
    /\ servePc = "start"
    /\ registered = FALSE
    /\ inShutdown = FALSE
    /\ conn = [t \in Transports |-> "none"]
    /\ clientOpen = {}

------------------------------------------------------------------------------
(* srv.Serve(lis), in its goroutine                                         *)

ServeStart ==
    /\ servePc = "start"
    /\ registered' = ~inShutdown
    /\ servePc' = IF inShutdown THEN "return" ELSE "loop"
    /\ UNCHANGED <<listenerVars, clientVars, inShutdown, connVars, credVars>>

ServeAccept ==
    /\ servePc = "loop"
    /\ Lis!Begin(Server)
    /\ servePc' = "accept"
    /\ UNCHANGED <<clientVars, registered, inShutdown, connVars, credVars>>

\* Accept and the dialer of grpc.WithContextDialer meet; with transport credentials the
\* client calls ClientHandshake next.
Accepted(t) ==
    /\ servePc = "accept"
    /\ Lis!Meet(t, Server)
    /\ conn' = [conn EXCEPT ![t] = "new"]
    /\ clientOpen' = clientOpen \cup {t}
    /\ servePc' = "track"
    /\ \/ secure /\ Creds!Begin(t) /\ UNCHANGED secure
       \/ ~secure /\ UNCHANGED credVars
    /\ UNCHANGED <<clientVars, registered, inShutdown>>

\* The connection is registered, and served in a goroutine of its own.
ServeTrack(t) ==
    /\ servePc = "track"
    /\ conn[t] = "new"
    /\ conn' = [conn EXCEPT ![t] = "tracked"]
    /\ servePc' = "loop"
    /\ UNCHANGED <<listenerVars, clientVars, registered, inShutdown, clientOpen, credVars>>

ServeRefused ==
    /\ servePc = "accept"
    /\ Lis!Refuse(Server)
    /\ servePc' = "return"
    /\ UNCHANGED <<clientVars, registered, inShutdown, connVars, credVars>>

\* Serve closes the listener when it returns.
ServeReturn ==
    /\ servePc = "return"
    /\ open' = FALSE
    /\ servePc' = "done"
    /\ UNCHANGED <<status, result, clientVars, registered, inShutdown, connVars, credVars>>

\* h2c takes the connection over from the server when the client speaks HTTP/2, which
\* it does after the handshake.
Hijack(t) ==
    /\ conn[t] = "tracked"
    /\ hsPc[t] = "idle"
    /\ conn' = [conn EXCEPT ![t] = "hijacked"]
    /\ UNCHANGED <<listenerVars, clientVars, serveVars, clientOpen, credVars>>

\* The client's end is closed, so the server's is.
ConnEnds(t) ==
    /\ conn[t] \in {"tracked", "hijacked"}
    /\ t \notin clientOpen
    /\ conn' = [conn EXCEPT ![t] = "closed"]
    /\ UNCHANGED <<listenerVars, clientVars, serveVars, clientOpen, credVars>>

\* srv.Close()
CloseServer ==
    /\ inShutdown' = TRUE
    /\ open' = (open /\ ~registered)
    /\ conn' = [t \in Transports |-> IF conn[t] = "tracked" THEN "closed" ELSE conn[t]]
    /\ UNCHANGED <<status, result, cs, state, servePc, registered, clientOpen, credVars>>

------------------------------------------------------------------------------
(* The gRPC client                                                          *)

Dial(t) ==
    /\ cs # "Shutdown"
    /\ t \notin clientOpen
    /\ hsPc[t] = "idle"
    /\ conn[t] \in {"none", "closed"}
    /\ Lis!Begin(t)
    /\ UNCHANGED <<clientVars, serveVars, connVars, credVars>>

\* The listener refuses the dial, or its context ends.
DialEnds(t) ==
    /\ Lis!Refuse(t) \/ Lis!GiveUp(t)
    /\ UNCHANGED <<clientVars, serveVars, connVars, credVars>>

\* ClientHandshake on a connection, and the close of the connection if it fails.
Handshake(t) ==
    /\ \/ Creds!Succeed(t) /\ UNCHANGED clientOpen
       \/ Creds!Fail(t) /\ clientOpen' = clientOpen \ {t}
    /\ UNCHANGED <<listenerVars, clientVars, serveVars, conn, secure>>

\* The client closes a connection: it is broken, idle or no longer needed, or its
\* handshake takes too long.
CloseTransport(t) ==
    /\ t \in clientOpen
    /\ clientOpen' = clientOpen \ {t}
    /\ UNCHANGED <<listenerVars, clientVars, serveVars, conn, credVars>>

StateChanges ==
    /\ cs # "Shutdown"
    /\ cs' \in States \ {cs, "Shutdown"}
    /\ UNCHANGED <<listenerVars, mainPc, watchPc, state, serveVars, connVars, credVars>>

------------------------------------------------------------------------------
(* dialGRPCServer and closeServerOnConnShutdown                             *)

\* grpc.DialContext returns a client; the goroutine that watches it is started.
DialOk ==
    /\ mainPc = "dial"
    /\ mainPc' = "up"
    /\ watchPc' = "get"
    /\ UNCHANGED <<listenerVars, cs, state, serveVars, connVars, credVars>>

\* A dialGRPCServer that leaves the proxy alone when it fails.
AfterDialErrNothing == "failed"

\* An error is returned after proxy.Close().
AfterDialErr == "close"

\* grpc.DialContext fails, and has closed its client.
DialErr ==
    /\ mainPc = "dial"
    /\ mainPc' = AfterDialErr
    /\ cs' = "Shutdown"
    /\ UNCHANGED <<listenerVars, watchPc, state, serveVars, connVars, credVars>>

DialErrClose ==
    /\ mainPc = "close"
    /\ CloseServer
    /\ mainPc' = "failed"
    /\ UNCHANGED watchPc

\* The user closes the client.
UserClose ==
    /\ mainPc = "up"
    /\ cs # "Shutdown"
    /\ cs' = "Shutdown"
    /\ UNCHANGED <<listenerVars, mainPc, watchPc, state, serveVars, connVars, credVars>>

\* cc.GetState()
WatchGet ==
    /\ watchPc = "get"
    /\ \/ /\ cs = "Shutdown"
          /\ watchPc' = "close"
          /\ UNCHANGED state
       \/ /\ cs # "Shutdown"
          /\ watchPc' = "wait"
          /\ state' = cs
    /\ UNCHANGED <<listenerVars, mainPc, cs, serveVars, connVars, credVars>>

\* A function that waits for one change only.
AfterChangeClose == "close"

AfterChange == "get"

\* cc.WaitForStateChange
WatchWait ==
    /\ watchPc = "wait"
    /\ cs # state
    /\ watchPc' = AfterChange
    /\ UNCHANGED <<listenerVars, mainPc, cs, state, serveVars, connVars, credVars>>

WatchClose ==
    /\ watchPc = "close"
    /\ CloseServer
    /\ watchPc' = "done"
    /\ UNCHANGED mainPc

Serve == ServeStart \/ ServeAccept \/ (\E t \in Transports : ServeTrack(t)) \/ ServeRefused
           \/ ServeReturn

Watch == WatchGet \/ WatchWait \/ WatchClose \/ DialErrClose

Next ==
    \/ Serve \/ Watch
    \/ DialOk \/ DialErr \/ UserClose \/ StateChanges
    \/ \E t \in Transports : \/ Accepted(t) \/ Hijack(t) \/ ConnEnds(t)
                             \/ Dial(t) \/ DialEnds(t) \/ CloseTransport(t)
                             \/ Handshake(t)

Spec == Init /\ [][Next]_vars

Waiting(t) == hsPc[t] = "lock" /\ Handshake(t)

Running(t) == hsPc[t] # "connect" /\ Handshake(t)

\* The goroutines run; dials and connections of a client that is closed end; a
\* sync.Mutex lets everyone who waits in at last; dialing and the TLS handshake end, at
\* the latest when gRPC's deadline for the connection does.  The answer to a CONNECT may
\* never come.
FairSpec ==
    /\ Spec
    /\ WF_vars(Serve) /\ WF_vars(Watch)
    /\ \A t \in Transports :
         /\ SF_vars(Waiting(t)) /\ WF_vars(Running(t))
         /\ WF_vars(ConnEnds(t))
         /\ WF_vars(cs = "Shutdown" /\ DialEnds(t))
         /\ WF_vars(cs = "Shutdown" /\ CloseTransport(t))

------------------------------------------------------------------------------
(* Properties                                                               *)

\* All connections of the client report the same AuthInfo, though the server may change
\* between two calls of ClientHandshake: the first handshake that succeeds is the only
\* one.
AgreeOnAuthInfo == returned \subseteq {authInfo}

\* However many connections shake hands and however their handshakes end, at most one
\* ClientHandshake has a side channel, the one with the mutex; and a side channel is
\* still open after its call only if it went through an HTTP proxy, whose refusal is the
\* one way out on which the code forgets it.  (Those stay open, one for each refusal.)
SideChannels ==
    /\ \A t \in sideConn : holder = t /\ hsPc[t] \in {"connect", "handshake"}
    /\ leaked => viaProxy

\* If the HTTP proxy leaves no CONNECT without an answer for ever, every ClientHandshake
\* returns, however many fail before it and however many wait with it.
HandshakesReturn ==
    (\A t \in Transports : []<>(hsPc[t] # "connect")) =>
        \A t \in Transports : hsPc[t] = "lock" ~> hsPc[t] = "idle"

\* The proxy is there as long as its client is: nothing is refused or closed before the
\* client is shut down, whatever states it goes through on the way.
OpenWhileNeeded ==
    cs # "Shutdown" =>
        /\ open /\ ~inShutdown
        /\ servePc \notin {"return", "done"}
        /\ \A t \in Transports : result[t] # "ErrClosed"

\* When the client is shut down, or was never made, all of it goes away: Serve returns,
\* the listener is closed, no goroutine is left, no dial hangs and no connection is
\* open at either end, although the server's Close misses some of them.
EverythingEnds ==
    cs = "Shutdown" ~>
        /\ servePc = "done" /\ ~open
        /\ watchPc \in {"none", "done"}
        /\ clientOpen = {}
        /\ \A t \in Transports : status[t] = "idle" /\ conn[t] \in {"none", "closed"}
==============================================================================
