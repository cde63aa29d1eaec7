--------------------------- MODULE SideChannelCreds ---------------------------
(***************************************************************************)
(* client/side_channel_creds.go: credentials that leave the connection to  *)
(* the in-process proxy alone and take their AuthInfo from a TLS handshake *)
(* with the server over a connection of their own, made once.              *)
(*                                                                         *)
(* ClientConn has the gRPC client call ClientHandshake for each connection *)
(* it makes.  External: the network, the HTTP proxy and the server, whose  *)
(* identity may change.                                                    *)
(***************************************************************************)
CONSTANTS Calls,      \* the gRPC client's connections
          Identities  \* the AuthInfo of the server, which may change

None == "none"

VARIABLES
  hsPc,      \* where each ClientHandshake is
  holder,    \* who holds authInfoMutex
  authInfo,  \* c.authInfo
  viaProxy,  \* ProxyFromEnvironment names a proxy
  sideConn,  \* the calls under way whose side channel is open
  leaked,    \* a side channel is open whose call has returned
  returned   \* every AuthInfo returned so far

vars == <<hsPc, holder, authInfo, viaProxy, sideConn, leaked, returned>>

TypeOK ==
    /\ hsPc \in [Calls -> {"idle", "lock", "dial", "connect", "handshake"}]
    /\ holder \in Calls \cup {None}
    /\ authInfo \in Identities \cup {None}
    /\ viaProxy \in BOOLEAN
    /\ sideConn \subseteq Calls
    /\ leaked \in BOOLEAN
    /\ returned \subseteq Identities

Init ==
    /\ hsPc = [c \in Calls |-> "idle"]
    /\ holder = None
    /\ authInfo = None
    /\ viaProxy \in BOOLEAN
    /\ sideConn = {}
    /\ leaked = FALSE
    /\ returned = {}

------------------------------------------------------------------------------
(* ClientHandshake                                                          *)

At(c, here) == hsPc[c] = here

Goto(c, there) == hsPc' = [hsPc EXCEPT ![c] = there]

\* A return that leaves the mutex locked after an error.
ReturnLocked(c, auth) ==
    /\ Goto(c, "idle")
    /\ holder' = IF auth = {} THEN holder ELSE None
    /\ returned' = returned \cup auth
    /\ UNCHANGED viaProxy

\* The deferred Unlock; auth is what is returned, nothing with an error.
Return(c, auth) ==
    /\ Goto(c, "idle")
    /\ holder' = None
    /\ returned' = returned \cup auth
    /\ UNCHANGED viaProxy

Begin(c) ==
    /\ At(c, "idle")
    /\ Goto(c, "lock")
    /\ UNCHANGED <<holder, authInfo, viaProxy, sideConn, leaked, returned>>

\* authInfoMutex.Lock()
MayEnter(c) == At(c, "lock") /\ holder = None

\* A handshake for each call.
HandshakeNeededAlways == TRUE

HandshakeNeeded == authInfo = None

Cached(c) ==
    /\ MayEnter(c)
    /\ ~HandshakeNeeded
    /\ Return(c, {authInfo})
    /\ UNCHANGED <<authInfo, sideConn, leaked>>

Enter(c) ==
    /\ MayEnter(c)
    /\ HandshakeNeeded
    /\ holder' = c
    /\ Goto(c, "dial")
    /\ UNCHANGED <<authInfo, viaProxy, sideConn, leaked, returned>>

\* DialContext, to the proxy or to the server.
Dial(c) ==
    /\ At(c, "dial")
    /\ sideConn' = sideConn \cup {c}
    /\ Goto(c, IF viaProxy THEN "connect" ELSE "handshake")
    /\ UNCHANGED <<holder, authInfo, viaProxy, leaked, returned>>

\* It fails or the context ends, or the proxy's URL cannot be found out.
DialErr(c) ==
    /\ At(c, "dial")
    /\ Return(c, {})
    /\ UNCHANGED <<authInfo, sideConn, leaked>>

\* http.ReadResponse after CONNECT, which does not look at the context: only an answer
\* ends it, and the proxy need not give one.
ConnectOk(c) ==
    /\ At(c, "connect")
    /\ Goto(c, "handshake")
    /\ UNCHANGED <<holder, authInfo, viaProxy, sideConn, leaked, returned>>

\* No answer but an error, a status other than 200, or bytes after the answer:
\* dialViaCONNECT returns without closing the connection, to which nobody has a
\* reference any more.
ConnectErr(c) ==
    /\ At(c, "connect")
    /\ sideConn' = sideConn \ {c}
    /\ leaked' = TRUE
    /\ Return(c, {})
    /\ UNCHANGED authInfo

\* A ClientHandshake without the deferred Close.
ClosedNever(c) == sideConn' = sideConn \ {c} /\ leaked' = TRUE

\* The deferred sideChannelConn.Close()
Closed(c) == sideConn' = sideConn \ {c} /\ UNCHANGED leaked

\* The identity is that of the server that is there now.
HandshakeOk(c) ==
    /\ At(c, "handshake")
    /\ Closed(c)
    /\ authInfo' \in Identities
    /\ Return(c, {authInfo'})

\* It fails, or the context has ended.
HandshakeErr(c) ==
    /\ At(c, "handshake")
    /\ Closed(c)
    /\ Return(c, {})
    /\ UNCHANGED authInfo

Lock(c) == Cached(c) \/ Enter(c)

\* The steps that leave the connection to the in-process proxy alone ...
Succeed(c) == Lock(c) \/ Dial(c) \/ ConnectOk(c) \/ HandshakeOk(c)

\* ... and those after which the caller closes it.
Fail(c) == DialErr(c) \/ ConnectErr(c) \/ HandshakeErr(c)
==============================================================================
