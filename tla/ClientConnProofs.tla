--------------------------- MODULE ClientConnProofs ---------------------------
(***************************************************************************)
(* Proofs about ClientConn, for any set of connections of the gRPC client  *)
(* and any identities of the server.                                       *)
(***************************************************************************)
EXTENDS ClientConn, TLAPS

\* authInfoMutex protects what it should: whoever is past it holds it, and there is no
\* AuthInfo, cached or returned, until that call has one.
LockInv ==
    /\ \A t \in Transports :
         hsPc[t] \in {"dial", "connect", "handshake"} => holder = t /\ authInfo = Creds!None
    /\ authInfo = Creds!None => returned = {}

\* Only a client that is shut down makes somebody close the proxy.
CloseInv ==
    watchPc = "close" \/ mainPc = "close" => cs = "Shutdown"

\* Only an HTTP proxy is asked to CONNECT.
ConnectInv == \A t \in Transports : hsPc[t] = "connect" => viaProxy

CredsInv == LockInv /\ ConnectInv /\ AgreeOnAuthInfo /\ SideChannels

Inv == TypeOK /\ CredsInv /\ CloseInv /\ OpenWhileNeeded
\* The initial states satisfy the invariant.
LEMMA InvInit == Init => Inv
<1> SUFFICES ASSUME Init PROVE Inv
    OBVIOUS
<1> USE DEF Init, Lis!Init, Lis!Callers, Creds!Init, Creds!None
<1>1. TypeOK
    BY DEF TypeOK, States, Creds!TypeOK
<1>2. CredsInv
    BY DEF CredsInv, LockInv, ConnectInv, AgreeOnAuthInfo, SideChannels
<1>3. CloseInv /\ OpenWhileNeeded
    BY DEF CloseInv, OpenWhileNeeded
<1> QED
    BY <1>1, <1>2, <1>3 DEF Inv

------------------------------------------------------------------------------
(* Types                                                                    *)

\* The steps of ClientHandshake keep the types of the credentials' variables.
LEMMA CredsTypeStep ==
    ASSUME Creds!TypeOK, NEW t \in Transports,
           Creds!Begin(t) \/ Creds!Succeed(t) \/ Creds!Fail(t)
    PROVE  Creds!TypeOK'
<1> USE DEF Creds!TypeOK, Creds!At, Creds!Goto, Creds!None, Creds!Return,
            Creds!MayEnter, Creds!HandshakeNeeded, Creds!Closed
<1>1. CASE Creds!Begin(t)
    BY <1>1 DEF Creds!Begin
<1>2. CASE Creds!Cached(t)
    BY <1>2 DEF Creds!Cached
<1>3. CASE Creds!Enter(t)
    BY <1>3 DEF Creds!Enter
<1>4. CASE Creds!Dial(t)
    BY <1>4 DEF Creds!Dial
<1>5. CASE Creds!ConnectOk(t)
    BY <1>5 DEF Creds!ConnectOk
<1>6. CASE Creds!HandshakeOk(t)
    BY <1>6 DEF Creds!HandshakeOk
<1>7. CASE Creds!DialErr(t)
    BY <1>7 DEF Creds!DialErr
<1>8. CASE Creds!ConnectErr(t)
    BY <1>8 DEF Creds!ConnectErr
<1>9. CASE Creds!HandshakeErr(t)
    BY <1>9 DEF Creds!HandshakeErr
<1> QED
    BY <1>1, <1>2, <1>3, <1>4, <1>5, <1>6, <1>7, <1>8, <1>9
    DEF Creds!Succeed, Creds!Fail, Creds!Lock

\* A step that leaves the credentials alone keeps their types.
LEMMA CredsTypeSame == Creds!TypeOK /\ UNCHANGED credVars => Creds!TypeOK'
BY DEF Creds!TypeOK, Creds!None, credVars

\* Every step keeps the types.
LEMMA TypeStep == Inv /\ [Next]_vars => TypeOK'
<1> SUFFICES ASSUME TypeOK, [Next]_vars PROVE TypeOK'
    BY DEF Inv
<1>0. Creds!TypeOK
    BY DEF TypeOK
<1> USE ServerAssumption DEF listenerVars, clientVars, serveVars, connVars, States
<1>1. ASSUME ServeStart PROVE TypeOK'
    BY <1>0, <1>1, CredsTypeSame DEF TypeOK, ServeStart, credVars
<1>2. ASSUME ServeAccept PROVE TypeOK'
    BY <1>0, <1>2, CredsTypeSame DEF TypeOK, ServeAccept, Lis!Begin, credVars
<1>3. ASSUME NEW t \in Transports, ServeTrack(t) PROVE TypeOK'
    BY <1>0, <1>3, CredsTypeSame DEF TypeOK, ServeTrack, credVars
<1>4. ASSUME ServeRefused PROVE TypeOK'
    BY <1>0, <1>4, CredsTypeSame DEF TypeOK, ServeRefused, Lis!Refuse, credVars
<1>5. ASSUME ServeReturn PROVE TypeOK'
    BY <1>0, <1>5, CredsTypeSame DEF TypeOK, ServeReturn, credVars
<1>6. ASSUME NEW t \in Transports, Accepted(t) PROVE TypeOK'
  <2>1. Creds!TypeOK' /\ secure' = secure
    BY <1>0, <1>6, CredsTypeSame, CredsTypeStep, Zenon DEF Accepted, credVars
  <2> QED
    BY <1>6, <2>1 DEF TypeOK, Accepted, Lis!Meet
<1>7. ASSUME NEW t \in Transports, Hijack(t) PROVE TypeOK'
    BY <1>0, <1>7, CredsTypeSame DEF TypeOK, Hijack, credVars
<1>8. ASSUME NEW t \in Transports, ConnEnds(t) PROVE TypeOK'
    BY <1>0, <1>8, CredsTypeSame DEF TypeOK, ConnEnds, credVars
<1>9. ASSUME NEW t \in Transports, Dial(t) PROVE TypeOK'
    BY <1>0, <1>9, CredsTypeSame DEF TypeOK, Dial, Lis!Begin, credVars
<1>10. ASSUME NEW t \in Transports, DialEnds(t) PROVE TypeOK'
    BY <1>0, <1>10, CredsTypeSame DEF TypeOK, DialEnds, Lis!Refuse, Lis!GiveUp, credVars
<1>11. ASSUME NEW t \in Transports, Handshake(t) PROVE TypeOK'
  <2>1. Creds!TypeOK'
    BY <1>0, <1>11, CredsTypeStep, Zenon DEF Handshake
  <2>2. clientOpen' \subseteq Transports
    BY <1>11 DEF TypeOK, Handshake
  <2> QED
    BY <1>11, <2>1, <2>2 DEF TypeOK, Handshake
<1>12. ASSUME NEW t \in Transports, CloseTransport(t) PROVE TypeOK'
    BY <1>0, <1>12, CredsTypeSame DEF TypeOK, CloseTransport, credVars
<1>13. ASSUME StateChanges PROVE TypeOK'
    BY <1>0, <1>13, CredsTypeSame DEF TypeOK, StateChanges, credVars
<1>14. ASSUME DialOk PROVE TypeOK'
    BY <1>0, <1>14, CredsTypeSame DEF TypeOK, DialOk, credVars
<1>15. ASSUME DialErr PROVE TypeOK'
    BY <1>0, <1>15, CredsTypeSame DEF TypeOK, DialErr, AfterDialErr, credVars
<1>16. ASSUME UserClose PROVE TypeOK'
    BY <1>0, <1>16, CredsTypeSame DEF TypeOK, UserClose, credVars
<1>17. ASSUME WatchGet PROVE TypeOK'
    BY <1>0, <1>17, CredsTypeSame DEF TypeOK, WatchGet, credVars
<1>18. ASSUME WatchWait PROVE TypeOK'
    BY <1>0, <1>18, CredsTypeSame DEF TypeOK, WatchWait, AfterChange, credVars
<1>19. ASSUME WatchClose PROVE TypeOK'
    BY <1>0, <1>19, CredsTypeSame DEF TypeOK, WatchClose, CloseServer, credVars
<1>20. ASSUME DialErrClose PROVE TypeOK'
    BY <1>0, <1>20, CredsTypeSame DEF TypeOK, DialErrClose, CloseServer, credVars
<1>21. ASSUME UNCHANGED vars PROVE TypeOK'
    BY <1>0, <1>21, CredsTypeSame DEF TypeOK, vars, credVars
<1> QED
    BY <1>1, <1>2, <1>3, <1>4, <1>5, <1>6, <1>7, <1>8, <1>9, <1>10, <1>11, <1>12,
       <1>13, <1>14, <1>15, <1>16, <1>17, <1>18, <1>19, <1>20, <1>21, Zenon
    DEF Next, Serve, Watch

------------------------------------------------------------------------------
(* The credentials                                                          *)

\* What the steps of one ClientHandshake do to the mutex, the side channels and the
\* AuthInfo.
LEMMA HandshakeKeepsCredsInv ==
    ASSUME Creds!TypeOK, CredsInv, NEW t \in Transports,
           Creds!Begin(t) \/ Creds!Succeed(t) \/ Creds!Fail(t)
    PROVE  CredsInv'
<1> USE IdentitiesAssumption
    DEF Creds!TypeOK, CredsInv, LockInv, ConnectInv, AgreeOnAuthInfo, SideChannels,
        Creds!At, Creds!Goto, Creds!None, Creds!Return,
        Creds!MayEnter, Creds!HandshakeNeeded, Creds!Closed
<1>1. CASE Creds!Begin(t)
    BY <1>1 DEF Creds!Begin
<1>2. CASE Creds!Cached(t)
    BY <1>2 DEF Creds!Cached
<1>3. CASE Creds!Enter(t)
    BY <1>3 DEF Creds!Enter
<1>4. CASE Creds!Dial(t)
    BY <1>4 DEF Creds!Dial
<1>5. CASE Creds!ConnectOk(t)
    BY <1>5 DEF Creds!ConnectOk
<1>6. CASE Creds!HandshakeOk(t)
    BY <1>6 DEF Creds!HandshakeOk
<1>7. CASE Creds!DialErr(t)
    BY <1>7 DEF Creds!DialErr
<1>8. CASE Creds!ConnectErr(t)
    BY <1>8 DEF Creds!ConnectErr
<1>9. CASE Creds!HandshakeErr(t)
    BY <1>9 DEF Creds!HandshakeErr
<1> QED
    BY <1>1, <1>2, <1>3, <1>4, <1>5, <1>6, <1>7, <1>8, <1>9, Zenon
    DEF Creds!Succeed, Creds!Fail, Creds!Lock

\* A step of anybody else leaves alone what the invariant speaks of.
CredsSame == UNCHANGED <<hsPc, holder, authInfo, viaProxy, sideConn, leaked, returned>>

\* Every step keeps the credentials' part of the invariant.
LEMMA CredsStep == Inv /\ [Next]_vars => CredsInv'
<1> SUFFICES ASSUME Inv, [Next]_vars PROVE CredsInv'
    OBVIOUS
<1>0. Creds!TypeOK /\ CredsInv
    BY DEF Inv, TypeOK
<1>1. ASSUME CredsSame PROVE CredsInv'
    BY <1>0, <1>1
    DEF CredsInv, LockInv, ConnectInv, AgreeOnAuthInfo, SideChannels, CredsSame, Creds!None
<1>2. ASSUME NEW t \in Transports, Accepted(t) PROVE CredsInv'
  <2>1. CASE UNCHANGED credVars
    BY <1>1, <2>1 DEF credVars, CredsSame
  <2>2. CASE Creds!Begin(t)
    BY <1>0, <2>2, HandshakeKeepsCredsInv
  <2> QED
    BY <1>2, <2>1, <2>2, Zenon DEF Accepted
<1>3. ASSUME NEW t \in Transports, Handshake(t) PROVE CredsInv'
    BY <1>0, <1>3, HandshakeKeepsCredsInv, Zenon DEF Handshake
<1>4. ASSUME Serve \/ Watch \/ DialOk \/ DialErr \/ UserClose \/ StateChanges
      PROVE CredsSame
    BY <1>4
    DEF Serve, ServeStart, ServeAccept, ServeTrack, ServeRefused, ServeReturn,
        Watch, WatchGet, WatchWait, WatchClose, DialErrClose, CloseServer,
        DialOk, DialErr, UserClose, StateChanges, credVars, CredsSame
<1>5. ASSUME NEW t \in Transports,
             Hijack(t) \/ ConnEnds(t) \/ Dial(t) \/ DialEnds(t) \/ CloseTransport(t)
      PROVE CredsSame
    BY <1>5 DEF Hijack, ConnEnds, Dial, DialEnds, CloseTransport, credVars, CredsSame
<1>6. ASSUME UNCHANGED vars PROVE CredsSame
    BY <1>6 DEF vars, credVars, CredsSame
<1> QED
    BY <1>1, <1>2, <1>3, <1>4, <1>5, <1>6, Zenon DEF Next

------------------------------------------------------------------------------
(* The proxy's life                                                         *)

\* What a step does that leaves the proxy alone: the client is shut down if it was,
\* nobody begins to close the proxy or is refused.
ProxySame ==
    /\ cs = "Shutdown" => cs' = "Shutdown"
    /\ UNCHANGED <<open, inShutdown>>
    /\ watchPc' = "close" => watchPc = "close"
    /\ mainPc' = "close" => mainPc = "close"
    /\ servePc' \in {"return", "done"} => servePc \in {"return", "done"}
    /\ \A t \in Transports : result'[t] = "ErrClosed" => result[t] = "ErrClosed"

\* Such a step keeps the proxy's part of the invariant.
LEMMA ProxySameStep == CloseInv /\ OpenWhileNeeded /\ ProxySame => CloseInv' /\ OpenWhileNeeded'
BY DEF CloseInv, OpenWhileNeeded, ProxySame

\* The proxy is closed only after the client is shut down.
LEMMA ProxyStep == Inv /\ [Next]_vars => CloseInv' /\ OpenWhileNeeded'
<1> SUFFICES ASSUME Inv, [Next]_vars PROVE CloseInv' /\ OpenWhileNeeded'
    OBVIOUS
<1>0. TypeOK /\ CloseInv /\ OpenWhileNeeded
    BY DEF Inv
<1> USE ServerAssumption DEF listenerVars, clientVars, serveVars, connVars
<1>1. ASSUME ServeStart PROVE CloseInv' /\ OpenWhileNeeded'
    BY <1>0, <1>1 DEF CloseInv, OpenWhileNeeded, ServeStart
<1>2. ASSUME ServeAccept PROVE ProxySame
    BY <1>0, <1>2 DEF TypeOK, ServeAccept, Lis!Begin, ProxySame
<1>3. ASSUME NEW t \in Transports, ServeTrack(t) PROVE ProxySame
    BY <1>3 DEF ServeTrack, ProxySame
<1>4. ASSUME ServeRefused PROVE CloseInv' /\ OpenWhileNeeded'
    BY <1>0, <1>4 DEF CloseInv, OpenWhileNeeded, ServeRefused, Lis!Refuse
<1>5. ASSUME ServeReturn PROVE CloseInv' /\ OpenWhileNeeded'
    BY <1>0, <1>5 DEF CloseInv, OpenWhileNeeded, ServeReturn
<1>6. ASSUME NEW t \in Transports, Accepted(t) PROVE ProxySame
    BY <1>0, <1>6 DEF TypeOK, Accepted, Lis!Meet, ProxySame
<1>7. ASSUME NEW t \in Transports, Hijack(t) \/ ConnEnds(t) \/ CloseTransport(t)
      PROVE ProxySame
    BY <1>7 DEF Hijack, ConnEnds, CloseTransport, ProxySame
<1>8. ASSUME NEW t \in Transports, Dial(t) PROVE ProxySame
    BY <1>0, <1>8 DEF TypeOK, Dial, Lis!Begin, ProxySame
<1>9. ASSUME NEW t \in Transports, DialEnds(t) PROVE CloseInv' /\ OpenWhileNeeded'
  <2>1. CASE Lis!Refuse(t)
    BY <1>0, <1>9, <2>1 DEF CloseInv, OpenWhileNeeded, DialEnds, Lis!Refuse
  <2>2. CASE Lis!GiveUp(t)
    <3>1. ProxySame
        BY <1>0, <1>9, <2>2 DEF TypeOK, DialEnds, Lis!GiveUp, ProxySame
    <3> QED
        BY <1>0, <3>1, ProxySameStep
  <2> QED
    BY <1>9, <2>1, <2>2 DEF DialEnds
<1>10. ASSUME NEW t \in Transports, Handshake(t) PROVE ProxySame
    BY <1>10 DEF Handshake, ProxySame
<1>11. ASSUME StateChanges PROVE ProxySame
    BY <1>11 DEF StateChanges, ProxySame
<1>12. ASSUME DialOk PROVE ProxySame
    BY <1>12 DEF DialOk, ProxySame
<1>13. ASSUME DialErr \/ UserClose PROVE CloseInv' /\ OpenWhileNeeded'
    BY <1>13 DEF DialErr, UserClose, CloseInv, OpenWhileNeeded
<1>14. ASSUME WatchGet PROVE CloseInv' /\ OpenWhileNeeded'
    BY <1>0, <1>14 DEF CloseInv, OpenWhileNeeded, WatchGet
<1>15. ASSUME WatchWait PROVE ProxySame
    BY <1>15 DEF WatchWait, AfterChange, ProxySame
<1>16. ASSUME WatchClose \/ DialErrClose PROVE CloseInv' /\ OpenWhileNeeded'
    BY <1>0, <1>16 DEF CloseInv, OpenWhileNeeded, WatchClose, DialErrClose, CloseServer
<1>17. ASSUME UNCHANGED vars PROVE ProxySame
    BY <1>17 DEF vars, ProxySame
<1> QED
    BY <1>0, ProxySameStep, <1>1, <1>2, <1>3, <1>4, <1>5, <1>6, <1>7, <1>8, <1>9, <1>10,
       <1>11, <1>12, <1>13, <1>14, <1>15, <1>16, <1>17, Zenon
    DEF Next, Serve, Watch

------------------------------------------------------------------------------
(* Theorems                                                                 *)

\* The inductive invariant holds in every behaviour.
LEMMA InvHolds == Spec => []Inv
<1>1. Inv /\ [Next]_vars => Inv'
    BY TypeStep, CredsStep, ProxyStep DEF Inv
<1> QED
    BY <1>1, InvInit, PTL DEF Spec

\* However many ClientHandshakes race or fail, and whatever the server becomes between
\* two of them, all connections of the client report one AuthInfo.
THEOREM OneIdentity == Spec => []AgreeOnAuthInfo
BY InvHolds, PTL DEF Inv, CredsInv

\* authInfoMutex lets one ClientHandshake at a time have a side channel.  A call that
\* dials the server itself never leaves one open when it returns; one that goes through
\* an HTTP proxy may, as dialViaCONNECT does not close what it gives up.
THEOREM SideChannelsOwned == Spec => []SideChannels
BY InvHolds, PTL DEF Inv, CredsInv

\* Neither dialGRPCServer nor closeServerOnConnShutdown closes the proxy before the
\* client is shut down, and no dial is refused until then.
THEOREM ProxyOutlivesClient == Spec => []OpenWhileNeeded
BY InvHolds, PTL DEF Inv

\* The gRPC client and srv.Serve use the listener as its specification allows: so they
\* may be given the one of internal/pipeconn, which PipeListenerProofs shows to implement
\* that specification.
THEOREM UsesListener == Spec => Lis!Spec
<1> USE ServerAssumption DEF listenerVars, clientVars, serveVars, connVars, Lis!Callers
<1>1. Init => Lis!Init
    BY DEF Init
<1>2. ASSUME TypeOK, [Next]_vars PROVE [Lis!Next]_(Lis!vars)
  <2>1. ASSUME ServeAccept PROVE Lis!Begin(Server)
    BY <2>1 DEF ServeAccept
  <2>2. ASSUME ServeRefused PROVE Lis!Refuse(Server)
    BY <2>2 DEF ServeRefused
  <2>3. ASSUME ServeReturn PROVE Lis!Close \/ UNCHANGED Lis!vars
    BY <1>2, <2>3 DEF ServeReturn, Lis!Close, Lis!vars, TypeOK
  <2>4. ASSUME NEW t \in Transports, Accepted(t) PROVE Lis!Meet(t, Server)
    BY <2>4 DEF Accepted
  <2>5. ASSUME NEW t \in Transports, Dial(t) PROVE Lis!Begin(t)
    BY <2>5 DEF Dial
  <2>6. ASSUME NEW t \in Transports, DialEnds(t) PROVE Lis!Refuse(t) \/ Lis!GiveUp(t)
    BY <2>6 DEF DialEnds
  <2>7. ASSUME WatchClose \/ DialErrClose PROVE Lis!Close \/ UNCHANGED Lis!vars
    BY <1>2, <2>7 DEF WatchClose, DialErrClose, CloseServer, Lis!Close, Lis!vars, TypeOK
  <2>8. ASSUME ServeStart \/ WatchGet \/ WatchWait \/ DialOk \/ DialErr \/ UserClose
                 \/ StateChanges
        PROVE UNCHANGED Lis!vars
    BY <2>8 DEF ServeStart, WatchGet, WatchWait, DialOk, DialErr, UserClose, StateChanges,
                Lis!vars
  <2>9. ASSUME NEW t \in Transports,
               ServeTrack(t) \/ Hijack(t) \/ ConnEnds(t) \/ CloseTransport(t) \/ Handshake(t)
        PROVE UNCHANGED Lis!vars
    BY <2>9 DEF ServeTrack, Hijack, ConnEnds, CloseTransport, Handshake, Lis!vars
  <2>10. ASSUME UNCHANGED vars PROVE UNCHANGED Lis!vars
    BY <2>10 DEF vars, Lis!vars
  <2>11. \A t \in Transports : t \in Lis!Callers
    BY DEF Lis!Callers
  <2>12. Server \in Lis!Callers /\ Server \in {Server}
    BY DEF Lis!Callers
  <2> HIDE DEF Lis!Callers
  <2> QED
    BY <1>2, <2>1, <2>2, <2>3, <2>4, <2>5, <2>6, <2>7, <2>8, <2>9, <2>10, <2>11, <2>12, Zenon
    DEF Next, Serve, Watch, Lis!Next
<1> QED
    BY <1>1, <1>2, InvHolds, PTL DEF Spec, Lis!Spec, Inv
==============================================================================
