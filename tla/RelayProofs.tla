---------------------------- MODULE RelayProofs ----------------------------
(***************************************************************************)
(* Relay, for every number of tokens, objects, clients and ports.  The     *)
(* inductive invariant says what the map and the sockets mean for the      *)
(* objects (Owned), and whose addresses an object can have (Peers):        *)
(* addresses come from packets, and a packet carries its session's token   *)
(* and comes from a client that has learned its WireGuard's address.       *)
(***************************************************************************)
EXTENDS Relay, TLAPS

\* What is in the map is registered under its own token; only objects that have a
\* socket are closed.
Owned ==
    /\ \A t \in Tokens : sessions[t] # None =>
        obj[sessions[t]].state = "registered" /\ obj[sessions[t]].token = t
    /\ \A o \in Objects : obj[o].state # "unused" => obj[o].token # None
    /\ \A o \in Objects : obj[o].state = "closing" => obj[o].rawConn

\* The addresses of relay clients that an object has.
PeersKnown ==
    /\ sent \subseteq wgPeer
    /\ slow # None => slow.client \in wgPeer
    /\ \A o \in Objects :
        /\ obj[o].peerA # None => obj[o].peerA \in wgPeer
        /\ obj[o].peerB # None => obj[o].peerB \in wgPeer
        /\ obj[o].peerB # None => obj[o].peerA # None /\ obj[o].peerA # obj[o].peerB

RelayInv == TypeOK /\ Owned /\ SocketOwner /\ PeersKnown

\* The packet routed last.
Routed == RoutedIsPassedOn /\ MainForwardsRegistered

LEMMA InitInv == Init => RelayInv /\ Routed
BY RelayAssumption DEF Init, RelayInv, Routed, TypeOK, Owned, SocketOwner, PeersKnown,
    RoutedIsPassedOn, MainForwardsRegistered, newObject, Object

\* A garbage object has no entry and no socket, and no goroutine has it in hand.
LEMMA BindStep ==
    ASSUME RelayInv, NEW o \in Objects, NEW t \in Tokens, RegisterSessionBind(o, t)
    PROVE  RelayInv' /\ Routed'
<1> USE RelayAssumption DEF RelayInv, RegisterSessionBind
<1>1. RawPortForToken[t] \in RawPorts
  OBVIOUS
<1>2. TypeOK'
  <2>1. PICK b \in BOOLEAN : b = (rawSocket[RawPortForToken[t]] = None)
    OBVIOUS
  <2>2. newObject("registering", t, b) \in Object
    BY DEF newObject, Object
  <2>3. obj' = [obj EXCEPT ![o] = newObject("registering", t, b)]
    BY <2>1
  <2> QED BY <1>1, <2>2, <2>3 DEF TypeOK, clientVars
<1>3. Owned'
  BY DEF TypeOK, Owned, newObject, garbage, clientVars
<1>4. SocketOwner'
  <2> SUFFICES ASSUME NEW q \in Objects,
                      obj'[q].state \in {"registering", "registered", "closing"},
                      obj'[q].rawConn
               PROVE  rawSocket'[RawPortForToken[obj'[q].token]] = q
    BY DEF SocketOwner
  <2>1. CASE q = o
    <3>1. obj'[q] = newObject("registering", t, rawSocket[RawPortForToken[t]] = None)
      BY <2>1 DEF TypeOK
    <3> QED BY <1>1, <2>1, <3>1 DEF TypeOK, newObject
  <2>2. CASE q # o
    <3>1. obj'[q] = obj[q] /\ obj[q].token \in Tokens
      BY <2>2 DEF TypeOK, Owned, Object
    <3>2. rawSocket[RawPortForToken[obj[q].token]] = q
      BY <3>1 DEF SocketOwner
    <3> QED BY <1>1, <3>1, <3>2 DEF TypeOK
  <2> QED BY <2>1, <2>2
<1>5. PeersKnown'
  BY DEF TypeOK, PeersKnown, newObject, clientVars
<1>6. Routed'
  BY DEF Routed, RoutedIsPassedOn, MainForwardsRegistered
<1> QED BY <1>2, <1>3, <1>4, <1>5, <1>6

LEMMA InsertStep ==
    ASSUME RelayInv, NEW o \in Objects, RegisterSessionInsert(o)
    PROVE  RelayInv' /\ Routed'
<1> USE RelayAssumption DEF RelayInv, RegisterSessionInsert
<1>1. obj[o].token \in Tokens
  BY DEF TypeOK, Object, Owned
<1>2. TypeOK'
  BY <1>1 DEF TypeOK, Object, clientVars
<1>3. Owned'
  BY <1>1 DEF TypeOK, Owned, clientVars, Object
<1>4. SocketOwner'
  BY DEF TypeOK, SocketOwner, clientVars, Object
<1>5. PeersKnown'
  BY DEF TypeOK, PeersKnown, clientVars, Object
<1>6. Routed'
  BY DEF Routed, RoutedIsPassedOn, MainForwardsRegistered
<1> QED BY <1>2, <1>3, <1>4, <1>5, <1>6

\* InvalidateSession takes a registered object out of the map.
LEMMA InvalidateStep ==
    ASSUME RelayInv, NEW t \in Tokens, InvalidateSession(t)
    PROVE  RelayInv' /\ Routed'
<1> USE RelayAssumption DEF RelayInv, InvalidateSession
<1>1. sessions[t] \in Objects
  BY DEF TypeOK
<1>2. TypeOK'
  BY <1>1 DEF TypeOK, Object, clientVars
<1>3. Owned'
  BY <1>1 DEF TypeOK, Owned, clientVars, Object
<1>4. SocketOwner'
  BY <1>1 DEF TypeOK, SocketOwner, Owned, clientVars, Object
<1>5. PeersKnown'
  BY <1>1 DEF TypeOK, PeersKnown, clientVars, Object
<1>6. Routed'
  BY DEF Routed, RoutedIsPassedOn, MainForwardsRegistered
<1> QED BY <1>2, <1>3, <1>4, <1>5, <1>6

LEMMA CloseStep ==
    ASSUME RelayInv, NEW o \in Objects, CloseRawConn(o)
    PROVE  RelayInv' /\ Routed'
<1> USE RelayAssumption DEF RelayInv, CloseRawConn
<1>1. obj[o].token \in Tokens /\ obj[o].rawConn
  BY DEF TypeOK, Object, Owned
<1>2. TypeOK'
  BY <1>1 DEF TypeOK, Object, clientVars
<1>3. Owned'
  BY <1>1 DEF TypeOK, Owned, clientVars, Object
<1>4. SocketOwner'
  BY <1>1 DEF TypeOK, SocketOwner, Owned, clientVars, Object
<1>5. PeersKnown'
  BY DEF TypeOK, PeersKnown, clientVars, Object
<1>6. Routed'
  BY DEF Routed, RoutedIsPassedOn, MainForwardsRegistered
<1> QED BY <1>2, <1>3, <1>4, <1>5, <1>6

LEMMA ReapStep ==
    ASSUME RelayInv, NEW t \in Tokens, reapIdleSession(t)
    PROVE  RelayInv' /\ Routed'
<1> USE RelayAssumption DEF RelayInv, reapIdleSession
<1>1. sessions[t] \in Objects /\ obj[sessions[t]].token = t
      /\ obj[sessions[t]].state = "registered"
  BY DEF TypeOK, Owned
<1>2. TypeOK'
  <2>1. obj' \in [Objects -> Object]
    BY <1>1 DEF TypeOK, Object
  <2>2. rawSocket' \in [RawPorts -> Objects \cup {None}]
    BY <1>1 DEF TypeOK
  <2> QED BY <2>1, <2>2 DEF TypeOK, clientVars
<1>3. Owned'
  BY <1>1 DEF TypeOK, Owned, clientVars, Object
<1>4. SocketOwner'
  BY <1>1 DEF TypeOK, SocketOwner, Owned, clientVars, Object
<1>5. PeersKnown'
  BY <1>1 DEF TypeOK, PeersKnown, clientVars, Object
<1>6. Routed'
  BY DEF Routed, RoutedIsPassedOn, MainForwardsRegistered
<1> QED BY <1>2, <1>3, <1>4, <1>5, <1>6

\* serveRaw only ever has a raw client's address in hand.
LEMMA RawStep ==
    ASSUME RelayInv,
           \/ \E w \in RawClients : serveRawRead(w)
           \/ \E o \in Objects : serveRaw(o)
    PROVE  RelayInv' /\ Routed'
<1> USE RelayAssumption DEF RelayInv
<1>1. CASE \E w \in RawClients : serveRawRead(w)
  <2> PICK w \in RawClients : serveRawRead(w)
    BY <1>1
  <2> PICK o \in Objects : o = rawSocket[RawPortForToken[tokenOf[w]]]
    BY DEF serveRawRead, TypeOK
  <2>1. /\ obj' = [obj EXCEPT ![o].raddr = w]
        /\ out' = None
        /\ UNCHANGED <<sessions, rawSocket, slow, wgPeer, sent>>
    BY DEF serveRawRead, clientVars
  <2>2. TypeOK'
    BY <2>1 DEF TypeOK, Object
  <2>3. Owned'
    BY <2>1 DEF TypeOK, Object, Owned
  <2>4. SocketOwner'
    BY <2>1 DEF TypeOK, Object, SocketOwner
  <2>5. PeersKnown'
    BY <2>1 DEF TypeOK, Object, PeersKnown
  <2> QED BY <2>1, <2>2, <2>3, <2>4, <2>5 DEF Routed, RoutedIsPassedOn, MainForwardsRegistered
<1>2. CASE \E o \in Objects : serveRaw(o)
  <2> PICK o \in Objects : serveRaw(o)
    BY <1>2
  <2>1. /\ obj' = [obj EXCEPT ![o].renterAddr = obj[o].raddr, ![o].raddr = None]
        /\ obj[o].raddr # None
        /\ UNCHANGED <<sessions, rawSocket, slow, wgPeer, sent>>
    BY DEF serveRaw, clientVars
  <2>2. TypeOK'
    BY <2>1 DEF TypeOK, Object, serveRaw, Packet
  <2>3. Owned' /\ SocketOwner' /\ PeersKnown'
    BY <2>1 DEF TypeOK, Object, Owned, SocketOwner, PeersKnown
  <2>4. Routed'
    BY <2>1 DEF Routed, RoutedIsPassedOn, MainForwardsRegistered, serveRaw, PeersKnown,
        inboundForwards, TypeOK, Object
  <2> QED BY <2>2, <2>3, <2>4
<1> QED BY <1>1, <1>2

LEMMA OutboundStep ==
    ASSUME RelayInv, NEW a \in Clients, Outbound(a)
    PROVE  RelayInv' /\ Routed'
BY DEF RelayInv, Outbound, TypeOK, Owned, SocketOwner, PeersKnown, Routed,
    RoutedIsPassedOn, MainForwardsRegistered, Object

\* A packet goes to a client, or nowhere.
LEMMA TargetTyped ==
    ASSUME NEW r \in Object, NEW a \in Clients
    PROVE  target(r, a) \in Clients \cup RawClients \cup {None}
BY DEF target, Object

LEMMA FastStep ==
    ASSUME RelayInv, NEW a \in Clients, serveFast(a)
    PROVE  RelayInv' /\ Routed'
<1> USE RelayAssumption DEF RelayInv
<1>1. PICK o \in Objects : o = sessions[tokenOf[a]]
  BY DEF serveFast, findSessionByTokenID, TypeOK
<1>2. /\ obj[o].token = tokenOf[a] /\ obj[o] \in Object /\ tokenOf[a] \in Tokens
      /\ a \in sent
  BY <1>1 DEF Owned, TypeOK, serveFast, findSessionByTokenID
<1>3. UNCHANGED <<sessions, obj, rawSocket, wgPeer, sent>>
  BY DEF serveFast, clientVars
<1>4. CASE needsWrite(obj[o], a)
  <2>1. slow' = [client |-> a, sess |-> o] /\ out' = None
    BY <1>1, <1>4 DEF serveFast, findSessionByTokenID
  <2>2. TypeOK' /\ Owned' /\ SocketOwner'
    BY <1>3, <2>1 DEF TypeOK, Owned, SocketOwner
  <2>3. PeersKnown'
    BY <1>2, <1>3, <2>1 DEF PeersKnown
  <2> QED BY <2>1, <2>2, <2>3 DEF Routed, RoutedIsPassedOn, MainForwardsRegistered
<1>5. CASE ~needsWrite(obj[o], a)
  <2>1. Forward(o, obj[o], a) /\ slow' = slow
    BY <1>1, <1>5 DEF serveFast, findSessionByTokenID
  <2>2. out' \in Packet \cup {None}
    BY <1>2, <2>1, TargetTyped DEF Forward, Packet
  <2>3. TypeOK' /\ Owned' /\ SocketOwner' /\ PeersKnown'
    BY <1>3, <2>1, <2>2 DEF TypeOK, Owned, SocketOwner, PeersKnown
  <2>4. RoutedIsPassedOn'
    <3> SUFFICES ASSUME out' # None, out'.dst \in Clients
                 PROVE  out'.dst \in wgPeer
      BY <1>3 DEF RoutedIsPassedOn, inboundForwards
    <3>1. out'.dst = target(obj[o], a) /\ target(obj[o], a) # None
      BY <2>1 DEF Forward
    <3> QED BY <1>2, <3>1 DEF target, PeersKnown, Object
  <2>5. MainForwardsRegistered'
    BY <1>1, <1>2, <1>3, <2>1 DEF MainForwardsRegistered, Forward
  <2> QED BY <2>3, <2>4, <2>5 DEF Routed
<1> QED BY <1>4, <1>5

\* The slow path, with the session it finds when it looks again.
LEMMA SlowStep ==
    ASSUME RelayInv, serveSlow
    PROVE  RelayInv' /\ Routed'
<1> USE RelayAssumption DEF RelayInv
<1> PICK a \in Clients : a = slow.client /\ a \in wgPeer
  BY DEF serveSlow, TypeOK, PeersKnown
<1>1. UNCHANGED <<sessions, rawSocket, wgPeer, sent>> /\ slow' = None
  BY DEF serveSlow, handleSlow, clientVars
<1>2. CASE sessions[tokenOf[a]] = None
  <2>1. out' = None /\ obj' = obj
    BY <1>2 DEF serveSlow, handleSlow, findSessionByTokenID
  <2>2. TypeOK' /\ Owned' /\ SocketOwner' /\ PeersKnown'
    BY <1>1, <2>1 DEF TypeOK, Owned, SocketOwner, PeersKnown
  <2> QED BY <2>1, <2>2 DEF Routed, RoutedIsPassedOn, MainForwardsRegistered
<1>3. CASE sessions[tokenOf[a]] # None
  <2> PICK o \in Objects : o = sessions[tokenOf[a]]
    BY <1>3 DEF TypeOK
  <2> PICK r : r = assignPeer(obj[o], a)
    OBVIOUS
  <2>1. /\ obj[o].token = tokenOf[a] /\ obj[o] \in Object /\ tokenOf[a] \in Tokens
    BY <1>3 DEF Owned, TypeOK
  <2>2. /\ obj' = [obj EXCEPT ![o] = r]
        /\ out' = None \/ Forward(o, r, a)
    BY <1>3 DEF serveSlow, handleSlow, findSessionByTokenID
  <2>3. /\ r \in Object
        /\ r.state = obj[o].state /\ r.token = obj[o].token
        /\ r.rawConn = obj[o].rawConn
    BY <2>1 DEF assignPeer, Object
  <2>4. /\ r.peerA # None => r.peerA \in wgPeer
        /\ r.peerB # None => r.peerB \in wgPeer
        /\ r.peerB # None => r.peerA # None /\ r.peerA # r.peerB
    BY <2>1 DEF assignPeer, needsWrite, PeersKnown, Object
  <2>5. out' \in Packet \cup {None}
    BY <2>2, <2>3, TargetTyped DEF Forward, Packet
  <2>6. TypeOK'
    BY <1>1, <2>2, <2>3, <2>5 DEF TypeOK
  <2>7. \A q \in Objects : /\ obj'[q].state = obj[q].state
                            /\ obj'[q].token = obj[q].token
                            /\ obj'[q].rawConn = obj[q].rawConn
    BY <2>2, <2>3 DEF TypeOK
  <2>8. Owned'
    <3>1. ASSUME NEW t \in Tokens, sessions'[t] # None
          PROVE  obj'[sessions'[t]].state = "registered" /\ obj'[sessions'[t]].token = t
      <4>1. sessions'[t] = sessions[t] /\ sessions[t] \in Objects
        BY <1>1, <3>1 DEF TypeOK
      <4> QED BY <2>7, <3>1, <4>1 DEF Owned
    <3>2. \A q \in Objects : obj'[q].state # "unused" => obj'[q].token # None
      BY <2>7 DEF Owned
    <3>3. \A q \in Objects : obj'[q].state = "closing" => obj'[q].rawConn
      BY <2>7 DEF Owned
    <3>4. \A t \in Tokens : sessions'[t] # None =>
            obj'[sessions'[t]].state = "registered" /\ obj'[sessions'[t]].token = t
      BY <3>1
    <3> QED BY <3>2, <3>3, <3>4 DEF Owned
  <2>9. SocketOwner'
    BY <1>1, <2>7 DEF SocketOwner
  <2>10. PeersKnown'
    BY <1>1, <2>2, <2>4 DEF PeersKnown, TypeOK
  <2>11. RoutedIsPassedOn'
    <3> SUFFICES ASSUME out' # None, out'.dst \in Clients
                 PROVE  out'.dst \in wgPeer
      BY <1>1 DEF RoutedIsPassedOn, inboundForwards
    <3>1. out'.dst = target(r, a) /\ target(r, a) # None
      BY <2>2 DEF Forward
    <3> QED BY <2>3, <2>4, <3>1 DEF target, Object
  <2>12. MainForwardsRegistered'
    <3> SUFFICES ASSUME out' # None
                 PROVE  sessions'[obj'[out'.via].token] = out'.via
      BY DEF MainForwardsRegistered
    <3>1. out'.via = o
      BY <2>2 DEF Forward
    <3> QED BY <1>1, <2>7, <2>1, <3>1
  <2> QED BY <2>6, <2>8, <2>9, <2>10, <2>11, <2>12 DEF Routed
<1> QED BY <1>2, <1>3

LEMMA NextStep == RelayInv /\ Routed /\ [Next]_vars => RelayInv' /\ Routed'
<1> SUFFICES ASSUME RelayInv, Routed, [Next]_vars
             PROVE  RelayInv' /\ Routed'
  OBVIOUS
<1>1. CASE UNCHANGED vars
  BY <1>1 DEF vars, RelayInv, TypeOK, Owned, SocketOwner, PeersKnown, Routed,
      RoutedIsPassedOn, MainForwardsRegistered, inboundForwards
<1>2. CASE Next
  BY <1>2, BindStep, InsertStep, CloseStep, InvalidateStep, ReapStep, RawStep, FastStep,
      OutboundStep, SlowStep DEF Next
<1> QED BY <1>1, <1>2

LEMMA Invariance == Spec => [](RelayInv /\ Routed)
BY InitInv, NextStep, PTL DEF Spec

\* The relay's maps, objects, sockets and clients keep their types.
THEOREM RelayTyped == Spec => []TypeOK
BY Invariance, PTL DEF RelayInv

\* InvalidateSession, RemoveSession and the idle reaper never close the raw socket of
\* another session, with any number of registrations of any tokens, also of tokens
\* whose raw ports collide.
THEOREM SocketsOwned == Spec => []SocketOwner
BY Invariance, PTL DEF RelayInv

\* What the main loop forwards goes through a registered session, although the
\* slow path releases the lock between its two lookups.
THEOREM ForwardsRegistered == Spec => []MainForwardsRegistered
BY Invariance, PTL DEF Routed

\* A relay client never drops what the relay routes to it for want of its
\* WireGuard's address.
THEOREM RoutedArrives == Spec => []RoutedIsPassedOn
BY Invariance, PTL DEF Routed

\* As long as no plain WireGuard renter has shown up, the peers that serve assigned
\* to a session send to each other.
THEOREM PeersReachEachOther == Spec => []ReturnPath
<1>1. RelayInv => ReturnPath
  BY RelayAssumption DEF RelayInv, PeersKnown, ReturnPath, TypeOK, Object, target
<1> QED BY <1>1, Invariance, PTL
-----------------------------------------------------------------------------
(* Isolation, for tokens whose raw ports differ.                           *)

DistinctPorts ==
    \A t, u \in Tokens : RawPortForToken[t] = RawPortForToken[u] => t = u

ofToken(a, t) == a # None => tokenOf[a] = t
AllOfToken(r) ==
    /\ ofToken(r.peerA, r.token) /\ ofToken(r.peerB, r.token)
    /\ ofToken(r.renterAddr, r.token) /\ ofToken(r.raddr, r.token)

\* A socket is on the port of its object's token, and every address that an object
\* has belongs to a client with the object's token.
OneToken ==
    /\ \A p \in RawPorts : rawSocket[p] # None =>
        /\ obj[rawSocket[p]].token # None
        /\ RawPortForToken[obj[rawSocket[p]].token] = p
    /\ \A o \in Objects : AllOfToken(obj[o])

LEMMA InitOneToken == Init => OneToken /\ Isolation
BY DEF Init, OneToken, AllOfToken, ofToken, Isolation, newObject

LEMMA OneTokenStep ==
    ASSUME DistinctPorts, RelayInv, OneToken, Isolation, [Next]_vars
    PROVE  OneToken' /\ Isolation'
<1> USE RelayAssumption
<1>1. TypeOK /\ Owned
  BY DEF RelayInv
<1>2. ASSUME NEW o \in Objects, NEW t \in Tokens, RegisterSessionBind(o, t)
      PROVE  OneToken' /\ Isolation'
  <2>1. obj' = [obj EXCEPT ![o] =
                    newObject("registering", t, rawSocket[RawPortForToken[t]] = None)]
    BY <1>2 DEF RegisterSessionBind
  <2>2. \A p \in RawPorts : rawSocket[p] # o
    BY <1>2 DEF RegisterSessionBind, garbage
  <2>3. rawSocket' = IF rawSocket[RawPortForToken[t]] = None
                     THEN [rawSocket EXCEPT ![RawPortForToken[t]] = o] ELSE rawSocket
    BY <1>2 DEF RegisterSessionBind
  <2>4. ASSUME NEW p \in RawPorts, rawSocket'[p] # None
        PROVE  /\ obj'[rawSocket'[p]].token # None
               /\ RawPortForToken[obj'[rawSocket'[p]].token] = p
    BY <1>1, <2>1, <2>2, <2>3, <2>4 DEF OneToken, TypeOK, newObject
  <2>5. ASSUME NEW q \in Objects
        PROVE  AllOfToken(obj'[q])
    BY <1>1, <2>1 DEF OneToken, TypeOK, newObject, AllOfToken, ofToken
  <2> QED BY <1>2, <2>4, <2>5 DEF OneToken, Isolation, RegisterSessionBind
<1>3. ASSUME out' = None,
             \A q \in Objects :
                /\ obj'[q].token = obj[q].token /\ obj'[q].peerA = obj[q].peerA
                /\ obj'[q].peerB = obj[q].peerB /\ obj'[q].renterAddr = obj[q].renterAddr
                /\ obj'[q].raddr = obj[q].raddr,
             \A p \in RawPorts : rawSocket'[p] \in {rawSocket[p], None}
      PROVE  OneToken' /\ Isolation'
  <2>1. \A q \in Objects : AllOfToken(obj'[q])
    BY <1>3 DEF OneToken, AllOfToken
  <2>2. ASSUME NEW p \in RawPorts, rawSocket'[p] # None
        PROVE  /\ obj'[rawSocket'[p]].token # None
               /\ RawPortForToken[obj'[rawSocket'[p]].token] = p
    <3>1. rawSocket'[p] = rawSocket[p] /\ rawSocket[p] \in Objects
      BY <1>1, <1>3, <2>2 DEF TypeOK
    <3> QED BY <1>3, <2>2, <3>1 DEF OneToken
  <2> QED BY <1>3, <2>1, <2>2 DEF OneToken, Isolation
<1>4. ASSUME NEW o \in Objects, RegisterSessionInsert(o)
       PROVE  OneToken' /\ Isolation'
  BY <1>1, <1>3, <1>4 DEF RegisterSessionInsert, TypeOK, Object
<1>5. ASSUME NEW o \in Objects, CloseRawConn(o)
       PROVE  OneToken' /\ Isolation'
  BY <1>1, <1>3, <1>5 DEF CloseRawConn, TypeOK, Object
<1>6. ASSUME NEW t \in Tokens, InvalidateSession(t)
       PROVE  OneToken' /\ Isolation'
  BY <1>1, <1>3, <1>6 DEF InvalidateSession, TypeOK, Object
<1>7. ASSUME NEW t \in Tokens, reapIdleSession(t)
       PROVE  OneToken' /\ Isolation'
  BY <1>1, <1>3, <1>7 DEF reapIdleSession, TypeOK, Object
<1>8. ASSUME NEW a \in Clients, Outbound(a)
       PROVE  OneToken' /\ Isolation'
  BY <1>3, <1>8 DEF Outbound
<1>9. ASSUME rawSocket' = rawSocket,
              \A q \in Objects : obj'[q].token = obj[q].token /\ AllOfToken(obj'[q])
       PROVE  OneToken'
  <2>1. ASSUME NEW p \in RawPorts, rawSocket'[p] # None
        PROVE  /\ obj'[rawSocket'[p]].token # None
               /\ RawPortForToken[obj'[rawSocket'[p]].token] = p
    <3>1. rawSocket'[p] = rawSocket[p] /\ rawSocket[p] \in Objects
      BY <1>1, <1>9, <2>1 DEF TypeOK
    <3> QED BY <1>9, <2>1, <3>1 DEF OneToken
  <2> QED BY <1>9, <2>1 DEF OneToken
<1>10. ASSUME NEW w \in RawClients, serveRawRead(w)
      PROVE  OneToken' /\ Isolation'
  <2> PICK o \in Objects : o = rawSocket[RawPortForToken[tokenOf[w]]]
    BY <1>1, <1>10 DEF serveRawRead, TypeOK
  <2>1. tokenOf[w] \in Tokens /\ RawPortForToken[tokenOf[w]] \in RawPorts /\ o # None
    OBVIOUS
  <2>2. obj[o].token \in Tokens /\ obj[o].token = tokenOf[w]
    <3>1. obj[o].token # None /\ RawPortForToken[obj[o].token] = RawPortForToken[tokenOf[w]]
      BY <2>1 DEF OneToken
    <3>2. obj[o].token \in Tokens
      BY <1>1, <3>1 DEF TypeOK, Object
    <3> QED BY <2>1, <3>1, <3>2 DEF DistinctPorts
  <2>3. obj' = [obj EXCEPT ![o].raddr = w] /\ rawSocket' = rawSocket /\ out' = None
    BY <1>10 DEF serveRawRead
  <2>4. ASSUME NEW q \in Objects
        PROVE  obj'[q].token = obj[q].token /\ AllOfToken(obj'[q])
    <3>1. CASE q = o
      <4>1. obj'[q] = [obj[o] EXCEPT !.raddr = w] /\ obj[o] \in Object
        BY <1>1, <2>3, <3>1 DEF TypeOK
      <4>2. AllOfToken(obj[o])
        BY DEF OneToken
      <4> QED BY <2>2, <3>1, <4>1, <4>2 DEF AllOfToken, ofToken, Object
    <3>2. CASE q # o
      BY <1>1, <2>3, <3>2 DEF TypeOK, OneToken
    <3> QED BY <3>1, <3>2
  <2> QED BY <1>9, <2>3, <2>4 DEF Isolation
<1>11. ASSUME NEW o \in Objects, serveRaw(o)
      PROVE  OneToken' /\ Isolation'
  <2>1. obj[o] \in Object /\ AllOfToken(obj[o])
    BY <1>1 DEF TypeOK, OneToken
  <2>2. /\ obj' = [obj EXCEPT ![o].renterAddr = obj[o].raddr, ![o].raddr = None]
        /\ rawSocket' = rawSocket
    BY <1>11 DEF serveRaw
  <2>3. ASSUME NEW q \in Objects
        PROVE  obj'[q].token = obj[q].token /\ AllOfToken(obj'[q])
    <3>1. CASE q = o
      <4>1. obj'[q] = [obj[o] EXCEPT !.renterAddr = obj[o].raddr, !.raddr = None]
        BY <1>1, <2>2, <3>1 DEF TypeOK
      <4> QED BY <2>1, <3>1, <4>1 DEF AllOfToken, ofToken, Object
    <3>2. CASE q # o
      BY <1>1, <2>2, <3>2 DEF TypeOK, OneToken
    <3> QED BY <3>1, <3>2
  <2>4. OneToken'
    BY <1>9, <2>2, <2>3
  <2>5. Isolation'
    <3> SUFFICES ASSUME out' # None
                 PROVE  tokenOf[out'.src] = tokenOf[out'.dst]
      BY DEF Isolation
    <3>1. /\ out'.src = obj[o].raddr /\ obj[o].raddr # None
          /\ out'.dst = obj[o].peerA /\ obj[o].peerA # None
      BY <1>11 DEF serveRaw
    <3> QED BY <2>1, <3>1 DEF AllOfToken, ofToken
  <2> QED BY <2>4, <2>5
<1>12. ASSUME NEW o \in Objects, NEW r \in Object, NEW a \in Clients, Forward(o, r, a),
             tokenOf[a] = r.token, AllOfToken(r)
      PROVE  Isolation'
  BY <1>12 DEF Forward, target, Isolation, AllOfToken, ofToken
<1>13. ASSUME NEW a \in Clients, serveFast(a)
      PROVE  OneToken' /\ Isolation'
  <2> PICK o \in Objects : o = sessions[tokenOf[a]]
    BY <1>1, <1>13 DEF serveFast, findSessionByTokenID, TypeOK
  <2>1. obj[o].token = tokenOf[a] /\ obj[o] \in Object
    BY <1>1, <1>13 DEF Owned, TypeOK, serveFast, findSessionByTokenID
  <2>2. OneToken'
    BY <1>13 DEF serveFast, OneToken
  <2>3. out' = None \/ Forward(o, obj[o], a)
    BY <1>13 DEF serveFast, findSessionByTokenID
  <2>4. AllOfToken(obj[o])
    BY DEF OneToken
  <2> QED BY <1>12, <2>1, <2>2, <2>3, <2>4 DEF Isolation
<1>14. ASSUME serveSlow
      PROVE  OneToken' /\ Isolation'
  <2> PICK a \in Clients : a = slow.client
    BY <1>1, <1>14 DEF serveSlow, TypeOK
  <2>1. rawSocket' = rawSocket
    BY <1>14 DEF serveSlow, handleSlow
  <2>2. CASE sessions[tokenOf[a]] = None
    BY <1>14, <2>1, <2>2 DEF serveSlow, handleSlow, findSessionByTokenID, OneToken, Isolation
  <2>3. CASE sessions[tokenOf[a]] # None
    <3> PICK o \in Objects : o = sessions[tokenOf[a]]
      BY <1>1, <2>3 DEF TypeOK
    <3> PICK r : r = assignPeer(obj[o], a)
      OBVIOUS
    <3>1. obj[o].token = tokenOf[a] /\ obj[o] \in Object
      BY <1>1, <2>3 DEF Owned, TypeOK
    <3>2. obj' = [obj EXCEPT ![o] = r] /\ (out' = None \/ Forward(o, r, a))
      BY <1>14, <2>3 DEF serveSlow, handleSlow, findSessionByTokenID
    <3>3. /\ r \in Object /\ r.token = obj[o].token
          /\ r.peerA \in {obj[o].peerA, a} /\ r.peerB \in {obj[o].peerB, a}
          /\ r.renterAddr = obj[o].renterAddr /\ r.raddr = obj[o].raddr
      BY <3>1 DEF assignPeer, Object
    <3>4. AllOfToken(r)
      <4>1. AllOfToken(obj[o])
        BY DEF OneToken
      <4> QED BY <3>1, <3>3, <4>1 DEF AllOfToken, ofToken
    <3>5. ASSUME NEW q \in Objects
          PROVE  obj'[q].token = obj[q].token /\ AllOfToken(obj'[q])
      <4>1. CASE q = o
        BY <1>1, <3>2, <3>3, <3>4, <4>1 DEF TypeOK
      <4>2. CASE q # o
        BY <1>1, <3>2, <4>2 DEF TypeOK, OneToken
      <4> QED BY <4>1, <4>2
    <3>6. OneToken'
      BY <1>9, <2>1, <3>5
    <3>7. Isolation'
      <4>1. CASE out' = None
        BY <4>1 DEF Isolation
      <4>2. CASE Forward(o, r, a)
        BY <1>12, <3>1, <3>3, <3>4, <4>2
      <4> QED BY <3>2, <4>1, <4>2
    <3> QED BY <3>6, <3>7
  <2> QED BY <2>2, <2>3
<1>15. CASE UNCHANGED vars
  BY <1>15 DEF vars, OneToken, Isolation
<1> QED BY <1>2, <1>10, <1>11, <1>13, <1>14, <1>15, <1>4, <1>5, <1>6, <1>7, <1>8 DEF Next

\* If the raw ports of different tokens differ, no packet is routed from one session
\* to another, with any number of sessions, clients, registrations and removals.
THEOREM SessionsIsolated ==
    ASSUME DistinctPorts
    PROVE  Spec => []Isolation
<1>1. OneToken /\ Isolation /\ RelayInv /\ [Next]_vars => OneToken' /\ Isolation'
  BY OneTokenStep
<1> QED BY <1>1, InitOneToken, Invariance, PTL DEF Spec
=============================================================================
