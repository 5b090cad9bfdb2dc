-------------------------------- MODULE Relay --------------------------------
(***************************************************************************)
(* The UDP relay of internal/relay/server.go.  Relay clients send packets  *)
(* with a session's token to the main port; plain WireGuard clients send   *)
(* to the session's raw port.  The main loop is one goroutine, every raw   *)
(* port has one, and RegisterSession, InvalidateSession and the idle       *)
(* reaper run beside them; rs.mu protects the session map and the peer     *)
(* addresses.                                                              *)
(*                                                                         *)
(* A packet is its sender; payloads are left out.  The step is the         *)
(* decision, under the lock, where a packet goes; the send that follows is *)
(* not a step of its own.  Time is left out: a session can turn out to be  *)
(* idle at any moment.  A relay client (internal/relay/client.go) is its   *)
(* address and the two things it does: it passes what WireGuard sends on   *)
(* to the relay, and what the relay sends on to WireGuard, whose address   *)
(* it has from WireGuard's own packets.  Packets of clients can be lost,   *)
(* delayed and duplicated.                                                 *)
(***************************************************************************)
EXTENDS Integers, FiniteSets

CONSTANTS
    Tokens,             \* relay tokens, one per compute session
    Objects,            \* *relaySession values
    Clients,            \* addresses of relay clients, on the main port
    RawClients,         \* addresses of plain WireGuard clients
    tokenOf,            \* client -> the token of its session
    RawPorts,
    RawPortForToken,    \* token -> raw port: a hash modulo 1000
    None

ASSUME RelayAssumption ==
    /\ tokenOf \in [Clients \cup RawClients -> Tokens]
    /\ RawPortForToken \in [Tokens -> RawPorts]
    /\ Clients \cap RawClients = {}     \* each address is that of one socket
    /\ None \notin Objects \cup Clients \cup RawClients \cup Tokens

VARIABLES
    sessions,           \* rs.sessions: token -> object
    obj,                \* the objects
    rawSocket,          \* raw port -> object whose serveRaw reads it
    slow,               \* the packet the main loop is about to handle under
                        \* the write lock, with the session it was found in
    out,                \* the packet routed by the last step
    wgPeer,             \* relay clients that know their WireGuard's address
    sent                \* relay clients with packets that can still arrive

clientVars == <<wgPeer, sent>>
vars == <<sessions, obj, rawSocket, slow, out, wgPeer, sent>>

Packet == [src : Clients \cup RawClients, dst : Clients \cup RawClients,
           via : Objects, path : {"main", "raw"}]

\* "registering": between ListenUDP and the map update of RegisterSession;
\* "closing": out of the map, rawConn.Close still to come.
Object == [state : {"unused", "registering", "registered", "closing"},
           token : Tokens \cup {None},
           peerA : Clients \cup {None}, peerB : Clients \cup {None},
           renterAddr : RawClients \cup {None}, rawConn : BOOLEAN,
           raddr : RawClients \cup {None}]     \* serveRaw's packet in hand

TypeOK ==
    /\ sessions \in [Tokens -> Objects \cup {None}]
    /\ obj \in [Objects -> Object]
    /\ rawSocket \in [RawPorts -> Objects \cup {None}]
    /\ slow \in [client : Clients, sess : Objects] \cup {None}
    /\ out \in Packet \cup {None}
    /\ wgPeer \subseteq Clients /\ sent \subseteq Clients

newObject(state, t, rawConn) ==
    [state |-> state, token |-> t, peerA |-> None, peerB |-> None,
     renterAddr |-> None, rawConn |-> rawConn, raddr |-> None]

Init ==
    /\ sessions = [t \in Tokens |-> None]
    /\ obj = [o \in Objects |-> newObject("unused", None, FALSE)]
    /\ rawSocket = [p \in RawPorts |-> None]
    /\ slow = None /\ out = None
    /\ wgPeer = {} /\ sent = {}

\* No map entry, goroutine or call refers to o.
garbage(o) ==
    /\ \A t \in Tokens : sessions[t] # o
    /\ \A p \in RawPorts : rawSocket[p] # o
    /\ slow # None => slow.sess # o
    /\ obj[o].state \notin {"registering", "closing"} /\ obj[o].raddr = None
-----------------------------------------------------------------------------
(* RegisterSession binds the raw port, unless it is taken, and starts      *)
(* serveRaw; then it puts the new object into the map, whatever is there.  *)

\* Mutant: the error of ListenUDP is ignored.
RegisterSessionBind_ignoresError(o, t) ==
    LET p == RawPortForToken[t] IN
    /\ garbage(o)
    /\ obj' = [obj EXCEPT ![o] = newObject("registering", t, TRUE)]
    /\ rawSocket' = IF rawSocket[p] = None THEN [rawSocket EXCEPT ![p] = o] ELSE rawSocket
    /\ out' = None
    /\ UNCHANGED <<sessions, slow, clientVars>>

RegisterSessionBind(o, t) ==
    LET p == RawPortForToken[t] IN
    /\ garbage(o)
    /\ obj' = [obj EXCEPT ![o] = newObject("registering", t, rawSocket[p] = None)]
    /\ rawSocket' = IF rawSocket[p] = None THEN [rawSocket EXCEPT ![p] = o] ELSE rawSocket
    /\ out' = None
    /\ UNCHANGED <<sessions, slow, clientVars>>

RegisterSessionInsert(o) ==
    /\ obj[o].state = "registering"
    /\ obj' = [obj EXCEPT ![o].state = "registered"]
    /\ sessions' = [sessions EXCEPT ![obj[o].token] = o]
    /\ out' = None
    /\ UNCHANGED <<rawSocket, slow, clientVars>>

\* InvalidateSession and RemoveSession: delete under the lock, close after it.
InvalidateSession(t) ==
    /\ sessions[t] # None
    /\ sessions' = [sessions EXCEPT ![t] = None]
    /\ obj' = [obj EXCEPT ![sessions[t]].state =
                    IF obj[sessions[t]].rawConn THEN "closing" ELSE "unused"]
    /\ out' = None
    /\ UNCHANGED <<rawSocket, slow, clientVars>>

CloseRawConn(o) ==
    /\ obj[o].state = "closing"
    /\ rawSocket' = [rawSocket EXCEPT ![RawPortForToken[obj[o].token]] = None]
    /\ obj' = [obj EXCEPT ![o].state = "unused"]
    /\ out' = None
    /\ UNCHANGED <<sessions, slow, clientVars>>

\* The reaper closes while it holds the lock.
reapIdleSession(t) ==
    /\ sessions[t] # None
    /\ sessions' = [sessions EXCEPT ![t] = None]
    /\ obj' = [obj EXCEPT ![sessions[t]].state = "unused"]
    /\ rawSocket' = IF obj[sessions[t]].rawConn
                    THEN [rawSocket EXCEPT ![RawPortForToken[t]] = None]
                    ELSE rawSocket
    /\ out' = None
    /\ UNCHANGED <<slow, clientVars>>
-----------------------------------------------------------------------------
(* serveRaw reads a packet from its socket; then, even if the socket is    *)
(* closed meanwhile, it remembers the renter and forwards to peerA if      *)
(* there is one.  (peerA is read in a second critical section; only the    *)
(* slow path could come in between, which sets peerA whatever renterAddr.) *)
serveRawRead(w) ==
    LET o == rawSocket[RawPortForToken[tokenOf[w]]] IN
    /\ o # None
    /\ obj[o].raddr = None
    /\ obj' = [obj EXCEPT ![o].raddr = w]
    /\ out' = None
    /\ UNCHANGED <<sessions, rawSocket, slow, clientVars>>

serveRaw(o) ==
    /\ obj[o].raddr # None
    /\ obj' = [obj EXCEPT ![o].renterAddr = obj[o].raddr, ![o].raddr = None]
    /\ out' = IF obj[o].peerA = None THEN None
              ELSE [src |-> obj[o].raddr, dst |-> obj[o].peerA, via |-> o, path |-> "raw"]
    /\ UNCHANGED <<sessions, rawSocket, slow, clientVars>>

\* Where a packet from a goes, given the object's current peers.
target(r, a) ==
    CASE a = r.peerA -> IF r.rawConn /\ r.renterAddr # None
                        THEN r.renterAddr ELSE r.peerB
      [] a # r.peerA /\ a = r.peerB -> r.peerA
      [] OTHER -> None

Forward(o, r, a) ==
    out' = IF target(r, a) = None THEN None
           ELSE [src |-> a, dst |-> target(r, a), via |-> o, path |-> "main"]

\* Mutant: the provider's second packet makes it its own peer.
needsWrite_anySender(r, a) ==
    r.peerA = None \/ (r.peerB = None /\ r.renterAddr = None)

needsWrite(r, a) ==
    \/ r.peerA = None
    \/ r.peerB = None /\ r.renterAddr = None /\ a # r.peerA

\* Mutant: an unknown token falls through to some registered session.
findSessionByTokenID_anySession(t) ==
    LET found == {sessions[u] : u \in Tokens} \ {None} IN
    IF sessions[t] = None /\ found # {} THEN CHOOSE o \in found : TRUE ELSE sessions[t]

findSessionByTokenID(t) == sessions[t]

\* The main loop reads a packet and looks its session up under the read lock.
serveFast(a) ==
    LET o == findSessionByTokenID(tokenOf[a]) IN
    /\ a \in sent
    /\ slow = None
    /\ o # None
    /\ IF needsWrite(obj[o], a)
       THEN slow' = [client |-> a, sess |-> o] /\ out' = None
       ELSE Forward(o, obj[o], a) /\ UNCHANGED slow
    /\ UNCHANGED <<sessions, obj, rawSocket, clientVars>>

\* What the slow path makes of the object it finds under the write lock.
assignPeer(r, a) ==
    CASE r.peerA = None -> [r EXCEPT !.peerA = a]
      [] r.peerA # None /\ needsWrite(r, a) -> [r EXCEPT !.peerB = a]
      [] OTHER -> r

\* The slow path with object o.
handleSlow(o) ==
    /\ slow' = None
    /\ IF o = None
       THEN out' = None /\ UNCHANGED obj
       ELSE /\ obj' = [obj EXCEPT ![o] = assignPeer(obj[o], slow.client)]
            /\ IF obj[o].peerA = None
               THEN out' = None
               ELSE Forward(o, assignPeer(obj[o], slow.client), slow.client)
    /\ UNCHANGED <<sessions, rawSocket, clientVars>>

\* Mutant: the session found under the read lock is used without looking again.
serveSlow_noLookup == slow # None /\ handleSlow(slow.sess)

serveSlow == slow # None /\ handleSlow(findSessionByTokenID(tokenOf[slow.client]))

-----------------------------------------------------------------------------
(* The relay client.                                                       *)

\* Mutant: the sender of the packet is not kept.
Outbound_notLearned(a) ==
    /\ sent' = sent \cup {a}
    /\ out' = None
    /\ UNCHANGED <<sessions, obj, rawSocket, slow, wgPeer>>

\* Run's goroutine: a packet of WireGuard's, whose address is kept before the packet
\* is written to the relay.
Outbound(a) ==
    /\ wgPeer' = wgPeer \cup {a}
    /\ sent' = sent \cup {a}
    /\ out' = None
    /\ UNCHANGED <<sessions, obj, rawSocket, slow>>

\* Run's own loop passes a packet from the relay on, or drops it.  wgPeer is read
\* without synchronisation; what the relay routes to a is a round trip later than
\* the write.
inboundForwards(a) == a \in wgPeer
-----------------------------------------------------------------------------
Next ==
    \/ \E o \in Objects :
        \/ \E t \in Tokens : RegisterSessionBind(o, t)
        \/ RegisterSessionInsert(o)
        \/ CloseRawConn(o)
        \/ serveRaw(o)
    \/ \E t \in Tokens : InvalidateSession(t) \/ reapIdleSession(t)
    \/ \E w \in RawClients : serveRawRead(w)
    \/ \E a \in Clients : serveFast(a) \/ Outbound(a)
    \/ serveSlow

Spec == Init /\ [][Next]_vars
-----------------------------------------------------------------------------
\* A packet is routed only between peers of one session, however sessions
\* are registered, replaced, invalidated and reaped in between.  It needs
\* the raw ports of different tokens to differ, which a hash does not ensure.
Isolation == out # None => tokenOf[out.src] = tokenOf[out.dst]

\* The main loop routes packets through registered objects only, also when the
\* session is invalidated or replaced between its read-locked lookup and the
\* write-locked one.
MainForwardsRegistered ==
    out # None /\ out.path = "main" => sessions[obj[out.via].token] = out.via

\* Without a raw renter the two relay clients of a session reach each other:
\* whoever receives a client's packets has its own delivered to that client.
ReturnPath ==
    \A o \in Objects : \A a, b \in Clients :
        /\ obj[o].state = "registered" /\ obj[o].renterAddr = None
        /\ target(obj[o], a) = b
        => a # b /\ target(obj[o], b) = a

\* A registered object that owns a raw socket owns the socket of its token's
\* port: the reaper and InvalidateSession never close somebody else's.
SocketOwner ==
    \A o \in Objects :
        obj[o].state \in {"registering", "registered", "closing"} /\ obj[o].rawConn
            => rawSocket[RawPortForToken[obj[o].token]] = o

\* What the relay routes to a relay client is passed on to its WireGuard: the client
\* has learned WireGuard's address before the relay could learn the client's, in
\* whatever order the ends come up and however often the token is registered.
RoutedIsPassedOn ==
    out # None /\ out.dst \in Clients => inboundForwards(out.dst)

\* InvalidateSession "immediately terminates a relay session, refusing to
\* forward any further packets": once it has returned and nobody registers the
\* token again, no packet is forwarded for it, one aside that serveRaw had in
\* hand when its socket was closed.
InvalidatedIsSilent ==
    out # None /\ (\E p \in RawPorts : rawSocket[p] = out.via) =>
        \/ sessions[tokenOf[out.src]] # None
        \/ \E o \in Objects : /\ obj[o].token = tokenOf[out.src]
                              /\ obj[o].state \in {"registering", "closing"}
=============================================================================
