----------------------------- MODULE Rendezvous -----------------------------
(***************************************************************************)
(* How the two ends of one compute session find each other.  The renter's  *)
(* end is an invocation of peerctl (internal/cli/session.go): "session     *)
(* create", with or without --connect, or a later "session connect".  The  *)
(* provider's end is a startSession of the agent (agent/daemon.go).  Both  *)
(* make a new WireGuard key, gather candidates, exchange them through the  *)
(* registry, try to punch a hole (internal/nat), and fall back to the      *)
(* relay or to a configuration without endpoint.  The renter polls the     *)
(* registry until the provider's candidates are there; the agent asks      *)
(* once.                                                                   *)
(*                                                                         *)
(* A process stands for the key it generates.  RPCs can fail before or     *)
(* after they took effect.  UDP packets can be lost, duplicated and        *)
(* delayed: a packet once sent can be received at any time, any number of  *)
(* times or never.  ReportConnectionResult changes nothing the two ends    *)
(* look at (the Registry module has it).                                   *)
(***************************************************************************)
EXTENDS Integers, FiniteSets

CONSTANTS
    Invocations,        \* processes of peerctl about the session
    Starts,             \* startSession goroutines of the agent for it
    None,
    Gathers,            \* results of GatherCandidates that are considered
    MaxAttempts,        \* of the retry.Do around the renter's polling (10)
    MaxCrashes          \* bound on crashes of the agent

ASSUME RendezvousAssumption ==
    /\ Invocations \cap Starts = {}
    /\ None \notin Invocations \cup Starts
    /\ Gathers \subseteq SUBSET {"host", "srflx"}
    /\ MaxAttempts \in Nat \ {0} /\ MaxCrashes \in Nat

VARIABLES
    status,             \* of the session in the store; "none" before it exists
    candidates,         \* s.candidates[session]: peer -> its candidateSet
    proc,               \* the invocations and the starts
    nat,                \* which ends are behind a NAT
    sent,               \* probes and acks that can still arrive
    crashes

vars == <<status, candidates, proc, nat, sent, crashes>>

Procs == Invocations \cup Starts
Peers == {"renter", "provider"}
peerOf(x) == IF x \in Invocations THEN "renter" ELSE "provider"
other(e) == IF e = "renter" THEN "provider" ELSE "renter"

\* "host": an interface address with the WireGuard port; "srflx": what the STUN
\* server saw; "mapped": the public address of the WireGuard port behind a NAT.
Kind == {"host", "srflx", "mapped"}
Address == Peers \X Kind

\* ok: the response is not nil, so it has the relay's address and token.
Response == [ok : BOOLEAN, key : Procs \cup {None}, cands : SUBSET Kind]
noResponse == [ok |-> FALSE, key |-> None, cands |-> {}]

CandidateSet == [key : Procs \cup {None}, cands : SUBSET Kind]
noEntry == [key |-> None, cands |-> {}]

PC == {"unused", "key", "keyOnly", "exchange", "poll", "connect", "probing", "fallback",
       "config", "connected", "returned", "closed", "running", "report", "failed",
       "failing", "dead"}
Mode == {"unset", "holepunch", "relay", "direct"}

Process == [pc : PC, cands : SUBSET Kind, resp : Response, attempt : 0..MaxAttempts,
            mode : Mode, endpoint : Address \cup {None}]

TypeOK ==
    /\ status \in {"none", "pending", "running", "terminated"}
    /\ candidates \in [Peers -> CandidateSet]
    /\ proc \in [Procs -> Process]
    /\ nat \in [Peers -> BOOLEAN]
    /\ sent \subseteq [to : Peers, magic : {"PCPR", "PCPA"}, raddr : Address]
    /\ crashes \in 0..MaxCrashes

newProc(pc) ==
    [pc |-> pc, cands |-> {}, resp |-> noResponse, attempt |-> 0, mode |-> "unset",
     endpoint |-> None]

\* Either end may be behind a NAT; ends in one local network see none.
Init ==
    /\ status = "none"
    /\ candidates = [e \in Peers |-> noEntry]
    /\ proc = [x \in Procs |-> newProc("unused")]
    /\ nat \in [Peers -> BOOLEAN]
    /\ sent = {} /\ crashes = 0

At(x, pc) == proc[x].pc = pc
Goto(x, pc) == proc' = [proc EXCEPT ![x].pc = pc]

\* The process is over; what it had in hand is gone.
End(x, pc) == proc' = [proc EXCEPT ![x] = newProc(pc)]
-----------------------------------------------------------------------------
(* The network.                                                            *)

\* The address from which packets of e's WireGuard port reach the other end.
seenAs(e) == <<e, IF nat[e] THEN "mapped" ELSE "host">>

\* Does a packet sent by the other end to this address reach the WireGuard port?
\* DiscoverEndpoint is called with port 0: a server-reflexive address belongs to
\* a socket of its own, closed before the candidates are sent.
reaches(addr) ==
    CASE addr[2] = "host"   -> ~nat[addr[1]]
      [] addr[2] = "mapped" -> nat[addr[1]]
      [] addr[2] = "srflx"  -> FALSE

packets(e, magic, addrs) ==
    {[to |-> addr[1], magic |-> magic, raddr |-> seenAs(e)] :
        addr \in {b \in addrs : reaches(b)}}
-----------------------------------------------------------------------------
(* The registry's part.                                                    *)

\* Mutant: the peer's own entry is not excluded.
peerEntry_any(cs, e) == IF cs[other(e)] = noEntry THEN cs[e] ELSE cs[other(e)]

peerEntry(cs, e) == cs[other(e)]

\* Mutant: an entry that is there already is kept.
withEntry_keepsFirst(cs, x, cands) ==
    IF cs[peerOf(x)].key # None THEN cs
    ELSE [cs EXCEPT ![peerOf(x)] = [key |-> x, cands |-> cands]]

withEntry(cs, x, cands) ==
    [cs EXCEPT ![peerOf(x)] = [key |-> x, cands |-> cands]]

\* ExchangeCandidates: under s.mu the caller's set is stored and the other's, if
\* there is one, returned.
exchanged(x, cands) ==
    LET e == peerEntry(withEntry(candidates, x, cands), peerOf(x)) IN
    [ok |-> TRUE, key |-> e.key, cands |-> e.cands]

\* One call of ExchangeCandidates: answered, lost, or applied with the answer lost.
\* resp is what the caller has afterwards.
ExchangeCandidates(x, cands, resp) ==
    \/ /\ resp = exchanged(x, cands)
       /\ candidates' = withEntry(candidates, x, cands)
    \/ /\ resp = noResponse
       /\ candidates' \in {candidates, withEntry(candidates, x, cands)}

\* Answers a call of x can end with.
Answers(x, cands) == {exchanged(x, cands), noResponse}

\* TerminateSession; its steps are those of the Registry module.
TerminateSession ==
    /\ status \in {"pending", "running"}
    /\ status' = "terminated"
    /\ candidates' = [e \in Peers |-> noEntry]
    /\ UNCHANGED <<proc, nat, sent, crashes>>
-----------------------------------------------------------------------------
(* The renter: createSessionCmd, connectSessionCmd and doConnect.          *)

\* CreateSession stores the session first and the renter's key after it.
CreateSession(c, flagConnect) ==
    /\ status = "none"
    /\ status' = "pending"
    /\ proc' = [proc EXCEPT ![c] = newProc(IF flagConnect THEN "key" ELSE "keyOnly")]
    /\ UNCHANGED <<candidates, nat, sent, crashes>>

CreateSessionKey(c) ==
    /\ proc[c].pc \in {"key", "keyOnly"}
    /\ candidates' = withEntry(candidates, c, {})
    /\ Goto(c, IF At(c, "key") THEN "exchange" ELSE "closed")
    /\ UNCHANGED <<status, nat, sent, crashes>>

\* No peerctl is running: the renter runs one at a time.
idle ==
    \A d \in Invocations : proc[d].pc \in {"unused", "returned", "closed", "failed"}

\* "session connect": a new process with a new key.
ConnectSession(c) ==
    /\ At(c, "unused")
    /\ status # "none" /\ idle
    /\ proc' = [proc EXCEPT ![c] = newProc("exchange")]
    /\ UNCHANGED <<status, candidates, nat, sent, crashes>>

\* GatherCandidates: each source of candidates may yield none.
GatherCandidates == Gathers

\* The first exchange; doConnect returns its error.
RenterExchange(c) ==
    /\ At(c, "exchange")
    /\ \E cands \in GatherCandidates : \E resp \in Answers(c, cands) :
        /\ ExchangeCandidates(c, cands, resp)
        /\ IF resp.ok
           THEN proc' = [proc EXCEPT ![c].cands = cands, ![c].resp = resp,
                            ![c].pc = IF resp.cands = {} THEN "poll" ELSE "connect"]
           ELSE End(c, "failed")
    /\ UNCHANGED <<status, nat, sent, crashes>>

\* Mutant: retry.Do without its bound.
attempts_unbounded(x) == 0

\* The attempts made once this one has failed.
attempts(x) == proc[x].attempt + 1

\* retry.Do around the exchange: exchResp is replaced by every attempt, also by
\* nil, and after the last one doConnect goes on with what it has.
RenterPoll(c) ==
    /\ At(c, "poll")
    /\ \E resp \in Answers(c, proc[c].cands) :
        /\ ExchangeCandidates(c, proc[c].cands, resp)
        /\ IF resp.cands = {} /\ attempts(c) < MaxAttempts
           THEN proc' = [proc EXCEPT ![c].resp = resp, ![c].attempt = attempts(c)]
           ELSE proc' = [proc EXCEPT ![c].resp = resp, ![c].attempt = 0,
                                     ![c].pc = "connect"]
    /\ UNCHANGED <<status, nat, sent, crashes>>
-----------------------------------------------------------------------------
(* Probe, the same for both ends.                                          *)

\* The peer's candidates as addresses.
remoteCandidates(x) == {<<other(peerOf(x)), k>> : k \in proc[x].resp.cands}

\* Without candidates, or when the WireGuard port cannot be bound, nothing is sent.
ProbeSkip(x) ==
    /\ At(x, "connect")
    /\ Goto(x, "fallback")
    /\ UNCHANGED <<status, candidates, nat, sent, crashes>>

\* sendProbes: at once and with every tick to every candidate; since a packet
\* that was sent once can arrive any number of times, once is enough.
ProbeSend(x) ==
    /\ At(x, "connect")
    /\ proc[x].resp.cands # {}
    /\ sent' = sent \cup packets(peerOf(x), "PCPR", remoteCandidates(x))
    /\ Goto(x, "probing")
    /\ UNCHANGED <<status, candidates, nat, crashes>>

\* Mutant: the candidate is reported in place of the address that answered.
firstResult_candidate(x, raddr) ==
    IF proc[x].endpoint # None THEN proc[x].endpoint
    ELSE CHOOSE a \in remoteCandidates(x) : TRUE

\* The result channel holds one address, the first that is put in.
firstResult(x, raddr) ==
    IF proc[x].endpoint # None THEN proc[x].endpoint ELSE raddr

\* The listener: a probe is answered by an ack, and either is a result.
ProbeReceive(x, pkt) ==
    /\ At(x, "probing")
    /\ pkt \in sent /\ pkt.to = peerOf(x)
    /\ proc' = [proc EXCEPT ![x].endpoint = firstResult(x, pkt.raddr)]
    /\ sent' = IF pkt.magic = "PCPR"
               THEN sent \cup packets(peerOf(x), "PCPA", {pkt.raddr}) ELSE sent
    /\ UNCHANGED <<status, candidates, nat, crashes>>

ProbeSucceeds(x) ==
    /\ At(x, "probing")
    /\ proc[x].endpoint # None
    /\ proc' = [proc EXCEPT ![x].pc = "config", ![x].mode = "holepunch"]
    /\ UNCHANGED <<status, candidates, nat, sent, crashes>>

\* The 10 s are over.  If a result came in the same moment, select may take
\* either.
ProbeTimeout(x) ==
    /\ At(x, "probing")
    /\ proc' = [proc EXCEPT ![x].pc = "fallback", ![x].endpoint = None]
    /\ UNCHANGED <<status, candidates, nat, sent, crashes>>
-----------------------------------------------------------------------------
\* Relay fallback of either end, or a configuration without endpoint.  When the
\* relay's address cannot be resolved doConnect fails and startSession goes on.
Fallback(x) ==
    /\ At(x, "fallback")
    /\ \/ /\ proc[x].resp.ok
          /\ proc' = [proc EXCEPT ![x].pc = "config", ![x].mode = "relay"]
       \/ /\ proc[x].resp.ok /\ x \in Invocations
          /\ End(x, "failed")
       \/ /\ proc[x].resp.ok => x \in Starts
          /\ proc' = [proc EXCEPT ![x].pc = "config", ![x].mode = "direct"]
    /\ UNCHANGED <<status, candidates, nat, sent, crashes>>

\* GetSession, WriteConfig and WGUp, which needs root and can fail; with a relay
\* client or an active interface doConnect stays until it is interrupted, without
\* either it returns and leaves the configuration to the user.
RenterConfig(c) ==
    /\ At(c, "config")
    /\ \/ End(c, "failed")
       \/ Goto(c, "connected")
       \/ proc[c].mode # "relay" /\ Goto(c, "returned")
    /\ UNCHANGED <<status, candidates, nat, sent, crashes>>

\* The user ends the process, at whatever point it is; a call of CreateSession goes
\* on at the registry.
Interrupt(c) ==
    /\ proc[c].pc \notin {"unused", "keyOnly", "returned", "closed", "failed"}
    /\ IF At(c, "key") THEN Goto(c, "keyOnly") ELSE End(c, "closed")
    /\ UNCHANGED <<status, candidates, nat, sent, crashes>>
-----------------------------------------------------------------------------
(* The provider: startSession from the exchange on.                        *)

tracked(g) == proc[g].pc \notin {"unused", "failing", "failed", "dead"}

\* The poll loop finds the session pending and not tracked.
StartSession(g) ==
    /\ At(g, "unused")
    /\ status = "pending"
    /\ \A h \in Starts : ~tracked(h)
    /\ Goto(g, "exchange")
    /\ UNCHANGED <<status, candidates, nat, sent, crashes>>

\* Mutant: a missing peer key is not an error.
keyMissing_ignored(resp) == FALSE

keyMissing(resp) == resp.key = None

\* One exchange; an error counts as an empty answer.
ProviderExchange(g) ==
    /\ At(g, "exchange")
    /\ \E cands \in GatherCandidates : \E resp \in Answers(g, cands) :
        /\ ExchangeCandidates(g, cands, resp)
        /\ IF keyMissing(resp)
           THEN End(g, "failing")
           ELSE proc' = [proc EXCEPT ![g].cands = cands, ![g].resp = resp,
                                     ![g].pc = "connect"]
    /\ UNCHANGED <<status, nat, sent, crashes>>

\* WriteConfig and WGUp, or failSessionStart.
ProviderConfig(g) ==
    /\ At(g, "config")
    /\ \/ Goto(g, "report")
       \/ End(g, "failing")
    /\ UNCHANGED <<status, candidates, nat, sent, crashes>>

\* updateStatus gives up after three attempts.
ReportRunning(g) ==
    /\ At(g, "report")
    /\ status' \in {status, "running"}
    /\ Goto(g, "running")
    /\ UNCHANGED <<candidates, nat, sent, crashes>>

ReportFailed(g) ==
    /\ At(g, "failing")
    /\ status' \in {status, "terminated"}
    /\ Goto(g, "failed")
    /\ UNCHANGED <<candidates, nat, sent, crashes>>

\* The agent dies; Run removes the interface when it comes back.
Crash ==
    /\ crashes < MaxCrashes
    /\ \E g \in Starts : tracked(g)
    /\ crashes' = crashes + 1
    /\ proc' = [x \in Procs |-> IF x \in Starts /\ tracked(x)
                                THEN newProc("dead") ELSE proc[x]]
    /\ UNCHANGED <<status, candidates, nat, sent>>
-----------------------------------------------------------------------------
ProbeStep(x) ==
    \/ ProbeSkip(x) \/ ProbeSend(x) \/ ProbeSucceeds(x) \/ ProbeTimeout(x)
    \/ Fallback(x)

RenterStep(c) ==
    CreateSessionKey(c) \/ RenterExchange(c) \/ RenterPoll(c) \/ RenterConfig(c)

ProviderStep(g) ==
    \/ ProviderExchange(g) \/ ProviderConfig(g) \/ ReportRunning(g)
    \/ ReportFailed(g)

Next ==
    \/ \E c \in Invocations :
        \/ \E flagConnect \in BOOLEAN : CreateSession(c, flagConnect)
        \/ ConnectSession(c) \/ Interrupt(c) \/ RenterStep(c)
    \/ \E g \in Starts : StartSession(g) \/ ProviderStep(g)
    \/ \E x \in Procs : ProbeStep(x) \/ \E pkt \in sent : ProbeReceive(x, pkt)
    \/ TerminateSession \/ Crash

Spec == Init /\ [][Next]_vars

\* Processes run on, RPCs return and timers fire; nothing is assumed of users, of
\* the agent's polling or of packets.
FairSpec ==
    /\ Spec
    /\ \A x \in Procs : WF_vars(ProbeStep(x))
    /\ \A c \in Invocations : WF_vars(RenterStep(c))
    /\ \A g \in Starts : WF_vars(ProviderStep(g))
-----------------------------------------------------------------------------
\* "Connection established" has been printed and the configuration is in use.
established(c) == proc[c].pc \in {"connected", "returned"}

\* The start's tunnel is up.
serving(g) == proc[g].pc \in {"report", "running"}

\* Every other invocation never ran.
only(c) == \A d \in Invocations \ {c} : At(d, "unused")

\* The agent never brings a tunnel up without a peer key, and the key is one a
\* renter's process generated, never the provider's own, in whatever order the
\* session, the renter's key and the two exchanges get to the registry.
ServesRenter == \A g \in Starts : serving(g) => proc[g].resp.key \in Invocations

\* "session create --connect" pairs the ends: when it says "Connection established"
\* with the key of a start that serves the session, that start holds its key.
\* (After a second invocation this no longer holds: every invocation makes a key of
\* its own, and the agent keeps the one it got.)
FirstConnectPairs ==
    \A c \in Invocations, g \in Starts :
        established(c) /\ only(c) /\ serving(g) /\ proc[c].resp.key = g =>
            proc[g].resp.key = c

\* The two exchanges do not miss each other: although the agent asks only once,
\* once both ends have been answered, and no termination has dropped their
\* sets, the renter has the provider's key or the provider has the renter's
\* candidates.
ExchangesMeet ==
    \A c \in Invocations, g \in Starts :
        /\ candidates["renter"].key = c /\ candidates["provider"].key = g
        /\ proc[c].pc \notin {"exchange", "poll"} /\ proc[c].resp.ok
        /\ proc[g].pc # "exchange" /\ proc[g].resp.ok
        => proc[c].resp.key = g \/ proc[g].resp.cands = proc[c].cands

\* The address Probe returns leads to the peer's WireGuard port, whichever ends
\* are behind a NAT and however probes and acks are delayed.
PunchedReaches ==
    \A x \in Procs : proc[x].mode = "holepunch" =>
        proc[x].endpoint[1] = other(peerOf(x)) /\ reaches(proc[x].endpoint)

\* doConnect and startSession come to an end although the peer never shows up:
\* the polling is bounded and Probe has a deadline.
NegotiationEnds ==
    \A x \in Procs : At(x, "exchange") ~>
        proc[x].pc \in {"connected", "returned", "closed", "failed", "running", "dead"}
=============================================================================
