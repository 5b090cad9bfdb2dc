-------------------------- MODULE RendezvousProofs --------------------------
(***************************************************************************)
(* The safety of the negotiation between renter and provider, for any      *)
(* number of invocations of peerctl, of starts and crashes of the agent,   *)
(* of attempts, and for every result of GatherCandidates.                  *)
(***************************************************************************)
EXTENDS Rendezvous, TLAPS

\* Keys at the registry are of the end they are filed under, and of a process that ran.
EntriesKnown ==
    /\ candidates["renter"].key \in Invocations \cup {None}
    /\ candidates["provider"].key \in Starts \cup {None}
    /\ \A c \in Invocations : candidates["renter"].key = c => ~At(c, "unused")

\* States of a renter's process after its first exchange.
Exchanged == {"poll", "connect", "probing", "fallback", "config", "connected", "returned"}

\* States of a process that has an address for its configuration.
Punched == {"config", "connected", "returned", "report", "running"}

\* What a process was answered: a key of the other end, of a process that ran; a
\* start that went on has one.  What Probe found is where the other end is seen.
ProcKnown(x) ==
    /\ proc[x].resp.key \in {None} \cup (IF x \in Invocations THEN Starts ELSE Invocations)
    /\ x \in Starts => \A c \in Invocations : proc[x].resp.key = c => ~At(c, "unused")
    /\ x \in Starts /\ proc[x].pc \in {"connect", "probing", "fallback", "config",
                                       "report", "running"} => proc[x].resp.key # None
    /\ proc[x].endpoint # None => proc[x].endpoint = seenAs(other(peerOf(x)))
    /\ proc[x].mode = "holepunch" => proc[x].endpoint # None /\ proc[x].pc \in Punched
    /\ x \in Invocations /\ proc[x].resp.ok => proc[x].pc \in Exchanged
    /\ x \in Starts => proc[x].pc \notin {"key", "keyOnly", "poll", "connected", "returned"}

PacketsKnown == \A pkt \in sent : pkt.raddr = seenAs(other(pkt.to))

\* The registry has the candidates the process sent, under its key.
SetsMatch ==
    \A c \in Invocations :
        candidates["renter"].key = c /\ proc[c].pc \in Exchanged =>
            candidates["renter"].cands = proc[c].cands

RInv ==
    /\ TypeOK /\ EntriesKnown /\ PacketsKnown /\ SetsMatch /\ ExchangesMeet
    /\ \A x \in Procs : ProcKnown(x)
-----------------------------------------------------------------------------
(* Facts about the operators.                                              *)

LEMMA ProcEnds ==
    /\ \A c \in Invocations : peerOf(c) = "renter" /\ c \notin Starts /\ c # None
    /\ \A g \in Starts : peerOf(g) = "provider" /\ g \notin Invocations /\ g # None
    /\ \A x \in Procs : peerOf(x) \in Peers /\ other(peerOf(x)) \in Peers
                        /\ other(other(peerOf(x))) = peerOf(x)
  BY RendezvousAssumption DEF peerOf, other, Peers, Procs

LEMMA NewProcType ==
    ASSUME NEW pc \in PC
    PROVE  /\ newProc(pc) \in Process
           /\ newProc(pc).pc = pc /\ newProc(pc).resp.key = None /\ ~newProc(pc).resp.ok
           /\ newProc(pc).endpoint = None /\ newProc(pc).mode = "unset"
  <1>1. noResponse \in Response /\ noResponse.key = None /\ noResponse.ok = FALSE
    BY DEF noResponse, Response
  <1>2. 0 \in 0..MaxAttempts
    BY RendezvousAssumption
  <1> QED BY <1>1, <1>2 DEF newProc, Process, Mode

\* The address an end is seen at leads to it.
LEMMA SeenReaches ==
    ASSUME NEW e \in Peers, nat \in [Peers -> BOOLEAN]
    PROVE  /\ seenAs(e) \in Address /\ seenAs(e)[1] = e
           /\ reaches(seenAs(e))
  <1>1. CASE nat[e]
    <2>1. seenAs(e) = <<e, "mapped">>
      BY <1>1 DEF seenAs
    <2> QED BY <1>1, <2>1 DEF Address, Kind, reaches
  <1>2. CASE ~nat[e]
    <2>1. seenAs(e) = <<e, "host">>
      BY <1>2 DEF seenAs
    <2> QED BY <1>2, <2>1 DEF Address, Kind, reaches
  <1> QED BY <1>1, <1>2

\* Packets to addresses of the other end carry the sender's address.
LEMMA PacketFacts ==
    ASSUME NEW x \in Procs, nat \in [Peers -> BOOLEAN], NEW magic \in {"PCPR", "PCPA"},
           NEW addrs, \A a \in addrs : a[1] = other(peerOf(x)),
           NEW pkt \in packets(peerOf(x), magic, addrs)
    PROVE  /\ pkt \in [to : Peers, magic : {"PCPR", "PCPA"}, raddr : Address]
           /\ pkt.raddr = seenAs(other(pkt.to))
  <1>1. PICK a \in addrs :
          pkt = [to |-> a[1], magic |-> magic, raddr |-> seenAs(peerOf(x))]
    BY DEF packets
  <1>2. seenAs(peerOf(x)) \in Address
    BY ProcEnds, SeenReaches
  <1>3. a[1] \in Peers /\ other(a[1]) = peerOf(x)
    BY ProcEnds
  <1> QED BY <1>1, <1>2, <1>3

\* withEntry and exchanged.
LEMMA EntryFacts ==
    ASSUME candidates \in [Peers -> CandidateSet], NEW x \in Procs,
           NEW cands \in SUBSET Kind
    PROVE  /\ withEntry(candidates, x, cands) \in [Peers -> CandidateSet]
           /\ withEntry(candidates, x, cands)[peerOf(x)].key = x
           /\ withEntry(candidates, x, cands)[peerOf(x)].cands = cands
           /\ withEntry(candidates, x, cands)[other(peerOf(x))]
                = candidates[other(peerOf(x))]
  <1>1. peerOf(x) \in Peers /\ other(peerOf(x)) \in Peers /\ other(peerOf(x)) # peerOf(x)
    BY DEF peerOf, other, Peers
  <1> DEFINE entry == [key |-> x, cands |-> cands]
  <1>2. entry \in CandidateSet /\ entry.key = x /\ entry.cands = cands
    BY DEF CandidateSet
  <1>3. withEntry(candidates, x, cands) = [candidates EXCEPT ![peerOf(x)] = entry]
    BY DEF withEntry
  <1> HIDE DEF entry
  <1> QED BY <1>1, <1>2, <1>3

LEMMA ExchangedFacts ==
    ASSUME candidates \in [Peers -> CandidateSet], NEW x \in Procs,
           NEW cands \in SUBSET Kind
    PROVE  /\ exchanged(x, cands) \in Response
           /\ exchanged(x, cands).ok
           /\ exchanged(x, cands).key = candidates[other(peerOf(x))].key
           /\ exchanged(x, cands).cands = candidates[other(peerOf(x))].cands
  <1> DEFINE e == candidates[other(peerOf(x))]
  <1>1. e \in CandidateSet
    BY ProcEnds
  <1>2. exchanged(x, cands) = [ok |-> TRUE, key |-> e.key, cands |-> e.cands]
    BY EntryFacts DEF exchanged, peerEntry
  <1> HIDE DEF e
  <1>3. e.key \in Procs \cup {None} /\ e.cands \in SUBSET Kind
    BY <1>1 DEF CandidateSet
  <1>4. exchanged(x, cands) \in Response /\ exchanged(x, cands).ok
        /\ exchanged(x, cands).key = e.key /\ exchanged(x, cands).cands = e.cands
    BY <1>2, <1>3 DEF Response
  <1> QED BY <1>4 DEF e
-----------------------------------------------------------------------------
\* At the start nobody has anything.
LEMMA InitRInv == Init => RInv
  <1> SUFFICES ASSUME Init PROVE RInv
    OBVIOUS
  <1>1. "unused" \in PC /\ noEntry \in CandidateSet /\ noEntry.key = None
    BY DEF PC, noEntry, CandidateSet
  <1>2. TypeOK
    BY <1>1, NewProcType, RendezvousAssumption DEF Init, TypeOK
  <1>3. \A e \in Peers : candidates[e].key = None
    BY <1>1 DEF Init
  <1>4. \A x \in Procs :
          /\ proc[x].pc = "unused" /\ proc[x].resp.key = None /\ ~proc[x].resp.ok
          /\ proc[x].endpoint = None /\ proc[x].mode = "unset"
    BY <1>1, NewProcType DEF Init
  <1>5. EntriesKnown /\ PacketsKnown /\ SetsMatch /\ ExchangesMeet
    BY <1>3, <1>4, ProcEnds
       DEF Init, EntriesKnown, PacketsKnown, SetsMatch, ExchangesMeet, Peers, Procs
  <1>6. \A x \in Procs : ProcKnown(x)
    BY <1>4, ProcEnds DEF ProcKnown, Procs
  <1> QED BY <1>2, <1>5, <1>6 DEF RInv
-----------------------------------------------------------------------------
(* Steps of one process that leave the registry's sets alone.              *)

LEMMA LocalStep ==
    ASSUME RInv, NEW x \in Procs, TypeOK', PacketsKnown',
           UNCHANGED <<candidates, nat>>,
           \A y \in Procs \ {x} : proc'[y] = proc[y],
           proc'[x].pc # "unused", ProcKnown(x)',
           proc'[x].resp.ok =>
               /\ proc'[x].resp = proc[x].resp /\ proc'[x].cands = proc[x].cands
               /\ proc[x].pc \notin {"exchange", "poll"},
           x \in Invocations /\ proc'[x].pc \in Exchanged =>
               proc[x].pc \in Exchanged /\ proc'[x].cands = proc[x].cands
    PROVE  RInv'
  <1>1. \A y \in Procs : At(y, "unused")' => At(y, "unused")
    BY DEF At
  <1>2. Invocations \subseteq Procs /\ Starts \subseteq Procs
    BY DEF Procs
  <1>3. EntriesKnown'
    BY <1>1, <1>2 DEF RInv, EntriesKnown
  <1>4. SetsMatch'
    BY <1>2 DEF RInv, SetsMatch
  <1>5. \A y \in Procs : ProcKnown(y)'
    <2>1. ASSUME NEW y \in Procs \ {x}
          PROVE  ProcKnown(y)'
      <3>1. ProcKnown(y) /\ proc'[y] = proc[y]
        BY DEF RInv
      <3>2. seenAs(other(peerOf(y)))' = seenAs(other(peerOf(y)))
        BY DEF seenAs
      <3> QED BY <1>1, <1>2, <3>1, <3>2 DEF ProcKnown
    <2> QED BY <2>1
  <1>6. ExchangesMeet'
    <2> SUFFICES ASSUME NEW c \in Invocations, NEW g \in Starts,
                        candidates["renter"].key = c, candidates["provider"].key = g,
                        proc'[c].pc \notin {"exchange", "poll"}, proc'[c].resp.ok,
                        proc'[g].pc # "exchange", proc'[g].resp.ok
                 PROVE  proc'[c].resp.key = g \/ proc'[g].resp.cands = proc'[c].cands
      BY DEF ExchangesMeet
    <2>1. /\ proc[c].pc \notin {"exchange", "poll"}
          /\ proc'[c].resp = proc[c].resp /\ proc'[c].cands = proc[c].cands
      BY <1>2
    <2>2. proc[g].pc # "exchange" /\ proc'[g].resp = proc[g].resp
      BY <1>2
    <2> QED BY <2>1, <2>2 DEF RInv, ExchangesMeet
  <1> QED BY <1>3, <1>4, <1>5, <1>6 DEF RInv

\* A process that is over, or begins, has nothing in hand.
LEMMA ResetStep ==
    ASSUME RInv, NEW x \in Procs, NEW pc \in PC \ {"unused"}, pc \notin Exchanged,
           x \in Starts => pc \notin {"key", "keyOnly", "report", "running"},
           proc' = [proc EXCEPT ![x] = newProc(pc)],
           status' \in {"none", "pending", "running", "terminated"},
           UNCHANGED <<candidates, nat, sent, crashes>>
    PROVE  RInv'
  <1>1. /\ newProc(pc) \in Process
        /\ newProc(pc).pc = pc /\ newProc(pc).resp.key = None /\ ~newProc(pc).resp.ok
        /\ newProc(pc).endpoint = None /\ newProc(pc).mode = "unset"
    BY NewProcType
  <1>2. proc'[x] = newProc(pc) /\ \A y \in Procs \ {x} : proc'[y] = proc[y]
    BY DEF RInv, TypeOK
  <1>3. TypeOK'
    BY <1>1 DEF RInv, TypeOK
  <1>4. PacketsKnown'
    BY DEF RInv, PacketsKnown, seenAs
  <1>5. ProcKnown(x)'
    BY <1>1, <1>2, ProcEnds DEF ProcKnown, Exchanged
  <1> QED BY <1>1, <1>2, <1>3, <1>4, <1>5, LocalStep

\* A process that goes on with what it was answered.
LEMMA GoOnStep ==
    ASSUME RInv, NEW x \in Procs, proc[x].pc \notin {"exchange", "poll"},
           TypeOK', PacketsKnown', UNCHANGED <<candidates, nat>>,
           \A y \in Procs \ {x} : proc'[y] = proc[y],
           proc'[x].resp = proc[x].resp, proc'[x].cands = proc[x].cands,
           proc'[x].pc # "unused",
           proc'[x].pc \in Exchanged => proc[x].pc \in Exchanged,
           x \in Invocations /\ proc[x].pc \in Exchanged => proc'[x].pc \in Exchanged,
           proc'[x].pc \in {"report", "running"} => proc[x].pc \in {"config", "report"},
           proc'[x].pc \in {"key", "keyOnly"} => proc[x].pc \in {"key", "keyOnly"},
           proc'[x].pc \in {"connected", "returned"} => x \in Invocations,
           proc'[x].pc # "poll",
           proc'[x].endpoint # None => proc'[x].endpoint = seenAs(other(peerOf(x))),
           proc'[x].mode = "holepunch" =>
               proc'[x].endpoint # None /\ proc'[x].pc \in Punched
    PROVE  RInv'
  <1>1. ProcKnown(x) /\ Invocations \subseteq Procs
    BY DEF RInv, Procs
  <1>2. \A c \in Invocations : At(c, "unused")' => At(c, "unused")
    BY <1>1 DEF At
  <1>3. seenAs(other(peerOf(x)))' = seenAs(other(peerOf(x)))
    BY DEF seenAs
  <1>4. ProcKnown(x)'
    BY <1>1, <1>2, <1>3, ProcEnds DEF ProcKnown, Exchanged
  <1> QED BY <1>4, LocalStep

LEMMA GotoStep ==
    ASSUME RInv, NEW x \in Procs, NEW pc \in PC \ {"unused"}, Goto(x, pc),
           proc[x].pc \notin {"exchange", "poll"},
           status' \in {"none", "pending", "running", "terminated"},
           UNCHANGED <<candidates, nat, crashes>>,
           sent' \subseteq [to : Peers, magic : {"PCPR", "PCPA"}, raddr : Address],
           PacketsKnown',
           pc \in Exchanged => proc[x].pc \in Exchanged,
           x \in Invocations /\ proc[x].pc \in Exchanged => pc \in Exchanged,
           pc \in {"report", "running"} => proc[x].pc \in {"config", "report"},
           pc \in {"key", "keyOnly"} => proc[x].pc \in {"key", "keyOnly"},
           pc \in {"connected", "returned"} => x \in Invocations, pc # "poll",
           proc[x].pc \in Punched => pc \in Punched
    PROVE  RInv'
  <1> DEFINE new == [proc[x] EXCEPT !.pc = pc]
  <1>1. proc[x] \in Process /\ proc \in [Procs -> Process]
    BY DEF RInv, TypeOK
  <1>2. /\ new \in Process /\ new.pc = pc /\ new.resp = proc[x].resp
        /\ new.cands = proc[x].cands /\ new.endpoint = proc[x].endpoint
        /\ new.mode = proc[x].mode
    BY <1>1 DEF Process
  <1>3. proc' = [proc EXCEPT ![x] = new]
    BY DEF Goto
  <1> HIDE DEF new
  <1>4. proc'[x] = new /\ \A y \in Procs \ {x} : proc'[y] = proc[y]
    BY <1>1, <1>3
  <1>5. TypeOK'
    BY <1>1, <1>2, <1>3 DEF RInv, TypeOK
  <1>6. ProcKnown(x)
    BY DEF RInv
  <1>7. /\ proc[x].endpoint # None => proc[x].endpoint = seenAs(other(peerOf(x)))
        /\ proc[x].mode = "holepunch" => proc[x].endpoint # None /\ pc \in Punched
    BY <1>6 DEF ProcKnown
  <1> QED BY <1>2, <1>4, <1>5, <1>7, GoOnStep
-----------------------------------------------------------------------------
(* One lemma per action.                                                   *)

LEMMA SentKept ==
    ASSUME RInv, UNCHANGED <<sent, nat>>
    PROVE  /\ PacketsKnown'
           /\ sent' \subseteq [to : Peers, magic : {"PCPR", "PCPA"}, raddr : Address]
  BY DEF RInv, TypeOK, PacketsKnown, seenAs

LEMMA StatusType == RInv => status \in {"none", "pending", "running", "terminated"}
  BY DEF RInv, TypeOK

LEMMA InvocationSteps ==
    ASSUME RInv, NEW c \in Invocations,
           \/ \E flagConnect \in BOOLEAN : CreateSession(c, flagConnect)
           \/ ConnectSession(c) \/ Interrupt(c) \/ RenterConfig(c)
    PROVE  RInv'
  <1>1. c \in Procs /\ c \notin Starts
    BY ProcEnds DEF Procs
  <1>2. ASSUME NEW flagConnect \in BOOLEAN, CreateSession(c, flagConnect)
        PROVE  RInv'
    <2>1. PICK pc \in {"key", "keyOnly"} : proc' = [proc EXCEPT ![c] = newProc(pc)]
      BY <1>2 DEF CreateSession
    <2>2. status' \in {"none", "pending", "running", "terminated"}
          /\ UNCHANGED <<candidates, nat, sent, crashes>>
      BY <1>2 DEF CreateSession
    <2> QED BY <1>1, <2>1, <2>2, ResetStep DEF PC, Exchanged
  <1>3. CASE ConnectSession(c)
    <2>1. status' \in {"none", "pending", "running", "terminated"}
          /\ UNCHANGED <<candidates, nat, sent, crashes>>
          /\ proc' = [proc EXCEPT ![c] = newProc("exchange")]
      BY <1>3, StatusType DEF ConnectSession
    <2> QED BY <1>1, <2>1, ResetStep DEF PC, Exchanged
  <1>4. CASE Interrupt(c)
    <2>1. status' \in {"none", "pending", "running", "terminated"}
          /\ UNCHANGED <<candidates, nat, sent, crashes>>
      BY <1>4, StatusType DEF Interrupt
    <2>2. CASE At(c, "key")
      <3>1. Goto(c, "keyOnly") /\ proc[c].pc = "key"
        BY <1>4, <2>2 DEF Interrupt, At
      <3> QED BY <1>1, <2>1, <3>1, SentKept, GotoStep DEF PC, Exchanged, Punched
    <2>3. CASE ~At(c, "key")
      <3>1. proc' = [proc EXCEPT ![c] = newProc("closed")]
        BY <1>4, <2>3 DEF Interrupt, End
      <3> QED BY <1>1, <2>1, <3>1, ResetStep DEF PC, Exchanged
    <2> QED BY <2>2, <2>3
  <1>5. CASE RenterConfig(c)
    <2>1. status' \in {"none", "pending", "running", "terminated"}
          /\ UNCHANGED <<candidates, nat, sent, crashes>> /\ proc[c].pc = "config"
      BY <1>5, StatusType DEF RenterConfig, At
    <2>2. CASE End(c, "failed")
      <3>1. proc' = [proc EXCEPT ![c] = newProc("failed")]
        BY <2>2 DEF End
      <3> QED BY <1>1, <2>1, <3>1, ResetStep DEF PC, Exchanged
    <2>3. ASSUME NEW pc \in {"connected", "returned"}, Goto(c, pc)
          PROVE  RInv'
      BY <1>1, <2>1, <2>3, SentKept, GotoStep DEF PC, Exchanged, Punched
    <2> QED BY <1>5, <2>2, <2>3 DEF RenterConfig
  <1> QED BY <1>2, <1>3, <1>4, <1>5

LEMMA StartSteps ==
    ASSUME RInv, NEW g \in Starts,
           StartSession(g) \/ ProviderConfig(g) \/ ReportRunning(g) \/ ReportFailed(g)
    PROVE  RInv'
  <1>1. g \in Procs
    BY DEF Procs
  <1>2. CASE StartSession(g)
    <2>1. status' \in {"none", "pending", "running", "terminated"}
          /\ UNCHANGED <<candidates, nat, sent, crashes>>
          /\ Goto(g, "exchange") /\ proc[g].pc = "unused"
      BY <1>2, StatusType DEF StartSession, At
    <2> QED BY <1>1, <2>1, ProcEnds, SentKept, GotoStep DEF PC, Exchanged, Punched
  <1>3. CASE ProviderConfig(g)
    <2>1. status' \in {"none", "pending", "running", "terminated"}
          /\ UNCHANGED <<candidates, nat, sent, crashes>> /\ proc[g].pc = "config"
      BY <1>3, StatusType DEF ProviderConfig, At
    <2>2. CASE Goto(g, "report")
      BY <1>1, <2>1, <2>2, ProcEnds, SentKept, GotoStep DEF PC, Exchanged, Punched
    <2>3. CASE End(g, "failing")
      <3>1. proc' = [proc EXCEPT ![g] = newProc("failing")]
        BY <2>3 DEF End
      <3> QED BY <1>1, <2>1, <3>1, ResetStep DEF PC, Exchanged
    <2> QED BY <1>3, <2>2, <2>3 DEF ProviderConfig
  <1>4. CASE ReportRunning(g)
    <2>1. status' \in {"none", "pending", "running", "terminated"}
          /\ UNCHANGED <<candidates, nat, sent, crashes>>
          /\ Goto(g, "running") /\ proc[g].pc = "report"
      BY <1>4, StatusType DEF ReportRunning, At
    <2> QED BY <1>1, <2>1, ProcEnds, SentKept, GotoStep DEF PC, Exchanged, Punched
  <1>5. CASE ReportFailed(g)
    <2>1. status' \in {"none", "pending", "running", "terminated"}
          /\ UNCHANGED <<candidates, nat, sent, crashes>>
          /\ Goto(g, "failed") /\ proc[g].pc = "failing"
      BY <1>5, StatusType DEF ReportFailed, At
    <2> QED BY <1>1, <2>1, ProcEnds, SentKept, GotoStep DEF PC, Exchanged, Punched
  <1> QED BY <1>2, <1>3, <1>4, <1>5

LEMMA ProbeSkipSend ==
    ASSUME RInv, NEW x \in Procs, ProbeSkip(x) \/ ProbeSend(x)
    PROVE  RInv'
  <1>1. CASE ProbeSkip(x)
    <2>1. status' \in {"none", "pending", "running", "terminated"}
          /\ UNCHANGED <<candidates, nat, sent, crashes>>
          /\ Goto(x, "fallback") /\ proc[x].pc = "connect"
      BY <1>1, StatusType DEF ProbeSkip, At
    <2> QED BY <2>1, SentKept, GotoStep DEF PC, Exchanged, Punched
  <1>2. CASE ProbeSend(x)
    <2>1. status' \in {"none", "pending", "running", "terminated"}
          /\ UNCHANGED <<candidates, nat, crashes>>
          /\ Goto(x, "probing") /\ proc[x].pc = "connect"
          /\ sent' = sent \cup packets(peerOf(x), "PCPR", remoteCandidates(x))
      BY <1>2, StatusType DEF ProbeSend, At
    <2>2. \A a \in remoteCandidates(x) : a[1] = other(peerOf(x))
      BY DEF remoteCandidates
    <2>3. nat \in [Peers -> BOOLEAN]
          /\ sent \subseteq [to : Peers, magic : {"PCPR", "PCPA"}, raddr : Address]
      BY DEF RInv, TypeOK
    <2>4. \A pkt \in packets(peerOf(x), "PCPR", remoteCandidates(x)) :
            /\ pkt \in [to : Peers, magic : {"PCPR", "PCPA"}, raddr : Address]
            /\ pkt.raddr = seenAs(other(pkt.to))
      BY <2>2, <2>3, PacketFacts
    <2>5. \A e : seenAs(e)' = seenAs(e)
      BY <2>1 DEF seenAs
    <2>6. PacketsKnown'
      BY <2>1, <2>4, <2>5 DEF RInv, PacketsKnown
    <2>7. sent' \subseteq [to : Peers, magic : {"PCPR", "PCPA"}, raddr : Address]
      BY <2>1, <2>3, <2>4
    <2> QED BY <2>1, <2>6, <2>7, GotoStep DEF PC, Exchanged, Punched
  <1> QED BY <1>1, <1>2

\* A process between "connect" and "config" gets another record.
LEMMA ProbeEdit ==
    ASSUME RInv, NEW x \in Procs, proc[x].pc \in {"probing", "fallback"},
           NEW new \in Process, proc' = [proc EXCEPT ![x] = new],
           new.pc \in {"probing", "fallback", "config"},
           new.resp = proc[x].resp, new.cands = proc[x].cands,
           new.endpoint # None => new.endpoint = seenAs(other(peerOf(x))),
           new.mode = "holepunch" => new.endpoint # None /\ new.pc = "config",
           UNCHANGED <<status, candidates, nat, crashes>>,
           sent' \subseteq [to : Peers, magic : {"PCPR", "PCPA"}, raddr : Address],
           PacketsKnown'
    PROVE  RInv'
  <1>1. proc \in [Procs -> Process]
    BY DEF RInv, TypeOK
  <1>2. proc'[x] = new /\ \A y \in Procs \ {x} : proc'[y] = proc[y]
    BY <1>1
  <1>3. TypeOK'
    BY <1>1 DEF RInv, TypeOK
  <1> QED BY <1>2, <1>3, GoOnStep DEF Exchanged, Punched

LEMMA ProbeReceiveStep ==
    ASSUME RInv, NEW x \in Procs, NEW pkt \in sent, ProbeReceive(x, pkt)
    PROVE  RInv'
  <1> DEFINE ep == firstResult(x, pkt.raddr)
             new == [proc[x] EXCEPT !.endpoint = ep]
  <1>1. proc[x] \in Process /\ proc[x].pc = "probing" /\ nat \in [Peers -> BOOLEAN]
        /\ sent \subseteq [to : Peers, magic : {"PCPR", "PCPA"}, raddr : Address]
    BY DEF RInv, TypeOK, ProbeReceive, At
  <1>2. /\ pkt.to = peerOf(x) /\ pkt.raddr = seenAs(other(peerOf(x)))
        /\ pkt.raddr \in Address /\ pkt.raddr[1] = other(peerOf(x))
    <2>1. pkt.to = peerOf(x) /\ pkt.raddr = seenAs(other(peerOf(x)))
      BY DEF RInv, PacketsKnown, ProbeReceive
    <2> QED BY <1>1, <2>1, ProcEnds, SeenReaches
  <1>3. ProcKnown(x)
    BY DEF RInv
  <1>4. proc[x].endpoint \in Address \cup {None}
    BY <1>1 DEF Process
  <1>5. ep = seenAs(other(peerOf(x))) /\ ep \in Address
    BY <1>2, <1>3, <1>4 DEF firstResult, ProcKnown
  <1>6. proc[x].mode # "holepunch"
    BY <1>1, <1>3 DEF ProcKnown, Punched
  <1> HIDE DEF ep
  <1>7. /\ new \in Process /\ new.pc = "probing" /\ new.resp = proc[x].resp
        /\ new.cands = proc[x].cands /\ new.endpoint = ep /\ new.mode = proc[x].mode
    BY <1>1, <1>5 DEF Process
  <1>8. /\ proc' = [proc EXCEPT ![x] = new]
        /\ UNCHANGED <<status, candidates, nat, crashes>>
        /\ sent' = IF pkt.magic = "PCPR"
                   THEN sent \cup packets(peerOf(x), "PCPA", {pkt.raddr}) ELSE sent
    BY DEF ProbeReceive, ep
  <1> HIDE DEF new
  <1>9. \A q \in packets(peerOf(x), "PCPA", {pkt.raddr}) :
          /\ q \in [to : Peers, magic : {"PCPR", "PCPA"}, raddr : Address]
          /\ q.raddr = seenAs(other(q.to))
    BY <1>1, <1>2, PacketFacts
  <1>10. \A e : seenAs(e)' = seenAs(e)
    BY <1>8 DEF seenAs
  <1>11. sent' \subseteq sent \cup packets(peerOf(x), "PCPA", {pkt.raddr})
    BY <1>8
  <1>12. PacketsKnown'
    BY <1>9, <1>10, <1>11 DEF RInv, PacketsKnown
  <1>13. sent' \subseteq [to : Peers, magic : {"PCPR", "PCPA"}, raddr : Address]
    BY <1>1, <1>9, <1>11
  <1> QED BY <1>1, <1>5, <1>6, <1>7, <1>8, <1>12, <1>13, ProbeEdit

LEMMA ProbeEnds ==
    ASSUME RInv, NEW x \in Procs, ProbeSucceeds(x) \/ ProbeTimeout(x)
    PROVE  RInv'
  <1>1. proc[x] \in Process /\ proc[x].pc = "probing" /\ ProcKnown(x)
    BY DEF RInv, TypeOK, ProbeSucceeds, ProbeTimeout, At
  <1>2. UNCHANGED <<status, candidates, nat, sent, crashes>>
    BY DEF ProbeSucceeds, ProbeTimeout
  <1>3. CASE ProbeSucceeds(x)
    <2> DEFINE new == [proc[x] EXCEPT !.pc = "config", !.mode = "holepunch"]
    <2>1. /\ new \in Process /\ new.pc = "config" /\ new.resp = proc[x].resp
          /\ new.cands = proc[x].cands /\ new.endpoint = proc[x].endpoint
      BY <1>1 DEF Process, PC, Mode
    <2>2. proc' = [proc EXCEPT ![x] = new] /\ proc[x].endpoint # None
      BY <1>3 DEF ProbeSucceeds
    <2> HIDE DEF new
    <2>3. new.endpoint = seenAs(other(peerOf(x)))
      BY <1>1, <2>1, <2>2 DEF ProcKnown
    <2> QED BY <1>1, <1>2, <2>1, <2>2, <2>3, SentKept, ProbeEdit
  <1>4. CASE ProbeTimeout(x)
    <2> DEFINE new == [proc[x] EXCEPT !.pc = "fallback", !.endpoint = None]
    <2>1. /\ new \in Process /\ new.pc = "fallback" /\ new.resp = proc[x].resp
          /\ new.cands = proc[x].cands /\ new.endpoint = None /\ new.mode = proc[x].mode
      BY <1>1 DEF Process, PC
    <2>2. proc' = [proc EXCEPT ![x] = new]
      BY <1>4 DEF ProbeTimeout
    <2> HIDE DEF new
    <2>3. proc[x].mode # "holepunch"
      BY <1>1 DEF ProcKnown, Punched
    <2> QED BY <1>1, <1>2, <2>1, <2>2, <2>3, SentKept, ProbeEdit
  <1> QED BY <1>3, <1>4

LEMMA FallbackStep ==
    ASSUME RInv, NEW x \in Procs, Fallback(x)
    PROVE  RInv'
  <1>1. proc[x] \in Process /\ proc[x].pc = "fallback" /\ ProcKnown(x)
    BY DEF RInv, TypeOK, Fallback, At
  <1>2. UNCHANGED <<status, candidates, nat, sent, crashes>>
    BY DEF Fallback
  <1>3. ASSUME NEW mode \in {"relay", "direct"},
               proc' = [proc EXCEPT ![x].pc = "config", ![x].mode = mode]
        PROVE  RInv'
    <2> DEFINE new == [proc[x] EXCEPT !.pc = "config", !.mode = mode]
    <2>1. /\ new \in Process /\ new.pc = "config" /\ new.resp = proc[x].resp
          /\ new.cands = proc[x].cands /\ new.endpoint = proc[x].endpoint
          /\ new.mode # "holepunch"
      BY <1>1 DEF Process, PC, Mode
    <2>2. proc' = [proc EXCEPT ![x] = new]
      BY <1>3
    <2> HIDE DEF new
    <2>3. new.endpoint # None => new.endpoint = seenAs(other(peerOf(x)))
      BY <1>1, <2>1 DEF ProcKnown
    <2> QED BY <1>1, <1>2, <2>1, <2>2, <2>3, SentKept, ProbeEdit
  <1>4. CASE End(x, "failed")
    <2>1. proc' = [proc EXCEPT ![x] = newProc("failed")]
      BY <1>4 DEF End
    <2> QED BY <1>2, <2>1, StatusType, ResetStep DEF PC, Exchanged
  <1> QED BY <1>3, <1>4 DEF Fallback

LEMMA CrashStep ==
    ASSUME RInv, Crash
    PROVE  RInv'
  <1>1. proc \in [Procs -> Process] /\ UNCHANGED <<status, candidates, nat, sent>>
    BY DEF RInv, TypeOK, Crash
  <1>2. /\ newProc("dead") \in Process /\ newProc("dead").pc = "dead"
        /\ newProc("dead").resp.key = None /\ ~newProc("dead").resp.ok
        /\ newProc("dead").endpoint = None /\ newProc("dead").mode = "unset"
    BY NewProcType DEF PC
  <1>3. proc' = [x \in Procs |-> IF x \in Starts /\ tracked(x)
                                THEN newProc("dead") ELSE proc[x]]
    BY DEF Crash
  <1>4. \A x \in Procs : \/ x \in Starts /\ proc'[x] = newProc("dead")
                         \/ proc'[x] = proc[x]
    BY <1>3
  <1>5. proc' \in [Procs -> Process]
    BY <1>1, <1>2, <1>3
  <1>6. crashes' \in 0..MaxCrashes
    BY RendezvousAssumption DEF RInv, TypeOK, Crash
  <1>7. TypeOK' /\ PacketsKnown'
    BY <1>1, <1>5, <1>6, SentKept DEF RInv, TypeOK
  <1>8. Invocations \subseteq Procs /\ Starts \subseteq Procs
    BY DEF Procs
  <1>9. \A c \in Invocations : proc'[c] = proc[c]
    BY <1>4, <1>8, ProcEnds
  <1>10. EntriesKnown' /\ SetsMatch'
    BY <1>1, <1>9 DEF RInv, EntriesKnown, SetsMatch, At
  <1>11. ASSUME NEW x \in Procs
         PROVE  ProcKnown(x)'
    <2>1. ProcKnown(x)
      BY DEF RInv
    <2>2. seenAs(other(peerOf(x)))' = seenAs(other(peerOf(x)))
      BY <1>1 DEF seenAs
    <2>3. CASE proc'[x] = proc[x]
      BY <1>9, <2>1, <2>2, <2>3 DEF ProcKnown, At
    <2>4. CASE x \in Starts /\ proc'[x] = newProc("dead")
      BY <1>2, <2>4, ProcEnds DEF ProcKnown
    <2> QED BY <1>4, <2>3, <2>4
  <1>12. ExchangesMeet'
    BY <1>1, <1>2, <1>4, <1>8, <1>9 DEF RInv, ExchangesMeet
  <1> QED BY <1>7, <1>10, <1>11, <1>12 DEF RInv

LEMMA TerminateStep ==
    ASSUME RInv, TerminateSession
    PROVE  RInv'
  <1>1. /\ status' = "terminated" /\ UNCHANGED <<proc, nat, sent, crashes>>
        /\ candidates' = [e \in Peers |-> noEntry]
    BY DEF TerminateSession
  <1>2. noEntry \in CandidateSet /\ noEntry.key = None
    BY DEF noEntry, CandidateSet
  <1>3. candidates' \in [Peers -> CandidateSet]
        /\ candidates'["renter"].key = None /\ candidates'["provider"].key = None
    BY <1>1, <1>2 DEF Peers
  <1>4. TypeOK' /\ PacketsKnown'
    BY <1>1, <1>3, SentKept DEF RInv, TypeOK
  <1>5. EntriesKnown' /\ SetsMatch' /\ ExchangesMeet'
    BY <1>3, ProcEnds DEF EntriesKnown, SetsMatch, ExchangesMeet
  <1>6. \A x \in Procs : ProcKnown(x)'
    BY <1>1 DEF RInv, ProcKnown, seenAs, At
  <1> QED BY <1>4, <1>5, <1>6 DEF RInv
-----------------------------------------------------------------------------
(* Exchanges.                                                              *)

\* A renter's process files its set, or the call is lost.
LEMMA RenterFiles ==
    ASSUME RInv, NEW c \in Invocations, NEW cands \in SUBSET Kind,
           candidates' \in {candidates, withEntry(candidates, c, cands)},
           TypeOK', UNCHANGED <<nat, sent>>,
           \A y \in Procs \ {c} : proc'[y] = proc[y],
           proc'[c].pc # "unused", ProcKnown(c)',
           proc'[c].pc \in Exchanged =>
               /\ proc'[c].cands = cands
               /\ \/ candidates' = withEntry(candidates, c, cands)
                  \/ proc[c].pc \in Exchanged /\ proc[c].cands = cands,
           proc'[c].resp.ok /\ proc'[c].pc \notin {"exchange", "poll"} =>
               proc'[c].resp.key = candidates["provider"].key
    PROVE  RInv'
  <1>1. /\ c \in Procs /\ peerOf(c) = "renter" /\ other("renter") = "provider"
        /\ Invocations \subseteq Procs /\ Starts \subseteq Procs \ {c} /\ c # None
    BY ProcEnds DEF Procs, other
  <1>2. candidates \in [Peers -> CandidateSet]
    BY DEF RInv, TypeOK
  <1>3. /\ candidates'["provider"] = candidates["provider"]
        /\ \/ candidates' = candidates
           \/ candidates'["renter"].key = c /\ candidates'["renter"].cands = cands
        /\ candidates' = withEntry(candidates, c, cands) =>
             candidates'["renter"].cands = cands
    BY <1>1, <1>2, EntryFacts
  <1>4. \A y \in Procs : At(y, "unused")' => At(y, "unused")
    BY DEF At
  <1>5. EntriesKnown'
    BY <1>1, <1>3, <1>4 DEF RInv, EntriesKnown, At
  <1>6. SetsMatch'
    <2> SUFFICES ASSUME NEW d \in Invocations, candidates'["renter"].key = d,
                        proc'[d].pc \in Exchanged
                 PROVE  candidates'["renter"].cands = proc'[d].cands
      BY DEF SetsMatch
    <2>1. CASE d = c
      BY <1>3, <2>1 DEF RInv, SetsMatch
    <2>2. CASE d # c
      BY <1>1, <1>3, <2>2 DEF RInv, SetsMatch
    <2> QED BY <2>1, <2>2
  <1>7. ExchangesMeet'
    <2> SUFFICES ASSUME NEW d \in Invocations, NEW g \in Starts,
                        candidates'["renter"].key = d, candidates'["provider"].key = g,
                        proc'[d].pc \notin {"exchange", "poll"}, proc'[d].resp.ok,
                        proc'[g].pc # "exchange", proc'[g].resp.ok
                 PROVE  proc'[d].resp.key = g \/ proc'[g].resp.cands = proc'[d].cands
      BY DEF ExchangesMeet
    <2>1. CASE d = c
      BY <1>3, <2>1
    <2>2. CASE d # c
      <3>1. candidates' = candidates /\ proc'[d] = proc[d] /\ proc'[g] = proc[g]
        BY <1>1, <1>3, <2>2
      <3> QED BY <3>1 DEF RInv, ExchangesMeet
    <2> QED BY <2>1, <2>2
  <1>8. PacketsKnown'
    BY SentKept
  <1>9. ASSUME NEW y \in Procs \ {c}
        PROVE  ProcKnown(y)'
    <2>1. ProcKnown(y) /\ proc'[y] = proc[y]
      BY DEF RInv
    <2>2. seenAs(other(peerOf(y)))' = seenAs(other(peerOf(y)))
      BY DEF seenAs
    <2> QED BY <1>1, <1>4, <2>1, <2>2 DEF ProcKnown
  <1> QED BY <1>5, <1>6, <1>7, <1>8, <1>9 DEF RInv

LEMMA CreateSessionKeyStep ==
    ASSUME RInv, NEW c \in Invocations, CreateSessionKey(c)
    PROVE  RInv'
  <1>1. c \in Procs /\ c \notin Starts
    BY ProcEnds DEF Procs
  <1>2. PICK pc \in {"exchange", "closed"} : Goto(c, pc)
    BY DEF CreateSessionKey
  <1>3. /\ proc[c].pc \in {"key", "keyOnly"} /\ UNCHANGED <<status, nat, sent, crashes>>
        /\ candidates' = withEntry(candidates, c, {})
    BY DEF CreateSessionKey
  <1> DEFINE new == [proc[c] EXCEPT !.pc = pc]
  <1>4. proc \in [Procs -> Process] /\ proc[c] \in Process /\ ProcKnown(c)
        /\ candidates \in [Peers -> CandidateSet]
    BY <1>1 DEF RInv, TypeOK
  <1>5. /\ new \in Process /\ new.pc = pc /\ new.resp = proc[c].resp
        /\ new.endpoint = proc[c].endpoint /\ new.mode = proc[c].mode
    BY <1>4 DEF Process, PC
  <1>6. proc' = [proc EXCEPT ![c] = new]
    BY <1>2 DEF Goto
  <1> HIDE DEF new
  <1>7. proc'[c] = new /\ \A y \in Procs \ {c} : proc'[y] = proc[y]
    BY <1>1, <1>4, <1>6
  <1>8. TypeOK'
    BY <1>1, <1>3, <1>4, <1>5, <1>6, EntryFacts DEF RInv, TypeOK
  <1>9. ~new.resp.ok /\ new.mode # "holepunch"
    BY <1>3, <1>4, <1>5 DEF ProcKnown, Exchanged, Punched
  <1>10. ProcKnown(c)'
    <2>1. seenAs(other(peerOf(c)))' = seenAs(other(peerOf(c)))
      BY <1>3 DEF seenAs
    <2> QED BY <1>1, <1>4, <1>5, <1>7, <1>9, <2>1 DEF ProcKnown
  <1>11. pc \notin Exchanged /\ pc # "unused"
    BY DEF Exchanged
  <1> QED BY <1>3, <1>5, <1>7, <1>8, <1>9, <1>10, <1>11, RenterFiles

LEMMA GathersType == \A cands \in GatherCandidates : cands \in SUBSET Kind
  BY RendezvousAssumption DEF GatherCandidates, Kind

\* What a call of ExchangeCandidates leaves.
LEMMA ExchangeFacts ==
    ASSUME RInv, NEW x \in Procs, NEW cands \in SUBSET Kind,
           NEW resp \in Answers(x, cands), ExchangeCandidates(x, cands, resp)
    PROVE  /\ candidates' \in {candidates, withEntry(candidates, x, cands)}
           /\ candidates' \in [Peers -> CandidateSet]
           /\ resp \in Response
           /\ \/ /\ resp.ok /\ candidates' = withEntry(candidates, x, cands)
                 /\ resp.key = candidates[other(peerOf(x))].key
                 /\ resp.cands = candidates[other(peerOf(x))].cands
              \/ ~resp.ok /\ resp.key = None /\ resp.cands = {}
  <1>1. candidates \in [Peers -> CandidateSet]
    BY DEF RInv, TypeOK
  <1>2. /\ noResponse \in Response /\ noResponse.ok = FALSE /\ noResponse.key = None
        /\ noResponse.cands = {}
    BY DEF noResponse, Response
  <1>3. CASE resp = exchanged(x, cands) /\ candidates' = withEntry(candidates, x, cands)
    BY <1>1, <1>3, EntryFacts, ExchangedFacts
  <1>4. CASE resp = noResponse
             /\ candidates' \in {candidates, withEntry(candidates, x, cands)}
    BY <1>1, <1>2, <1>4, EntryFacts
  <1> QED BY <1>3, <1>4 DEF ExchangeCandidates

\* An exchange of a renter's process that goes on with the answer.
LEMMA RenterAnswered ==
    ASSUME RInv, NEW c \in Invocations, NEW cands \in SUBSET Kind,
           NEW resp \in Answers(c, cands), ExchangeCandidates(c, cands, resp),
           proc[c].pc \in {"exchange", "poll"},
           proc[c].pc = "exchange" => resp.ok,
           proc[c].pc = "poll" => cands = proc[c].cands,
           NEW new \in Process, proc' = [proc EXCEPT ![c] = new],
           new.pc \in {"poll", "connect"}, new.cands = cands, new.resp = resp,
           new.mode = proc[c].mode, new.endpoint = proc[c].endpoint,
           UNCHANGED <<status, nat, sent, crashes>>
    PROVE  RInv'
  <1>1. c \in Procs /\ c \notin Starts /\ other(peerOf(c)) = "provider"
    BY ProcEnds DEF Procs, other
  <1>2. /\ candidates' \in {candidates, withEntry(candidates, c, cands)}
        /\ candidates' \in [Peers -> CandidateSet]
        /\ \/ /\ resp.ok /\ candidates' = withEntry(candidates, c, cands)
              /\ resp.key = candidates["provider"].key
           \/ ~resp.ok /\ resp.key = None
    BY <1>1, ExchangeFacts
  <1>3. proc \in [Procs -> Process] /\ ProcKnown(c)
    BY <1>1 DEF RInv, TypeOK
  <1>4. proc'[c] = new /\ \A y \in Procs \ {c} : proc'[y] = proc[y]
    BY <1>1, <1>3
  <1>5. TypeOK'
    BY <1>2, <1>3 DEF RInv, TypeOK
  <1>6. resp.key \in {None} \cup Starts
    BY <1>2 DEF RInv, EntriesKnown
  <1>7. new.mode # "holepunch"
    BY <1>3 DEF ProcKnown, Punched
  <1>8. ProcKnown(c)'
    <2>1. seenAs(other(peerOf(c)))' = seenAs(other(peerOf(c)))
      BY DEF seenAs
    <2> QED BY <1>1, <1>3, <1>4, <1>6, <1>7, <2>1 DEF ProcKnown, Exchanged
  <1>9. \/ candidates' = withEntry(candidates, c, cands)
        \/ proc[c].pc \in Exchanged /\ proc[c].cands = cands
    BY <1>2 DEF Exchanged
  <1> QED BY <1>2, <1>4, <1>5, <1>8, <1>9, RenterFiles

LEMMA RenterExchangeStep ==
    ASSUME RInv, NEW c \in Invocations, RenterExchange(c)
    PROVE  RInv'
  <1>1. c \in Procs /\ c \notin Starts
    BY ProcEnds DEF Procs
  <1>2. PICK cands \in GatherCandidates : \E resp \in Answers(c, cands) :
          /\ ExchangeCandidates(c, cands, resp)
          /\ IF resp.ok
             THEN proc' = [proc EXCEPT ![c].cands = cands, ![c].resp = resp,
                              ![c].pc = IF resp.cands = {} THEN "poll" ELSE "connect"]
             ELSE End(c, "failed")
    BY DEF RenterExchange
  <1>3. PICK resp \in Answers(c, cands) :
          /\ ExchangeCandidates(c, cands, resp)
          /\ IF resp.ok
             THEN proc' = [proc EXCEPT ![c].cands = cands, ![c].resp = resp,
                              ![c].pc = IF resp.cands = {} THEN "poll" ELSE "connect"]
             ELSE End(c, "failed")
    BY <1>2
  <1>4. cands \in SUBSET Kind
    BY GathersType
  <1>5. proc[c].pc = "exchange" /\ UNCHANGED <<status, nat, sent, crashes>>
    BY DEF RenterExchange, At
  <1>6. /\ candidates' \in {candidates, withEntry(candidates, c, cands)}
        /\ candidates' \in [Peers -> CandidateSet] /\ resp \in Response
    BY <1>1, <1>3, <1>4, ExchangeFacts
  <1>7. proc \in [Procs -> Process] /\ proc[c] \in Process
    BY <1>1 DEF RInv, TypeOK
  <1>8. CASE resp.ok
    <2>1. PICK pc \in {"poll", "connect"} :
            proc' = [proc EXCEPT ![c].cands = cands, ![c].resp = resp, ![c].pc = pc]
      BY <1>3, <1>8
    <2> DEFINE new == [proc[c] EXCEPT !.cands = cands, !.resp = resp, !.pc = pc]
    <2>2. /\ new \in Process /\ new.pc = pc /\ new.cands = cands /\ new.resp = resp
          /\ new.mode = proc[c].mode /\ new.endpoint = proc[c].endpoint
      BY <1>4, <1>6, <1>7 DEF Process, PC
    <2>3. proc' = [proc EXCEPT ![c] = new]
      BY <2>1
    <2> HIDE DEF new
    <2> QED BY <1>3, <1>4, <1>5, <1>8, <2>2, <2>3, RenterAnswered
  <1>9. CASE ~resp.ok
    <2>1. proc' = [proc EXCEPT ![c] = newProc("failed")]
      BY <1>3, <1>9 DEF End
    <2>2. /\ newProc("failed") \in Process
          /\ newProc("failed").pc = "failed" /\ newProc("failed").resp.key = None
          /\ ~newProc("failed").resp.ok
          /\ newProc("failed").endpoint = None /\ newProc("failed").mode = "unset"
      BY NewProcType DEF PC
    <2>3. proc'[c] = newProc("failed") /\ \A y \in Procs \ {c} : proc'[y] = proc[y]
      BY <1>1, <1>7, <2>1
    <2>4. TypeOK'
      BY <1>5, <1>6, <1>7, <2>1, <2>2 DEF RInv, TypeOK
    <2>5. ProcKnown(c)'
      BY <1>1, <2>2, <2>3 DEF ProcKnown
    <2>6. "failed" \notin Exchanged
      BY DEF Exchanged
    <2> QED BY <1>4, <1>5, <1>6, <2>2, <2>3, <2>4, <2>5, <2>6, RenterFiles
  <1> QED BY <1>8, <1>9

LEMMA RenterPollStep ==
    ASSUME RInv, NEW c \in Invocations, RenterPoll(c)
    PROVE  RInv'
  <1> DEFINE cands == proc[c].cands
  <1>1. c \in Procs /\ c \notin Starts
    BY ProcEnds DEF Procs
  <1>2. PICK resp \in Answers(c, cands) :
          /\ ExchangeCandidates(c, cands, resp)
          /\ IF resp.cands = {} /\ attempts(c) < MaxAttempts
             THEN proc' = [proc EXCEPT ![c].resp = resp, ![c].attempt = attempts(c)]
             ELSE proc' = [proc EXCEPT ![c].resp = resp, ![c].attempt = 0,
                                       ![c].pc = "connect"]
    BY DEF RenterPoll
  <1>3. proc[c].pc = "poll" /\ UNCHANGED <<status, nat, sent, crashes>>
    BY DEF RenterPoll, At
  <1>4. proc \in [Procs -> Process] /\ proc[c] \in Process
    BY <1>1 DEF RInv, TypeOK
  <1>5. cands \in SUBSET Kind /\ proc[c].attempt \in 0..MaxAttempts
    BY <1>4 DEF Process
  <1>6. resp \in Response
    BY <1>1, <1>2, <1>5, ExchangeFacts
  <1>7. PICK n \in 0..MaxAttempts, pc \in {"poll", "connect"} :
          proc' = [proc EXCEPT ![c] = [proc[c] EXCEPT !.resp = resp, !.attempt = n,
                                                      !.pc = pc]]
    <2>1. CASE resp.cands = {} /\ attempts(c) < MaxAttempts
      <3>1. attempts(c) \in 0..MaxAttempts
        BY <1>5, <2>1, RendezvousAssumption DEF attempts
      <3>2. [proc[c] EXCEPT !.resp = resp, !.attempt = attempts(c)]
              = [proc[c] EXCEPT !.resp = resp, !.attempt = attempts(c), !.pc = "poll"]
        BY <1>3, <1>4 DEF Process
      <3>3. proc' = [proc EXCEPT ![c] = [proc[c] EXCEPT !.resp = resp,
                                                        !.attempt = attempts(c)]]
        BY <1>2, <2>1
      <3> QED BY <3>1, <3>2, <3>3
    <2>2. CASE ~(resp.cands = {} /\ attempts(c) < MaxAttempts)
      <3>1. 0 \in 0..MaxAttempts
        BY RendezvousAssumption
      <3>2. proc' = [proc EXCEPT ![c] = [proc[c] EXCEPT !.resp = resp, !.attempt = 0,
                                                        !.pc = "connect"]]
        BY <1>2, <2>2
      <3> QED BY <3>1, <3>2
    <2> QED BY <2>1, <2>2
  <1> DEFINE new == [proc[c] EXCEPT !.resp = resp, !.attempt = n, !.pc = pc]
  <1>8. /\ new \in Process /\ new.pc = pc /\ new.cands = cands /\ new.resp = resp
        /\ new.mode = proc[c].mode /\ new.endpoint = proc[c].endpoint
    BY <1>4, <1>6 DEF Process, PC
  <1>9. proc' = [proc EXCEPT ![c] = new]
    BY <1>7
  <1> HIDE DEF new
  <1> QED BY <1>2, <1>3, <1>5, <1>8, <1>9, RenterAnswered

LEMMA ProviderExchangeStep ==
    ASSUME RInv, NEW g \in Starts, ProviderExchange(g)
    PROVE  RInv'
  <1>1. /\ g \in Procs /\ g \notin Invocations /\ peerOf(g) = "provider"
        /\ other(peerOf(g)) = "renter" /\ g # None
        /\ Invocations \subseteq Procs \ {g} /\ Starts \subseteq Procs
    BY ProcEnds DEF Procs, other
  <1>2. PICK cands \in GatherCandidates : \E resp \in Answers(g, cands) :
          /\ ExchangeCandidates(g, cands, resp)
          /\ IF keyMissing(resp)
             THEN End(g, "failing")
             ELSE proc' = [proc EXCEPT ![g].cands = cands, ![g].resp = resp,
                                       ![g].pc = "connect"]
    BY DEF ProviderExchange
  <1>3. PICK resp \in Answers(g, cands) :
          /\ ExchangeCandidates(g, cands, resp)
          /\ IF keyMissing(resp)
             THEN End(g, "failing")
             ELSE proc' = [proc EXCEPT ![g].cands = cands, ![g].resp = resp,
                                       ![g].pc = "connect"]
    BY <1>2
  <1>4. cands \in SUBSET Kind
    BY GathersType
  <1>5. proc[g].pc = "exchange" /\ UNCHANGED <<status, nat, sent, crashes>>
    BY DEF ProviderExchange, At
  <1>6. /\ candidates' \in {candidates, withEntry(candidates, g, cands)}
        /\ candidates' \in [Peers -> CandidateSet] /\ resp \in Response
        /\ \/ /\ resp.key = candidates["renter"].key
              /\ resp.cands = candidates["renter"].cands
           \/ resp.key = None
    BY <1>1, <1>3, <1>4, ExchangeFacts
  <1>7. /\ proc \in [Procs -> Process] /\ proc[g] \in Process /\ ProcKnown(g)
        /\ candidates \in [Peers -> CandidateSet]
    BY <1>1 DEF RInv, TypeOK
  <1>8. /\ candidates'["renter"] = candidates["renter"]
        /\ candidates' = candidates \/ candidates'["provider"].key = g
    BY <1>1, <1>4, <1>6, <1>7, EntryFacts
  <1>9. PICK new \in Process :
          /\ proc' = [proc EXCEPT ![g] = new]
          /\ \/ /\ new.pc = "failing" /\ ~new.resp.ok /\ new.resp.key = None
                /\ new.endpoint = None /\ new.mode = "unset"
             \/ /\ new.pc = "connect" /\ new.resp = resp /\ resp.key # None
                /\ new.endpoint = proc[g].endpoint /\ new.mode = proc[g].mode
    <2>1. CASE keyMissing(resp)
      <3>1. proc' = [proc EXCEPT ![g] = newProc("failing")]
        BY <1>3, <2>1 DEF End
      <3> QED BY <3>1, NewProcType DEF PC
    <2>2. CASE ~keyMissing(resp)
      <3> DEFINE rec == [proc[g] EXCEPT !.cands = cands, !.resp = resp, !.pc = "connect"]
      <3>1. /\ rec \in Process /\ rec.pc = "connect" /\ rec.resp = resp
            /\ rec.endpoint = proc[g].endpoint /\ rec.mode = proc[g].mode
        BY <1>4, <1>6, <1>7 DEF Process, PC
      <3>2. proc' = [proc EXCEPT ![g] = rec] /\ resp.key # None
        BY <1>3, <2>2 DEF keyMissing
      <3> HIDE DEF rec
      <3> QED BY <3>1, <3>2
    <2> QED BY <2>1, <2>2
  <1>10. proc'[g] = new /\ \A y \in Procs \ {g} : proc'[y] = proc[y]
    BY <1>1, <1>7, <1>9
  <1>11. TypeOK' /\ PacketsKnown'
    BY <1>5, <1>6, <1>7, <1>9, SentKept DEF RInv, TypeOK
  <1>12. EntriesKnown' /\ SetsMatch'
    BY <1>1, <1>8, <1>10 DEF RInv, EntriesKnown, SetsMatch, At
  <1>13. new.mode # "holepunch"
    BY <1>5, <1>7, <1>9 DEF ProcKnown, Punched
  <1>14. \A e : seenAs(e)' = seenAs(e)
    BY <1>5 DEF seenAs
  <1>15. ProcKnown(g)'
    <2>1. new.resp.key \in {None} \cup Invocations
      BY <1>6, <1>9 DEF RInv, EntriesKnown
    <2>2. \A c \in Invocations : new.resp.key = c => ~At(c, "unused")'
      BY <1>1, <1>6, <1>9, <1>10, ProcEnds DEF RInv, EntriesKnown, At
    <2> QED BY <1>1, <1>7, <1>9, <1>10, <1>13, <1>14, <2>1, <2>2 DEF ProcKnown
  <1>16. ASSUME NEW y \in Procs \ {g}
         PROVE  ProcKnown(y)'
    <2>1. ProcKnown(y) /\ proc'[y] = proc[y]
      BY <1>10 DEF RInv
    <2> QED BY <1>1, <1>10, <1>14, <2>1 DEF ProcKnown, At
  <1>17. ExchangesMeet'
    <2> SUFFICES ASSUME NEW c \in Invocations, NEW h \in Starts,
                        candidates'["renter"].key = c, candidates'["provider"].key = h,
                        proc'[c].pc \notin {"exchange", "poll"}, proc'[c].resp.ok,
                        proc'[h].pc # "exchange", proc'[h].resp.ok
                 PROVE  proc'[c].resp.key = h \/ proc'[h].resp.cands = proc'[c].cands
      BY DEF ExchangesMeet
    <2>1. proc'[c] = proc[c] /\ ProcKnown(c)
      BY <1>1, <1>10 DEF RInv
    <2>2. CASE h = g
      <3>1. new.resp = resp /\ resp.cands = candidates["renter"].cands
        BY <1>6, <1>9, <1>10, <2>2
      <3>2. proc[c].pc \in Exchanged
        BY <2>1 DEF ProcKnown
      <3> QED BY <1>8, <1>10, <2>1, <2>2, <3>1, <3>2 DEF RInv, SetsMatch
    <2>3. CASE h # g
      BY <1>1, <1>8, <1>10, <2>1, <2>3 DEF RInv, ExchangesMeet
    <2> QED BY <2>2, <2>3
  <1> QED BY <1>11, <1>12, <1>15, <1>16, <1>17 DEF RInv
-----------------------------------------------------------------------------
(* The theorems.                                                           *)

LEMMA NextRInv ==
    ASSUME RInv, [Next]_vars
    PROVE  RInv'
  <1>1. ASSUME NEW c \in Invocations,
               \/ \E flagConnect \in BOOLEAN : CreateSession(c, flagConnect)
               \/ ConnectSession(c) \/ Interrupt(c) \/ RenterStep(c)
        PROVE  RInv'
    BY <1>1, InvocationSteps, CreateSessionKeyStep, RenterExchangeStep, RenterPollStep
       DEF RenterStep
  <1>2. ASSUME NEW g \in Starts, StartSession(g) \/ ProviderStep(g)
        PROVE  RInv'
    BY <1>2, StartSteps, ProviderExchangeStep DEF ProviderStep
  <1>3. ASSUME NEW x \in Procs, ProbeStep(x)
        PROVE  RInv'
    BY <1>3, ProbeSkipSend, ProbeEnds, FallbackStep DEF ProbeStep
  <1>4. ASSUME NEW x \in Procs, NEW pkt \in sent, ProbeReceive(x, pkt)
        PROVE  RInv'
    BY <1>4, ProbeReceiveStep
  <1>5. CASE TerminateSession \/ Crash
    BY <1>5, TerminateStep, CrashStep
  <1>6. CASE UNCHANGED vars
    <2>1. TypeOK' /\ EntriesKnown' /\ PacketsKnown' /\ SetsMatch' /\ ExchangesMeet'
      BY <1>6 DEF vars, RInv, TypeOK, EntriesKnown, PacketsKnown, SetsMatch, ExchangesMeet,
         seenAs, At
    <2>2. \A x \in Procs : ProcKnown(x)'
      BY <1>6 DEF vars, RInv, ProcKnown, seenAs, At
    <2> QED BY <2>1, <2>2 DEF RInv
  <1> QED BY <1>1, <1>2, <1>3, <1>4, <1>5, <1>6 DEF Next

LEMMA RendezvousInductive == Spec => []RInv
  <1>1. RInv /\ [Next]_vars => RInv'
    BY NextRInv
  <1> QED BY <1>1, InitRInv, PTL DEF Spec

\* The registry's sets, the processes and the packets keep their types; in particular
\* the attempts of retry.Do stay within its bound.
THEOREM RendezvousTyped == Spec => []TypeOK
  <1>1. RInv => TypeOK
    BY DEF RInv
  <1> QED BY <1>1, RendezvousInductive, PTL

\* startSession brings a tunnel up only with the key of a renter's process, for any
\* interleaving of CreateSession's two writes with the exchanges of the two ends.
THEOREM TunnelHasPeer == Spec => []ServesRenter
  <1>1. RInv => ServesRenter
    BY ProcEnds DEF RInv, ServesRenter, serving, ProcKnown, Procs
  <1> QED BY <1>1, RendezvousInductive, PTL

\* When "session create --connect" was the only invocation, what doConnect and
\* startSession configure as peers are each other.
THEOREM FirstConnectPaired == Spec => []FirstConnectPairs
  <1>1. ASSUME RInv
        PROVE  FirstConnectPairs
    <2> SUFFICES ASSUME NEW c \in Invocations, NEW g \in Starts,
                        only(c), serving(g), proc[c].resp.key = g
                 PROVE  proc[g].resp.key = c
      BY DEF FirstConnectPairs
    <2>1. /\ proc[g].resp.key \in Invocations
          /\ \A d \in Invocations : proc[g].resp.key = d => ~At(d, "unused")
      BY <1>1, ProcEnds DEF RInv, serving, ProcKnown, Procs
    <2> QED BY <2>1 DEF only
  <1>2. RInv => FirstConnectPairs
    BY <1>1
  <1> QED BY <1>2, RendezvousInductive, PTL

\* ExchangeCandidates makes the ends meet although the agent asks once: s.mu orders
\* the calls, and whoever comes second is given what the first has filed.
THEOREM ExchangesAlwaysMeet == Spec => []ExchangesMeet
  <1>1. RInv => ExchangesMeet
    BY DEF RInv
  <1> QED BY <1>1, RendezvousInductive, PTL

\* Probe returns an address at which packets reach the peer's WireGuard port.
THEOREM PunchedAddressReaches == Spec => []PunchedReaches
  <1>1. ASSUME RInv
        PROVE  PunchedReaches
    <2> SUFFICES ASSUME NEW x \in Procs, proc[x].mode = "holepunch"
                 PROVE  /\ proc[x].endpoint[1] = other(peerOf(x))
                        /\ reaches(proc[x].endpoint)
      BY DEF PunchedReaches
    <2>1. proc[x].endpoint = seenAs(other(peerOf(x))) /\ nat \in [Peers -> BOOLEAN]
      BY <1>1 DEF RInv, ProcKnown, TypeOK
    <2> QED BY <2>1, ProcEnds, SeenReaches
  <1>2. RInv => PunchedReaches
    BY <1>1
  <1> QED BY <1>2, RendezvousInductive, PTL
-----------------------------------------------------------------------------
(***************************************************************************)
(* Progress of the negotiation.  NegotiationEnds needs fairness, which is  *)
(* out of the prover's reach; that a process has only so many steps to     *)
(* take is proved here.                                                    *)
(***************************************************************************)
\* A bound on the steps of its own the process p can still take before it is
\* connected, running or over.
stepsLeft(p) ==
    CASE p.pc = "key"      -> MaxAttempts + 8
      [] p.pc = "exchange" -> MaxAttempts + 7
      [] p.pc = "poll"     -> MaxAttempts - p.attempt + 6
      [] p.pc = "connect"  -> 5
      [] p.pc = "probing"  -> 4
      [] p.pc = "fallback" -> 3
      [] p.pc = "config"   -> 2
      [] p.pc \in {"keyOnly", "report", "failing"} -> 1
      [] OTHER -> 0

\* A step of the process itself; users, crashes and packets are not meant.
OwnStep(x) ==
    \/ ProbeStep(x)
    \/ x \in Invocations /\ RenterStep(x)
    \/ x \in Starts /\ ProviderStep(x)

\* A process that has begun does not begin again and never gets further from its end,
\* and each of its own steps brings it closer.
ProcessesAdvance ==
    [][\A x \in Procs :
        /\ proc[x].pc # "unused" =>
            proc'[x].pc # "unused" /\ stepsLeft(proc'[x]) <= stepsLeft(proc[x])
        /\ OwnStep(x) => stepsLeft(proc'[x]) < stepsLeft(proc[x])]_vars

\* Nobody has begun before the session exists.
NoneBegun == status = "none" => \A x \in Procs : proc[x].pc = "unused"

ProgressInv == RInv /\ NoneBegun

Moves ==
    {<<"key", "exchange">>, <<"keyOnly", "closed">>, <<"exchange", "poll">>,
     <<"exchange", "connect">>, <<"exchange", "failed">>, <<"exchange", "failing">>,
     <<"poll", "connect">>, <<"connect", "fallback">>, <<"connect", "probing">>,
     <<"probing", "config">>, <<"probing", "fallback">>, <<"fallback", "config">>,
     <<"fallback", "failed">>, <<"config", "failed">>, <<"config", "connected">>,
     <<"config", "returned">>, <<"config", "report">>, <<"config", "failing">>,
     <<"report", "running">>, <<"failing", "failed">>}

\* The step takes x, and no other process, along one of the moves, or to its next
\* attempt.
Moved(x) ==
    /\ \A y \in Procs \ {x} : proc'[y] = proc[y]
    /\ \/ <<proc[x].pc, proc'[x].pc>> \in Moves
       \/ /\ proc[x].pc = "poll" /\ proc'[x].pc = "poll"
          /\ proc'[x].attempt = proc[x].attempt + 1 /\ proc[x].attempt + 1 < MaxAttempts

\* Writing one process.
LEMMA OneProc ==
    ASSUME TypeOK, NEW x \in Procs
    PROVE  /\ \A new : proc' = [proc EXCEPT ![x] = new] =>
                proc'[x] = new /\ \A y \in Procs \ {x} : proc'[y] = proc[y]
           /\ \A pc : Goto(x, pc) =>
                proc'[x].pc = pc /\ \A y \in Procs \ {x} : proc'[y] = proc[y]
           /\ \A pc \in PC : End(x, pc) =>
                proc'[x].pc = pc /\ \A y \in Procs \ {x} : proc'[y] = proc[y]
  <1>1. proc \in [Procs -> Process] /\ proc[x] \in Process
    BY DEF TypeOK
  <1>2. ASSUME NEW new, proc' = [proc EXCEPT ![x] = new]
        PROVE  proc'[x] = new /\ \A y \in Procs \ {x} : proc'[y] = proc[y]
    BY <1>1, <1>2
  <1>3. ASSUME NEW pc, Goto(x, pc)
        PROVE  proc'[x].pc = pc /\ \A y \in Procs \ {x} : proc'[y] = proc[y]
    <2>1. proc' = [proc EXCEPT ![x] = [proc[x] EXCEPT !.pc = pc]]
      BY <1>3 DEF Goto
    <2>2. [proc[x] EXCEPT !.pc = pc].pc = pc
      BY <1>1 DEF Process
    <2> QED BY <1>2, <2>1, <2>2
  <1>4. ASSUME NEW pc \in PC, End(x, pc)
        PROVE  proc'[x].pc = pc /\ \A y \in Procs \ {x} : proc'[y] = proc[y]
    BY <1>2, <1>4, NewProcType DEF End
  <1> QED BY <1>2, <1>3, <1>4

\* Every step of a process is one of the moves.
LEMMA OwnStepMoves ==
    ASSUME TypeOK, NEW x \in Procs, OwnStep(x)
    PROVE  Moved(x)
  <1>1. proc \in [Procs -> Process] /\ proc[x] \in Process
    BY DEF TypeOK
  <1>2. ASSUME NEW pc, Goto(x, pc), <<proc[x].pc, pc>> \in Moves
        PROVE  Moved(x)
    BY <1>2, OneProc DEF Moved
  <1>3. ASSUME NEW pc \in PC, End(x, pc), <<proc[x].pc, pc>> \in Moves
        PROVE  Moved(x)
    BY <1>3, OneProc DEF Moved
  <1>4. ASSUME NEW new \in Process, proc' = [proc EXCEPT ![x] = new],
               <<proc[x].pc, new.pc>> \in Moves
        PROVE  Moved(x)
    BY <1>4, OneProc DEF Moved
  <1>5. CASE ProbeSkip(x) \/ ProbeSend(x)
    BY <1>2, <1>5 DEF ProbeSkip, ProbeSend, At, Moves
  <1>6. CASE ProbeSucceeds(x) \/ ProbeTimeout(x)
    <2>1. CASE ProbeSucceeds(x)
      <3> DEFINE new == [proc[x] EXCEPT !.pc = "config", !.mode = "holepunch"]
      <3>1. new \in Process /\ new.pc = "config"
        BY <1>1 DEF Process, PC, Mode
      <3>2. proc' = [proc EXCEPT ![x] = new] /\ proc[x].pc = "probing"
        BY <2>1 DEF ProbeSucceeds, At
      <3> HIDE DEF new
      <3> QED BY <1>4, <3>1, <3>2 DEF Moves
    <2>2. CASE ProbeTimeout(x)
      <3> DEFINE new == [proc[x] EXCEPT !.pc = "fallback", !.endpoint = None]
      <3>1. new \in Process /\ new.pc = "fallback"
        BY <1>1 DEF Process, PC
      <3>2. proc' = [proc EXCEPT ![x] = new] /\ proc[x].pc = "probing"
        BY <2>2 DEF ProbeTimeout, At
      <3> HIDE DEF new
      <3> QED BY <1>4, <3>1, <3>2 DEF Moves
    <2> QED BY <1>6, <2>1, <2>2
  <1>7. CASE Fallback(x)
    <2>1. /\ proc[x].pc = "fallback"
          /\ \/ \E mode \in {"relay", "direct"} :
                    proc' = [proc EXCEPT ![x].pc = "config", ![x].mode = mode]
             \/ End(x, "failed")
      BY <1>7 DEF Fallback, At
    <2>2. ASSUME NEW mode \in {"relay", "direct"},
                 proc' = [proc EXCEPT ![x].pc = "config", ![x].mode = mode]
          PROVE  Moved(x)
      <3> DEFINE new == [proc[x] EXCEPT !.pc = "config", !.mode = mode]
      <3>1. new \in Process /\ new.pc = "config"
        BY <1>1 DEF Process, PC, Mode
      <3>2. proc' = [proc EXCEPT ![x] = new]
        BY <2>2
      <3> HIDE DEF new
      <3> QED BY <1>4, <2>1, <3>1, <3>2 DEF Moves
    <2> QED BY <1>3, <2>1, <2>2 DEF Moves, PC
  <1>8. CASE x \in Invocations /\ CreateSessionKey(x)
    BY <1>2, <1>8 DEF CreateSessionKey, At, Moves
  <1>9. CASE x \in Invocations /\ RenterConfig(x)
    BY <1>2, <1>3, <1>9 DEF RenterConfig, At, Moves, PC
  <1>10. CASE x \in Starts /\ (ProviderConfig(x) \/ ReportRunning(x) \/ ReportFailed(x))
    BY <1>2, <1>3, <1>10 DEF ProviderConfig, ReportRunning, ReportFailed, At, Moves, PC
  <1>r. ASSUME NEW cands \in SUBSET Kind, NEW resp \in Answers(x, cands)
        PROVE  resp \in Response
    <2>1. noResponse \in Response
      BY DEF noResponse, Response
    <2> QED BY <2>1, ExchangedFacts DEF Answers, TypeOK
  <1>11. CASE \/ x \in Invocations /\ RenterExchange(x)
              \/ x \in Starts /\ ProviderExchange(x)
    <2>1. PICK cands \in GatherCandidates : \E resp \in Answers(x, cands) :
            /\ proc[x].pc = "exchange"
            /\ \/ End(x, "failed") \/ End(x, "failing")
               \/ \E pc \in {"poll", "connect"} :
                    proc' = [proc EXCEPT ![x].cands = cands, ![x].resp = resp, ![x].pc = pc]
      BY <1>11 DEF RenterExchange, ProviderExchange, At
    <2>p. PICK resp \in Answers(x, cands) :
            /\ proc[x].pc = "exchange"
            /\ \/ End(x, "failed") \/ End(x, "failing")
               \/ \E pc \in {"poll", "connect"} :
                    proc' = [proc EXCEPT ![x].cands = cands, ![x].resp = resp, ![x].pc = pc]
      BY <2>1
    <2>2. cands \in SUBSET Kind /\ resp \in Response
      BY <1>r, GathersType
    <2>3. ASSUME NEW pc \in {"poll", "connect"},
                 proc' = [proc EXCEPT ![x].cands = cands, ![x].resp = resp, ![x].pc = pc]
          PROVE  Moved(x)
      <3> DEFINE new == [proc[x] EXCEPT !.cands = cands, !.resp = resp, !.pc = pc]
      <3>1. new \in Process /\ new.pc = pc
        BY <1>1, <2>2 DEF Process, PC
      <3>2. proc' = [proc EXCEPT ![x] = new]
        BY <2>3
      <3> HIDE DEF new
      <3> QED BY <1>4, <2>p, <3>1, <3>2 DEF Moves
    <2> QED BY <1>3, <2>p, <2>3 DEF Moves, PC
  <1>12. CASE x \in Invocations /\ RenterPoll(x)
    <2>1. PICK resp \in Answers(x, proc[x].cands) :
            IF resp.cands = {} /\ attempts(x) < MaxAttempts
            THEN proc' = [proc EXCEPT ![x].resp = resp, ![x].attempt = attempts(x)]
            ELSE proc' = [proc EXCEPT ![x].resp = resp, ![x].attempt = 0,
                                      ![x].pc = "connect"]
      BY <1>12 DEF RenterPoll
    <2>2. proc[x].pc = "poll" /\ proc[x].attempt \in 0..MaxAttempts
          /\ proc[x].cands \in SUBSET Kind
      BY <1>1, <1>12 DEF RenterPoll, At, Process
    <2>3. resp \in Response
      BY <1>r, <2>2
    <2>4. CASE resp.cands = {} /\ attempts(x) < MaxAttempts
      <3> DEFINE new == [proc[x] EXCEPT !.resp = resp, !.attempt = attempts(x)]
      <3>1. new.pc = "poll" /\ new.attempt = proc[x].attempt + 1
        BY <1>1, <2>2, <2>3 DEF Process, attempts
      <3>2. proc' = [proc EXCEPT ![x] = new]
        BY <2>1, <2>4
      <3>3. proc[x].attempt + 1 < MaxAttempts
        BY <2>4 DEF attempts
      <3> HIDE DEF new
      <3>4. proc'[x] = new /\ \A y \in Procs \ {x} : proc'[y] = proc[y]
        BY <3>2, OneProc
      <3> QED BY <2>2, <3>1, <3>3, <3>4 DEF Moved
    <2>5. CASE ~(resp.cands = {} /\ attempts(x) < MaxAttempts)
      <3> DEFINE new == [proc[x] EXCEPT !.resp = resp, !.attempt = 0, !.pc = "connect"]
      <3>1. new \in Process /\ new.pc = "connect"
        <4>1. 0 \in 0..MaxAttempts
          BY RendezvousAssumption
        <4> QED BY <1>1, <2>3, <4>1 DEF Process, PC
      <3>2. proc' = [proc EXCEPT ![x] = new]
        BY <2>1, <2>5
      <3> HIDE DEF new
      <3> QED BY <1>4, <2>2, <3>1, <3>2 DEF Moves
    <2> QED BY <2>4, <2>5
  <1>13. CASE ProbeStep(x)
    BY <1>5, <1>6, <1>7, <1>13 DEF ProbeStep
  <1>14. CASE x \in Invocations /\ RenterStep(x)
    BY <1>8, <1>9, <1>11, <1>12, <1>14 DEF RenterStep
  <1>15. CASE x \in Starts /\ ProviderStep(x)
    BY <1>10, <1>11, <1>15 DEF ProviderStep
  <1> QED BY <1>13, <1>14, <1>15 DEF OwnStep

\* The measure, state by state.
LEMMA Measure ==
    ASSUME NEW p \in Process
    PROVE  /\ stepsLeft(p) \in 0..(MaxAttempts + 8)
           /\ p.pc = "key" => stepsLeft(p) = MaxAttempts + 8
           /\ p.pc = "exchange" => stepsLeft(p) = MaxAttempts + 7
           /\ p.pc = "poll" => stepsLeft(p) = MaxAttempts - p.attempt + 6
           /\ p.pc = "connect" => stepsLeft(p) = 5
           /\ p.pc = "probing" => stepsLeft(p) = 4
           /\ p.pc = "fallback" => stepsLeft(p) = 3
           /\ p.pc = "config" => stepsLeft(p) = 2
           /\ p.pc \in {"keyOnly", "report", "failing"} => stepsLeft(p) = 1
           /\ p.pc \in {"connected", "returned", "closed", "running", "failed", "dead"} =>
                stepsLeft(p) = 0
  <1>1. p.attempt \in 0..MaxAttempts /\ MaxAttempts \in Nat /\ p.pc \in PC
    BY RendezvousAssumption DEF Process
  <1> QED BY <1>1 DEF stepsLeft, PC

\* The moves lead towards the end.
LEMMA MovesDescend ==
    ASSUME TypeOK, TypeOK', NEW x \in Procs, Moved(x)
    PROVE  /\ proc[x].pc # "unused" /\ proc'[x].pc # "unused"
           /\ stepsLeft(proc'[x]) < stepsLeft(proc[x])
  <1>1. proc[x] \in Process /\ proc'[x] \in Process
    BY DEF TypeOK
  <1>2. /\ proc[x].attempt \in 0..MaxAttempts /\ proc'[x].attempt \in 0..MaxAttempts
        /\ MaxAttempts \in Nat \ {0}
    BY <1>1, RendezvousAssumption DEF Process
  <1>3. ASSUME NEW p \in Process, NEW q \in Process, <<p.pc, q.pc>> \in Moves,
               p.attempt \in 0..MaxAttempts, q.attempt \in 0..MaxAttempts
        PROVE  p.pc # "unused" /\ q.pc # "unused" /\ stepsLeft(q) < stepsLeft(p)
    <2> DEFINE a == p.pc
               b == q.pc
    <2>1. <<a, b>> \in Moves
      BY <1>3
    <2> HIDE DEF a, b
    <2>2. \/ a = "key" /\ b = "exchange"
          \/ a = "keyOnly" /\ b = "closed"
          \/ a = "exchange" /\ b \in {"poll", "connect", "failed", "failing"}
          \/ a = "poll" /\ b = "connect"
          \/ a = "connect" /\ b \in {"fallback", "probing"}
          \/ a = "probing" /\ b \in {"config", "fallback"}
          \/ a = "fallback" /\ b \in {"config", "failed"}
          \/ a = "config" /\ b \in {"failed", "connected", "returned", "report", "failing"}
          \/ a = "report" /\ b = "running"
          \/ a = "failing" /\ b = "failed"
      BY <2>1 DEF Moves
    <2>3. a = p.pc /\ b = q.pc
      BY DEF a, b
    <2>4. stepsLeft(p) \in Int /\ stepsLeft(q) \in Int
      BY Measure, RendezvousAssumption
    <2>5. CASE a \in {"key", "keyOnly", "report", "failing"}
      BY <1>2, <2>2, <2>3, <2>5, Measure
    <2>6. CASE a \in {"exchange", "poll"}
      <3>1. stepsLeft(p) >= 6 /\ (a = "exchange" => stepsLeft(p) = MaxAttempts + 7)
        BY <1>2, <1>3, <2>3, <2>6, Measure
      <3>2. b \in {"poll", "connect", "failed", "failing"} /\ (b = "poll" => a = "exchange")
        BY <2>2, <2>6
      <3>3. CASE b = "poll"
        <4>1. stepsLeft(q) = MaxAttempts - q.attempt + 6
          BY <2>3, <3>3, Measure
        <4>2. stepsLeft(p) = MaxAttempts + 7
          BY <3>1, <3>2, <3>3
        <4> QED BY <1>2, <1>3, <2>3, <2>6, <3>3, <4>1, <4>2
      <3>4. CASE b # "poll"
        <4>1. stepsLeft(q) <= 5
          BY <2>3, <3>2, <3>4, Measure
        <4> QED BY <2>3, <2>4, <2>6, <3>1, <3>2, <4>1
      <3> QED BY <3>3, <3>4
    <2>7. CASE a \in {"connect", "probing", "fallback"}
      BY <2>2, <2>3, <2>7, Measure
    <2>8. CASE a = "config"
      <3>1. stepsLeft(p) = 2
        BY <2>3, <2>8, Measure
      <3>2. b \in {"failed", "connected", "returned", "report", "failing"}
        BY <2>2, <2>8
      <3>3. stepsLeft(q) <= 1
        BY <2>3, <3>2, Measure
      <3> QED BY <2>3, <2>4, <2>8, <3>1, <3>2, <3>3
    <2> QED BY <2>2, <2>5, <2>6, <2>7, <2>8
  <1>4. CASE /\ proc[x].pc = "poll" /\ proc'[x].pc = "poll"
             /\ proc'[x].attempt = proc[x].attempt + 1
    BY <1>1, <1>2, <1>4, Measure
  <1> QED BY <1>1, <1>2, <1>3, <1>4 DEF Moved

\* What every step does to every process.
LEMMA NextProgress ==
    ASSUME ProgressInv, [Next]_vars
    PROVE  /\ ProgressInv'
           /\ \A x \in Procs :
                /\ proc[x].pc # "unused" =>
                    proc'[x].pc # "unused" /\ stepsLeft(proc'[x]) <= stepsLeft(proc[x])
                /\ OwnStep(x) => stepsLeft(proc'[x]) < stepsLeft(proc[x])
  <1> DEFINE Kept(x) == proc[x].pc # "unused" =>
                proc'[x].pc # "unused" /\ stepsLeft(proc'[x]) <= stepsLeft(proc[x])
             Goal == NoneBegun' /\ \A x \in Procs : Kept(x)
  <1>1. TypeOK /\ NoneBegun /\ RInv' /\ TypeOK'
    BY NextRInv DEF ProgressInv, RInv
  <1>2. \A x \in Procs :
          /\ stepsLeft(proc[x]) \in Int /\ stepsLeft(proc'[x]) \in Int
          /\ stepsLeft(proc[x]) >= 0
          /\ proc'[x].pc \in {"closed", "failed", "dead"} => stepsLeft(proc'[x]) = 0
          /\ proc'[x].pc = "keyOnly" => stepsLeft(proc'[x]) = 1
          /\ proc[x].pc = "key" => stepsLeft(proc[x]) >= 1
    BY <1>1, Measure, RendezvousAssumption DEF TypeOK
  <1>3. Procs = Invocations \cup Starts
    BY DEF Procs
  <1>4. ASSUME NEW x \in Procs, OwnStep(x)
        PROVE  Moved(x) /\ stepsLeft(proc'[x]) < stepsLeft(proc[x])
    BY <1>1, <1>4, OwnStepMoves, MovesDescend
  <1>5. \A x \in Procs : proc'[x] = proc[x] => Kept(x)
    BY <1>2
  <1>6. ASSUME NEW x \in Procs, OwnStep(x)
        PROVE  Goal
    <2>1. proc[x].pc # "unused" /\ Kept(x)
      BY <1>1, <1>2, <1>4, <1>6, MovesDescend
    <2>2. \A y \in Procs \ {x} : proc'[y] = proc[y]
      BY <1>4, <1>6 DEF Moved
    <2>3. status # "none"
      BY <1>1, <2>1 DEF NoneBegun
    <2>4. status' # "none"
      BY <1>6, <2>3
         DEF OwnStep, ProbeStep, RenterStep, ProviderStep, ProbeSkip, ProbeSend,
             ProbeSucceeds, ProbeTimeout, Fallback, CreateSessionKey, RenterExchange,
             RenterPoll, RenterConfig, ProviderExchange, ProviderConfig, ReportRunning,
             ReportFailed
    <2> QED BY <1>5, <2>1, <2>2, <2>4 DEF NoneBegun
  <1>7. ASSUME NEW x \in Procs, proc[x].pc = "unused", status' # "none",
               \A y \in Procs \ {x} : proc'[y] = proc[y]
        PROVE  Goal
    BY <1>5, <1>7 DEF NoneBegun
  <1>8. ASSUME NEW c \in Invocations, NEW flagConnect \in BOOLEAN,
               CreateSession(c, flagConnect)
        PROVE  Goal
    <2>1. proc[c].pc = "unused" /\ status' # "none"
      BY <1>1, <1>3, <1>8 DEF CreateSession, NoneBegun
    <2>2. \E new : proc' = [proc EXCEPT ![c] = new]
      BY <1>8 DEF CreateSession
    <2> QED BY <1>1, <1>3, <1>7, <2>1, <2>2, OneProc
  <1>9. ASSUME NEW c \in Invocations, ConnectSession(c)
        PROVE  Goal
    BY <1>1, <1>3, <1>7, <1>9, OneProc DEF ConnectSession, At
  <1>10. ASSUME NEW c \in Invocations, Interrupt(c)
         PROVE  Goal
    <2>1. c \in Procs /\ proc[c].pc # "unused" /\ status' = status
      BY <1>3, <1>10 DEF Interrupt
    <2>2. status' # "none"
      BY <1>1, <2>1 DEF NoneBegun
    <2>3. /\ \A y \in Procs \ {c} : proc'[y] = proc[y]
          /\ \/ proc[c].pc = "key" /\ proc'[c].pc = "keyOnly"
             \/ proc'[c].pc = "closed"
      BY <1>1, <1>10, <2>1, OneProc DEF Interrupt, At, PC
    <2> QED BY <1>2, <1>5, <2>1, <2>2, <2>3 DEF NoneBegun
  <1>11. ASSUME NEW g \in Starts, StartSession(g)
         PROVE  Goal
    BY <1>1, <1>3, <1>7, <1>11, OneProc DEF StartSession, At
  <1>12. ASSUME NEW x \in Procs, NEW pkt \in sent, ProbeReceive(x, pkt)
         PROVE  Goal
    <2> DEFINE new == [proc[x] EXCEPT !.endpoint = firstResult(x, pkt.raddr)]
    <2>1. new.pc = proc[x].pc /\ new.attempt = proc[x].attempt
      BY <1>1 DEF TypeOK, Process
    <2>2. /\ proc' = [proc EXCEPT ![x] = new]
          /\ proc[x].pc = "probing" /\ status' = status
      BY <1>12 DEF ProbeReceive, At
    <2> HIDE DEF new
    <2>3. proc'[x] = new /\ \A y \in Procs \ {x} : proc'[y] = proc[y]
      BY <1>1, <2>2, OneProc
    <2>4. stepsLeft(proc'[x]) = stepsLeft(proc[x])
      BY <2>1, <2>3 DEF stepsLeft
    <2>5. status' # "none"
      BY <1>1, <2>2 DEF NoneBegun
    <2> QED BY <1>2, <1>5, <2>1, <2>2, <2>3, <2>4, <2>5 DEF NoneBegun
  <1>13. ASSUME TerminateSession \/ UNCHANGED vars
         PROVE  Goal
    BY <1>1, <1>5, <1>13 DEF TerminateSession, vars, NoneBegun
  <1>14. ASSUME Crash
         PROVE  Goal
    <2>c. status' = status
          /\ proc' = [x \in Procs |-> IF x \in Starts /\ tracked(x)
                                      THEN newProc("dead") ELSE proc[x]]
      BY <1>14 DEF Crash
    <2>1. \A x \in Procs :
            \/ proc'[x] = proc[x]
            \/ tracked(x) /\ proc'[x] = newProc("dead")
      BY <2>c
    <2>2. newProc("dead").pc = "dead"
      BY NewProcType DEF PC
    <2>3. \A x \in Procs :
            \/ proc'[x] = proc[x]
            \/ proc[x].pc # "unused" /\ proc'[x].pc = "dead"
      BY <2>1, <2>2 DEF tracked
    <2> QED BY <1>1, <1>2, <1>5, <2>c, <2>3 DEF NoneBegun
  <1>15. Goal
    <2> HIDE DEF Goal
    <2> QED BY <1>3, <1>6, <1>8, <1>9, <1>10, <1>11, <1>12, <1>13, <1>14 DEF Next, OwnStep
  <1> QED BY <1>1, <1>4, <1>15 DEF ProgressInv

\* doConnect and startSession cannot go on for ever: whatever the registry answers,
\* users do and packets bring, each process takes at most MaxAttempts + 8 steps.
THEOREM ProcessesMoveOn ==
    Spec => ProcessesAdvance /\ [](\A x \in Procs : stepsLeft(proc[x]) \in 0..(MaxAttempts + 8))
  <1>1. Init => ProgressInv
    BY InitRInv, NewProcType DEF Init, ProgressInv, NoneBegun, PC
  <1>2. ProgressInv /\ [Next]_vars => ProgressInv'
    BY NextProgress
  <1>3. ProgressInv /\ [Next]_vars =>
          [\A x \in Procs :
            /\ proc[x].pc # "unused" =>
                proc'[x].pc # "unused" /\ stepsLeft(proc'[x]) <= stepsLeft(proc[x])
            /\ OwnStep(x) => stepsLeft(proc'[x]) < stepsLeft(proc[x])]_vars
    BY NextProgress
  <1>4. ProgressInv => \A x \in Procs : stepsLeft(proc[x]) \in 0..(MaxAttempts + 8)
    BY Measure DEF ProgressInv, RInv, TypeOK
  <1> QED BY <1>1, <1>2, <1>3, <1>4, PTL DEF Spec, ProcessesAdvance
=============================================================================
