------------------------------- MODULE Providers -------------------------------
(***************************************************************************)
(* Provider discovery: the RegisterProvider, Heartbeat and ListProviders   *)
(* RPCs of internal/registry/server.go, and the provider identity that     *)
(* agent/daemon.go keeps in a file between runs.  A handler fetches one or *)
(* more provider records and writes them back whole, some time later.      *)
(*                                                                         *)
(* A record keeps its status and its LastHeartbeat; the name, address and  *)
(* resources are left out.  Timestamps are kept as ages, which all grow    *)
(* together, up to the first age that counts as stale: nothing depends on  *)
(* how much older a heartbeat is.  The store is a PostgresStore.           *)
(***************************************************************************)
EXTENDS Integers, FiniteSets

CONSTANTS
    Agents,
    ProviderIDs,
    Handlers,           \* RPC goroutines that can be in progress at once
    heartbeatTimeout,   \* in ticks
    None, Absent

VARIABLES
    providers,          \* the store: provider ID -> record, or Absent
    rpc,                \* handler -> the call it works on, or Absent
    agent,              \* agent -> what it does, its provider ID, its file
    contact             \* history: age of a provider's latest contact

vars == <<providers, rpc, agent, contact>>

Age == 0..(heartbeatTimeout + 1)

older(age) == IF age > heartbeatTimeout THEN age ELSE age + 1

ProviderRecord == [Status : {"online", "offline"}, LastHeartbeat : Age]

Records == [ProviderIDs -> ProviderRecord \cup {Absent}]

\* A call with the records it is going to write.
Call == [pc : {"register", "heartbeat", "heartbeat.light", "list", "list.put"},
         agent : Agents \cup {None}, recs : Records]

AgentState == [pc : {"down", "registering", "save", "write", "up"},
               id : ProviderIDs \cup {None},     \* d.provider.Id
               file : ProviderIDs \cup {None}]   \* what provider.json yields

ASSUME ProvidersAssumption ==
    /\ heartbeatTimeout \in Nat
    /\ None \notin ProviderIDs \cup Agents
    /\ Absent \notin ProviderRecord \cup Call

TypeOK ==
    /\ providers \in Records
    /\ rpc \in [Handlers -> Call \cup {Absent}]
    /\ agent \in [Agents -> AgentState]
    /\ contact \in [ProviderIDs -> Age]

noRecords == [p \in ProviderIDs |-> Absent]

Init ==
    /\ providers = noRecords
    /\ rpc = [h \in Handlers |-> Absent]
    /\ agent = [a \in Agents |-> [pc |-> "down", id |-> None,
                               file |-> None]]
    /\ contact = [p \in ProviderIDs |-> heartbeatTimeout + 1]
-----------------------------------------------------------------------------
busy(h) == rpc[h] # Absent

At(h, pc) == busy(h) /\ rpc[h].pc = pc

\* The providers whose records the call still has to write.
toPut(h) == {p \in ProviderIDs : rpc[h].recs[p] # Absent}

Begin(h, pc, a, recs) ==
    /\ ~busy(h)
    /\ rpc' = [rpc EXCEPT ![h] = [pc |-> pc, agent |-> a, recs |-> recs]]

Return(h) == rpc' = [rpc EXCEPT ![h] = Absent]

PutProvider(h, p) == providers' = [providers EXCEPT ![p] = rpc[h].recs[p]]

\* Mutant: the record is made without a status, Go's zero value.
onlineNow_noStatus == [Status |-> "", LastHeartbeat |-> 0]

onlineNow == [Status |-> "online", LastHeartbeat |-> 0]

\* uuid.NewString: an ID nothing refers to.
newProviderID(p) ==
    /\ providers[p] = Absent
    /\ \A h \in Handlers : busy(h) => p \notin toPut(h)
    /\ \A a \in Agents : p \notin {agent[a].id, agent[a].file}
-----------------------------------------------------------------------------
(* Registration.  The agent sends the ID in its file, if there is one that *)
(* can be read; the registry updates that provider or makes a new one.     *)

registeredID(a, p) ==
    IF agent[a].file # None /\ providers[agent[a].file] # Absent
    THEN p = agent[a].file ELSE newProviderID(p)

RegisterProvider(h, a, p) ==
    /\ agent[a].pc = "down"
    /\ registeredID(a, p)
    /\ Begin(h, "register", a, [noRecords EXCEPT ![p] = onlineNow])
    /\ agent' = [agent EXCEPT ![a].pc = "registering"]
    /\ contact' = [contact EXCEPT ![p] = 0]
    /\ UNCHANGED providers

\* The answer reaches the agent, unless it is gone.
answer(h, p) ==
    [a \in Agents |-> IF a = rpc[h].agent
                      THEN [agent[a] EXCEPT !.pc = "save", !.id = p]
                      ELSE agent[a]]

\* Mutant: the registry answers before the provider is stored.
RegisterProviderPut_notStored(h) ==
    \E p \in ProviderIDs :
        /\ At(h, "register")
        /\ p \in toPut(h)
        /\ agent' = answer(h, p)
        /\ Return(h)
        /\ UNCHANGED <<providers, contact>>

RegisterProviderPut(h) ==
    \E p \in ProviderIDs :
        /\ At(h, "register")
        /\ p \in toPut(h)
        /\ PutProvider(h, p)
        /\ agent' = answer(h, p)
        /\ Return(h)
        /\ UNCHANGED contact

\* saveProviderState: os.WriteFile truncates the file and then writes it.  An
\* error at either point is only logged.
SaveTruncate(a) ==
    /\ agent[a].pc = "save"
    /\ \/ agent' = [agent EXCEPT ![a].pc = "write", ![a].file = None]
       \/ agent' = [agent EXCEPT ![a].pc = "up"]
    /\ UNCHANGED <<providers, rpc, contact>>

SaveWrite(a) ==
    /\ agent[a].pc = "write"
    /\ \/ agent' = [agent EXCEPT ![a].pc = "up", ![a].file = agent[a].id]
       \/ agent' = [agent EXCEPT ![a].pc = "up"]
    /\ UNCHANGED <<providers, rpc, contact>>

\* The agent stops, or Run returns the error of a registration that failed; a
\* call it made goes on in the registry.
Crash(a) ==
    /\ agent[a].pc # "down"
    /\ agent' = [agent EXCEPT ![a].pc = "down", ![a].id = None]
    /\ rpc' = [h \in Handlers |->
            IF busy(h) THEN [rpc[h] EXCEPT !.agent = IF @ = a THEN None ELSE @]
            ELSE Absent]
    /\ UNCHANGED <<providers, contact>>
-----------------------------------------------------------------------------
(* Heartbeats.  With resources in the request, as the agent sends it, the  *)
(* whole record is written back; without, its status and timestamp.  A     *)
(* retried heartbeat can overlap the attempt before it.                    *)

Heartbeat(h, a, pc) ==
    LET p == agent[a].id IN
    /\ agent[a].pc = "up"
    /\ providers[p] # Absent
    /\ Begin(h, pc, a, [noRecords EXCEPT ![p] = onlineNow])
    /\ contact' = [contact EXCEPT ![p] = 0]
    /\ UNCHANGED <<providers, agent>>

HeartbeatPut(h) ==
    \E p \in ProviderIDs :
        /\ At(h, "heartbeat")
        /\ p \in toPut(h)
        /\ PutProvider(h, p)
        /\ Return(h)
        /\ UNCHANGED <<agent, contact>>

\* Mutant: the lightweight update leaves the status alone.
UpdateHeartbeat_keepsStatus(h) ==
    \E p \in ProviderIDs :
        /\ At(h, "heartbeat.light")
        /\ p \in toPut(h)
        /\ providers' = [providers EXCEPT
                ![p].LastHeartbeat = rpc[h].recs[p].LastHeartbeat]
        /\ Return(h)
        /\ UNCHANGED <<agent, contact>>

UpdateHeartbeat(h) ==
    \E p \in ProviderIDs :
        /\ At(h, "heartbeat.light")
        /\ p \in toPut(h)
        /\ providers' = [providers EXCEPT
                ![p].LastHeartbeat = rpc[h].recs[p].LastHeartbeat,
                ![p].Status = "online"]
        /\ Return(h)
        /\ UNCHANGED <<agent, contact>>
-----------------------------------------------------------------------------
(* ListProviders fetches every record, takes the time, and writes those    *)
(* that are stale by then back as offline, one by one.                     *)

\* The filter of the request matches some of the providers.
ListProviders(h) ==
    /\ \E matching \in SUBSET ProviderIDs :
        Begin(h, "list", None,
              [p \in ProviderIDs |-> IF p \in matching THEN providers[p] ELSE Absent])
    /\ UNCHANGED <<providers, agent, contact>>

\* Mutant: a record is stale only if it is not online.
isStale_offlineOnly(rec) ==
    rec.LastHeartbeat > heartbeatTimeout /\ rec.Status = "offline"

isStale(rec) == rec.LastHeartbeat > heartbeatTimeout

\* What the call answers if it takes the time now.
reply(h) ==
    {p \in toPut(h) : ~isStale(rpc[h].recs[p]) /\ rpc[h].recs[p].Status = "online"}

ListProvidersJudge(h) ==
    /\ At(h, "list")
    /\ rpc' = [rpc EXCEPT ![h].pc = "list.put",
            ![h].recs = [p \in ProviderIDs |->
                IF p \in toPut(h) /\ isStale(rpc[h].recs[p])
                THEN [rpc[h].recs[p] EXCEPT !.Status = "offline"] ELSE Absent]]
    /\ UNCHANGED <<providers, agent, contact>>

\* Mutant: the record is fetched again and marked offline with its new time.
ListProvidersPut_refetches(h) ==
    /\ At(h, "list.put")
    /\ \E p \in toPut(h) :
        /\ \/ providers' = [providers EXCEPT ![p].Status = "offline"]
           \/ UNCHANGED providers
        /\ rpc' = [rpc EXCEPT ![h].recs[p] = Absent]
    /\ UNCHANGED <<agent, contact>>

\* The error of this PutProvider is ignored.
ListProvidersPut(h) ==
    /\ At(h, "list.put")
    /\ \E p \in toPut(h) :
        /\ PutProvider(h, p) \/ UNCHANGED providers
        /\ rpc' = [rpc EXCEPT ![h].recs[p] = Absent]
    /\ UNCHANGED <<agent, contact>>

ListProvidersReturn(h) ==
    /\ At(h, "list.put") /\ toPut(h) = {}
    /\ Return(h)
    /\ UNCHANGED <<providers, agent, contact>>
-----------------------------------------------------------------------------
\* The store fails; a heartbeat is only logged by the agent, a registration
\* makes it exit.
StoreFails(h) ==
    /\ busy(h) /\ rpc[h].pc \in {"register", "heartbeat", "heartbeat.light", "list"}
    /\ agent' = [a \in Agents |->
            IF rpc[h].pc = "register" /\ a = rpc[h].agent
            THEN [agent[a] EXCEPT !.pc = "down"] ELSE agent[a]]
    /\ Return(h)
    /\ UNCHANGED <<providers, contact>>

\* Time passes for every timestamp, stored or in a handler.
Tick ==
    LET aged(recs) == [p \in ProviderIDs |->
            IF recs[p] = Absent THEN Absent
            ELSE [recs[p] EXCEPT !.LastHeartbeat = older(@)]]
    IN  /\ providers' = aged(providers)
        /\ rpc' = [h \in Handlers |->
                IF busy(h) THEN [rpc[h] EXCEPT !.recs = aged(@)] ELSE Absent]
        /\ contact' = [p \in ProviderIDs |-> older(contact[p])]
        /\ UNCHANGED agent

Next ==
    \/ \E h \in Handlers :
        \/ \E a \in Agents, p \in ProviderIDs : RegisterProvider(h, a, p)
        \/ RegisterProviderPut(h)
        \/ \E a \in Agents, pc \in {"heartbeat", "heartbeat.light"} : Heartbeat(h, a, pc)
        \/ HeartbeatPut(h) \/ UpdateHeartbeat(h)
        \/ ListProviders(h) \/ ListProvidersJudge(h)
        \/ ListProvidersPut(h) \/ ListProvidersReturn(h)
        \/ StoreFails(h)
    \/ \E a \in Agents : SaveTruncate(a) \/ SaveWrite(a) \/ Crash(a)
    \/ Tick

Spec == Init /\ [][Next]_vars

\* Handlers run on, the heartbeat ticker of a running agent keeps firing, and
\* the store does not fail every heartbeat.
FairSpec ==
    /\ Spec
    /\ \A h \in Handlers :
        /\ WF_vars(ListProvidersJudge(h) \/ ListProvidersPut(h) \/ ListProvidersReturn(h))
        /\ WF_vars(RegisterProviderPut(h))
        /\ SF_vars(HeartbeatPut(h)) /\ SF_vars(UpdateHeartbeat(h))
    /\ \A a \in Agents :
        SF_vars(\E h \in Handlers, pc \in {"heartbeat", "heartbeat.light"} :
                    Heartbeat(h, a, pc))
-----------------------------------------------------------------------------
\* A provider the store calls offline has no recent heartbeat on record: whoever
\* writes last, status and timestamp come from the same observation.
OfflineIsStale ==
    \A p \in ProviderIDs :
        providers[p] # Absent /\ providers[p].Status = "offline"
            => providers[p].LastHeartbeat > heartbeatTimeout

\* ListProviders never returns a provider that had not been in contact within
\* heartbeatTimeout when it took the time, whatever registrations, heartbeats
\* and other lists overlap it.
ListedWasAlive ==
    \A h \in Handlers : At(h, "list") =>
        \A p \in reply(h) : contact[p] <= heartbeatTimeout

\* The ID a running agent sends with its heartbeats is stored: it never has to
\* register again, and has no code to.
RunningIsStored ==
    \A a \in Agents : agent[a].id # None => providers[agent[a].id] # Absent

\* A running agent whose provider a late ListProviders has marked offline comes
\* back online without being restarted.
ComesBackOnline ==
    \A a \in Agents : \A p \in ProviderIDs :
        agent[a].pc = "up" /\ agent[a].id = p
            ~> agent[a].id # p \/ providers[p].Status = "online"
=============================================================================
