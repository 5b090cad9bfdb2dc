---------------------------- MODULE ProvidersProofs ----------------------------
(***************************************************************************)
(* Proofs about provider discovery, for any number of agents, providers,   *)
(* overlapping calls and any heartbeat timeout.                            *)
(***************************************************************************)
EXTENDS Providers, TLAPS

\* What a busy handler's call looks like.
LEMMA BusyCall ==
    ASSUME TypeOK, NEW h \in Handlers, busy(h)
    PROVE  /\ rpc[h] \in Call /\ rpc[h].recs \in Records
           /\ rpc[h].agent \in Agents \cup {None}
           /\ toPut(h) \subseteq ProviderIDs
           /\ \A p \in toPut(h) : rpc[h].recs[p] \in ProviderRecord
           /\ \A p \in ProviderIDs \ toPut(h) : rpc[h].recs[p] = Absent
  <1>1. rpc[h] \in Call
    BY DEF TypeOK, busy
  <1>2. rpc[h].recs \in Records /\ rpc[h].agent \in Agents \cup {None}
    BY <1>1 DEF Call
  <1> QED BY <1>1, <1>2 DEF Records, toPut

\* The records of a registration or heartbeat: the one provider, online now.
LEMMA OneRecord ==
    ASSUME NEW p \in ProviderIDs, NEW recs, recs = [noRecords EXCEPT ![p] = onlineNow]
    PROVE  /\ recs \in Records
           /\ recs[p] = onlineNow
           /\ \A q \in ProviderIDs \ {p} : recs[q] = Absent
           /\ onlineNow \in ProviderRecord
  <1>1. onlineNow \in ProviderRecord
    BY ProvidersAssumption DEF onlineNow, ProviderRecord, Age
  <1>2. noRecords \in Records
    BY DEF noRecords, Records
  <1> HIDE DEF onlineNow, ProviderRecord
  <1>3. recs \in Records /\ recs[p] = onlineNow
    BY <1>1, <1>2 DEF Records
  <1>4. \A q \in ProviderIDs \ {p} : recs[q] = Absent
    BY DEF noRecords
  <1> QED BY <1>1, <1>3, <1>4

\* A call begins.
LEMMA BeginEffect ==
    ASSUME TypeOK, NEW h \in Handlers,
           NEW pc \in {"register", "heartbeat", "heartbeat.light", "list"},
           NEW a \in Agents \cup {None}, NEW recs \in Records, Begin(h, pc, a, recs)
    PROVE  /\ rpc' \in [Handlers -> Call \cup {Absent}]
           /\ rpc'[h].pc = pc /\ rpc'[h].agent = a /\ rpc'[h].recs = recs
           /\ \A g \in Handlers \ {h} : rpc'[g] = rpc[g]
  <1> DEFINE call == [pc |-> pc, agent |-> a, recs |-> recs]
  <1>1. call \in Call /\ call.pc = pc /\ call.agent = a /\ call.recs = recs
    BY DEF Call
  <1>2. rpc' = [rpc EXCEPT ![h] = call]
    BY DEF Begin
  <1> HIDE DEF call
  <1> QED BY <1>1, <1>2 DEF TypeOK

\* A call ends.
LEMMA ReturnEffect ==
    ASSUME TypeOK, NEW h \in Handlers, Return(h)
    PROVE  /\ rpc' \in [Handlers -> Call \cup {Absent}]
           /\ ~busy(h)'
           /\ \A g \in Handlers \ {h} : rpc'[g] = rpc[g]
  BY DEF Return, TypeOK, busy

\* PutProvider writes the record in hand.
LEMMA PutEffect ==
    ASSUME TypeOK, NEW h \in Handlers, busy(h), NEW p \in toPut(h), PutProvider(h, p)
    PROVE  /\ providers' \in Records
           /\ providers'[p] = rpc[h].recs[p] /\ providers'[p] # Absent
           /\ \A q \in ProviderIDs \ {p} : providers'[q] = providers[q]
  <1>1. p \in ProviderIDs /\ rpc[h].recs[p] \in ProviderRecord
    BY BusyCall
  <1> QED BY <1>1, ProvidersAssumption DEF PutProvider, TypeOK, Records
-----------------------------------------------------------------------------
(***************************************************************************)
(* Types.  The lightweight heartbeat updates single columns, so its row    *)
(* has to exist; an agent that sends heartbeats has to have its ID.        *)
(***************************************************************************)
LightStored ==
    \A h \in Handlers : At(h, "heartbeat.light") =>
        \A p \in toPut(h) : providers[p] # Absent

RegisteredHasID ==
    \A a \in Agents : agent[a].pc \in {"save", "write", "up"} => agent[a].id # None

TypeInv == TypeOK /\ LightStored /\ RegisteredHasID

\* A call that begins.
LEMMA BeginType ==
    ASSUME TypeInv, NEW h \in Handlers,
           NEW pc \in {"register", "heartbeat", "heartbeat.light", "list"},
           NEW a \in Agents \cup {None}, NEW recs \in Records, Begin(h, pc, a, recs),
           providers' = providers,
           pc = "heartbeat.light" =>
              \A p \in ProviderIDs : recs[p] # Absent => providers[p] # Absent
    PROVE  rpc' \in [Handlers -> Call \cup {Absent}] /\ LightStored'
  <1>1. /\ rpc' \in [Handlers -> Call \cup {Absent}]
        /\ rpc'[h].pc = pc /\ rpc'[h].recs = recs
        /\ \A g \in Handlers \ {h} : rpc'[g] = rpc[g]
    BY BeginEffect DEF TypeInv
  <1>2. ASSUME NEW g \in Handlers, At(g, "heartbeat.light")', NEW p \in toPut(g)'
        PROVE  providers'[p] # Absent
    <2>1. CASE g = h
      BY <1>1, <1>2, <2>1 DEF At, toPut
    <2>2. CASE g # h
      BY <1>1, <1>2, <2>2 DEF At, busy, toPut, TypeInv, LightStored
    <2> QED BY <2>1, <2>2
  <1> QED BY <1>1, <1>2 DEF LightStored

\* A call that ends, and may write the record of one provider.
LEMMA ReturnType ==
    ASSUME TypeInv, NEW h \in Handlers, Return(h),
           \A p \in ProviderIDs : providers[p] # Absent => providers'[p] # Absent
    PROVE  rpc' \in [Handlers -> Call \cup {Absent}] /\ LightStored'
  <1>1. /\ rpc' \in [Handlers -> Call \cup {Absent}]
        /\ ~busy(h)'
        /\ \A g \in Handlers \ {h} : rpc'[g] = rpc[g]
    BY ReturnEffect DEF TypeInv
  <1>2. ASSUME NEW g \in Handlers, At(g, "heartbeat.light")', NEW p \in toPut(g)'
        PROVE  providers'[p] # Absent
    <2>1. g # h
      BY <1>1, <1>2 DEF At
    <2>2. At(g, "heartbeat.light") /\ p \in toPut(g)
      BY <1>1, <1>2, <2>1 DEF At, busy, toPut
    <2> QED BY <2>2 DEF TypeInv, LightStored, toPut
  <1> QED BY <1>1, <1>2 DEF LightStored

\* The registry starts well-typed.
LEMMA InitType == Init => TypeInv
  <1> SUFFICES ASSUME Init PROVE TypeInv
    OBVIOUS
  <1>1. heartbeatTimeout + 1 \in Age
    BY ProvidersAssumption DEF Age
  <1>2. [pc |-> "down", id |-> None, file |-> None] \in AgentState
    BY DEF AgentState
  <1> HIDE DEF Age, AgentState
  <1>3. TypeOK
    BY <1>1, <1>2 DEF Init, TypeOK, Records, noRecords
  <1>4. LightStored /\ RegisteredHasID
    BY DEF Init, LightStored, RegisteredHasID, At, busy
  <1> QED BY <1>3, <1>4 DEF TypeInv

\* The registrations, the heartbeats and the writes that end them.
LEMMA WriteType ==
    ASSUME TypeInv, NEW h \in Handlers,
           \/ \E a \in Agents, p \in ProviderIDs : RegisterProvider(h, a, p)
           \/ RegisterProviderPut(h)
           \/ \E a \in Agents, pc \in {"heartbeat", "heartbeat.light"} : Heartbeat(h, a, pc)
           \/ HeartbeatPut(h) \/ UpdateHeartbeat(h) \/ StoreFails(h)
    PROVE  TypeInv'
  <1>t. /\ TypeOK /\ RegisteredHasID /\ 0 \in Age
        /\ agent \in [Agents -> AgentState] /\ contact \in [ProviderIDs -> Age]
        /\ providers \in Records
    BY ProvidersAssumption DEF TypeInv, TypeOK, Age
  <1>1. ASSUME NEW a \in Agents, NEW p \in ProviderIDs, RegisterProvider(h, a, p)
        PROVE  TypeInv'
    <2> DEFINE recs == [noRecords EXCEPT ![p] = onlineNow]
    <2>1. /\ Begin(h, "register", a, recs) /\ providers' = providers
          /\ agent' = [agent EXCEPT ![a].pc = "registering"]
          /\ contact' = [contact EXCEPT ![p] = 0]
      BY <1>1 DEF RegisterProvider
    <2>2. recs \in Records
      BY OneRecord
    <2> HIDE DEF recs
    <2>3. rpc' \in [Handlers -> Call \cup {Absent}] /\ LightStored'
      BY <2>1, <2>2, BeginType
    <2>4. agent' \in [Agents -> AgentState] /\ RegisteredHasID'
      BY <1>t, <2>1 DEF AgentState, RegisteredHasID
    <2>5. contact' \in [ProviderIDs -> Age]
      BY <1>t, <2>1
    <2> QED BY <1>t, <2>1, <2>3, <2>4, <2>5 DEF TypeInv, TypeOK
  <1>2. CASE RegisterProviderPut(h)
    <2>1. PICK p \in toPut(h) :
            /\ busy(h) /\ PutProvider(h, p) /\ Return(h)
            /\ agent' = answer(h, p) /\ contact' = contact
      BY <1>2 DEF RegisterProviderPut, At
    <2>2. /\ providers' \in Records
          /\ \A q \in ProviderIDs : providers[q] # Absent => providers'[q] # Absent
      BY <1>t, <2>1, PutEffect
    <2>3. p \in ProviderIDs
      BY DEF toPut
    <2>4. agent' \in [Agents -> AgentState] /\ RegisteredHasID'
      BY <1>t, <2>1, <2>3, ProvidersAssumption DEF answer, AgentState, RegisteredHasID
    <2>5. rpc' \in [Handlers -> Call \cup {Absent}] /\ LightStored'
      BY <2>1, <2>2, ReturnType
    <2> QED BY <1>t, <2>1, <2>2, <2>4, <2>5 DEF TypeInv, TypeOK
  <1>3. ASSUME NEW a \in Agents, NEW pc \in {"heartbeat", "heartbeat.light"},
               Heartbeat(h, a, pc)
        PROVE  TypeInv'
    <2> DEFINE p    == agent[a].id
               recs == [noRecords EXCEPT ![p] = onlineNow]
    <2>1. /\ Begin(h, pc, a, recs) /\ providers' = providers /\ agent' = agent
          /\ contact' = [contact EXCEPT ![p] = 0]
          /\ agent[a].pc = "up" /\ providers[p] # Absent
      BY <1>3 DEF Heartbeat
    <2>2. p \in ProviderIDs
      BY <1>t, <2>1 DEF RegisteredHasID, AgentState
    <2> HIDE DEF p
    <2>3. /\ recs \in Records
          /\ \A q \in ProviderIDs : recs[q] # Absent => q = p
      BY <2>2, OneRecord
    <2> HIDE DEF recs
    <2>4. rpc' \in [Handlers -> Call \cup {Absent}] /\ LightStored'
      BY <2>1, <2>3, BeginType
    <2>5. contact' \in [ProviderIDs -> Age] /\ RegisteredHasID'
      BY <1>t, <2>1 DEF RegisteredHasID
    <2> QED BY <1>t, <2>1, <2>4, <2>5 DEF TypeInv, TypeOK
  <1>4. CASE HeartbeatPut(h)
    <2>1. PICK p \in toPut(h) :
            /\ busy(h) /\ PutProvider(h, p) /\ Return(h)
            /\ agent' = agent /\ contact' = contact
      BY <1>4 DEF HeartbeatPut, At
    <2>2. /\ providers' \in Records
          /\ \A q \in ProviderIDs : providers[q] # Absent => providers'[q] # Absent
      BY <1>t, <2>1, PutEffect
    <2>3. rpc' \in [Handlers -> Call \cup {Absent}] /\ LightStored' /\ RegisteredHasID'
      BY <1>t, <2>1, <2>2, ReturnType DEF RegisteredHasID
    <2> QED BY <1>t, <2>1, <2>2, <2>3 DEF TypeInv, TypeOK
  <1>5. CASE UpdateHeartbeat(h)
    <2>1. PICK p \in toPut(h) :
            /\ At(h, "heartbeat.light") /\ Return(h) /\ agent' = agent /\ contact' = contact
            /\ providers' = [providers EXCEPT
                    ![p].LastHeartbeat = rpc[h].recs[p].LastHeartbeat,
                    ![p].Status = "online"]
      BY <1>5 DEF UpdateHeartbeat
    <2>2. /\ p \in ProviderIDs /\ providers[p] \in ProviderRecord
          /\ rpc[h].recs[p] \in ProviderRecord
      BY <1>t, <2>1, BusyCall DEF TypeInv, LightStored, At, Records
    <2>3. [providers[p] EXCEPT !.LastHeartbeat = rpc[h].recs[p].LastHeartbeat,
                               !.Status = "online"] \in ProviderRecord
      BY <2>2 DEF ProviderRecord
    <2>4. /\ providers' \in Records
          /\ \A q \in ProviderIDs : providers[q] # Absent => providers'[q] # Absent
      BY <1>t, <2>1, <2>2, <2>3, ProvidersAssumption DEF Records
    <2>5. rpc' \in [Handlers -> Call \cup {Absent}] /\ LightStored' /\ RegisteredHasID'
      BY <1>t, <2>1, <2>4, ReturnType DEF RegisteredHasID
    <2> QED BY <1>t, <2>1, <2>4, <2>5 DEF TypeInv, TypeOK
  <1>6. CASE StoreFails(h)
    <2>1. /\ Return(h) /\ providers' = providers /\ contact' = contact
          /\ agent' = [a \in Agents |->
                IF rpc[h].pc = "register" /\ a = rpc[h].agent
                THEN [agent[a] EXCEPT !.pc = "down"] ELSE agent[a]]
      BY <1>6 DEF StoreFails
    <2>2. rpc' \in [Handlers -> Call \cup {Absent}] /\ LightStored'
      BY <2>1, ReturnType
    <2>3. agent' \in [Agents -> AgentState] /\ RegisteredHasID'
      BY <1>t, <2>1 DEF AgentState, RegisteredHasID
    <2> QED BY <1>t, <2>1, <2>2, <2>3 DEF TypeInv, TypeOK
  <1> QED BY <1>1, <1>2, <1>3, <1>4, <1>5, <1>6

\* The listing call sets the stale records it fetched to offline.
LEMMA JudgeEffect ==
    ASSUME TypeOK, NEW h \in Handlers, ListProvidersJudge(h)
    PROVE  /\ rpc' \in [Handlers -> Call \cup {Absent}]
           /\ busy(h) /\ rpc'[h].pc = "list.put"
           /\ \A p \in ProviderIDs :
                \/ rpc'[h].recs[p] = Absent
                \/ /\ p \in toPut(h) /\ isStale(rpc[h].recs[p])
                   /\ rpc'[h].recs[p] = [rpc[h].recs[p] EXCEPT !.Status = "offline"]
           /\ \A g \in Handlers \ {h} : rpc'[g] = rpc[g]
  <1> DEFINE recs == [p \in ProviderIDs |->
                IF p \in toPut(h) /\ isStale(rpc[h].recs[p])
                THEN [rpc[h].recs[p] EXCEPT !.Status = "offline"] ELSE Absent]
             call == [rpc[h] EXCEPT !.pc = "list.put", !.recs = recs]
  <1>1. busy(h)
    BY DEF ListProvidersJudge, At
  <1>2. rpc[h] \in Call /\ \A p \in toPut(h) : rpc[h].recs[p] \in ProviderRecord
    BY <1>1, BusyCall
  <1>3. recs \in Records
    <2>1. \A rec \in ProviderRecord : [rec EXCEPT !.Status = "offline"] \in ProviderRecord
      BY DEF ProviderRecord
    <2> QED BY <1>2, <2>1 DEF Records
  <1>4. rpc' = [rpc EXCEPT ![h] = call]
    BY DEF ListProvidersJudge, TypeOK
  <1>5. \A p \in ProviderIDs :
            \/ recs[p] = Absent
            \/ /\ p \in toPut(h) /\ isStale(rpc[h].recs[p])
               /\ recs[p] = [rpc[h].recs[p] EXCEPT !.Status = "offline"]
    OBVIOUS
  <1> HIDE DEF recs
  <1>6. call \in Call /\ call.pc = "list.put" /\ call.recs = recs
    BY <1>2, <1>3 DEF Call
  <1> HIDE DEF call
  <1>7. /\ rpc' \in [Handlers -> Call \cup {Absent}] /\ rpc'[h] = call
        /\ \A g \in Handlers \ {h} : rpc'[g] = rpc[g]
    BY <1>4, <1>6 DEF TypeOK
  <1> QED BY <1>1, <1>5, <1>6, <1>7

\* It has written one of them.
LEMMA ListPutEffect ==
    ASSUME TypeOK, NEW h \in Handlers, busy(h), NEW p \in ProviderIDs,
           rpc' = [rpc EXCEPT ![h].recs[p] = Absent]
    PROVE  /\ rpc' \in [Handlers -> Call \cup {Absent}]
           /\ rpc'[h].pc = rpc[h].pc
           /\ \A q \in ProviderIDs : rpc'[h].recs[q] \in {rpc[h].recs[q], Absent}
           /\ \A g \in Handlers \ {h} : rpc'[g] = rpc[g]
  <1> DEFINE recs == [rpc[h].recs EXCEPT ![p] = Absent]
             call == [rpc[h] EXCEPT !.recs = recs]
  <1>1. rpc[h] \in Call /\ rpc[h].recs \in Records
    BY BusyCall
  <1>2. recs \in Records /\ \A q \in ProviderIDs : recs[q] \in {rpc[h].recs[q], Absent}
    BY <1>1 DEF Records
  <1>3. rpc' = [rpc EXCEPT ![h] = call]
    BY DEF TypeOK
  <1> HIDE DEF recs
  <1>4. call \in Call /\ call.pc = rpc[h].pc /\ call.recs = recs
    BY <1>1, <1>2 DEF Call
  <1> HIDE DEF call
  <1>5. /\ rpc' \in [Handlers -> Call \cup {Absent}] /\ rpc'[h] = call
        /\ \A g \in Handlers \ {h} : rpc'[g] = rpc[g]
    BY <1>3, <1>4 DEF TypeOK
  <1> QED BY <1>2, <1>4, <1>5

\* The listing calls.
LEMMA ListType ==
    ASSUME TypeInv, NEW h \in Handlers,
           \/ ListProviders(h) \/ ListProvidersJudge(h)
           \/ ListProvidersPut(h) \/ ListProvidersReturn(h)
    PROVE  TypeInv'
  <1>t. TypeOK /\ RegisteredHasID /\ LightStored
    BY DEF TypeInv
  <1>a. agent' = agent /\ contact' = contact
    BY DEF ListProviders, ListProvidersJudge, ListProvidersPut, ListProvidersReturn
  <1>b. RegisteredHasID'
    BY <1>t, <1>a DEF RegisteredHasID
  <1>c. ASSUME providers' \in Records, rpc' \in [Handlers -> Call \cup {Absent}], LightStored'
        PROVE  TypeInv'
    BY <1>t, <1>a, <1>b, <1>c DEF TypeInv, TypeOK
  <1>d. ASSUME \A p \in ProviderIDs : providers[p] # Absent => providers'[p] # Absent,
               rpc'[h].pc = "list.put", \A g \in Handlers \ {h} : rpc'[g] = rpc[g]
        PROVE  LightStored'
    <2> SUFFICES ASSUME NEW g \in Handlers, At(g, "heartbeat.light")', NEW p \in toPut(g)'
                 PROVE  providers'[p] # Absent
      BY DEF LightStored
    <2>1. g # h
      BY <1>d DEF At
    <2>2. At(g, "heartbeat.light") /\ p \in toPut(g) /\ p \in ProviderIDs
      BY <1>d, <2>1 DEF At, busy, toPut
    <2> QED BY <1>d, <1>t, <2>2 DEF LightStored
  <1>1. CASE ListProviders(h)
    <2>1. PICK matching \in SUBSET ProviderIDs :
            Begin(h, "list", None, [p \in ProviderIDs |->
                    IF p \in matching THEN providers[p] ELSE Absent])
      BY <1>1 DEF ListProviders
    <2> DEFINE recs == [p \in ProviderIDs |-> IF p \in matching THEN providers[p] ELSE Absent]
    <2>2. recs \in Records
      BY <1>t DEF TypeOK, Records
    <2>3. Begin(h, "list", None, recs)
      BY <2>1
    <2> HIDE DEF recs
    <2>4. providers' = providers
      BY <1>1 DEF ListProviders
    <2>5. rpc' \in [Handlers -> Call \cup {Absent}] /\ LightStored'
      BY <2>2, <2>3, <2>4, BeginType
    <2> QED BY <1>c, <1>t, <2>4, <2>5 DEF TypeOK
  <1>2. CASE ListProvidersJudge(h)
    <2>1. providers' = providers
      BY <1>2 DEF ListProvidersJudge
    <2>2. /\ rpc' \in [Handlers -> Call \cup {Absent}] /\ rpc'[h].pc = "list.put"
          /\ \A g \in Handlers \ {h} : rpc'[g] = rpc[g]
      BY <1>2, <1>t, JudgeEffect
    <2> QED BY <1>c, <1>d, <1>t, <2>1, <2>2 DEF TypeOK
  <1>3. CASE ListProvidersPut(h)
    <2>1. PICK p \in toPut(h) :
            /\ PutProvider(h, p) \/ providers' = providers
            /\ rpc' = [rpc EXCEPT ![h].recs[p] = Absent]
      BY <1>3 DEF ListProvidersPut
    <2>2. busy(h) /\ rpc[h].pc = "list.put" /\ p \in ProviderIDs
      BY <1>3 DEF ListProvidersPut, At, toPut
    <2>3. /\ rpc' \in [Handlers -> Call \cup {Absent}] /\ rpc'[h].pc = "list.put"
          /\ \A g \in Handlers \ {h} : rpc'[g] = rpc[g]
      BY <1>t, <2>1, <2>2, ListPutEffect
    <2>4. /\ providers' \in Records
          /\ \A q \in ProviderIDs : providers[q] # Absent => providers'[q] # Absent
      BY <1>t, <2>1, <2>2, PutEffect DEF TypeOK
    <2> QED BY <1>c, <1>d, <2>3, <2>4
  <1>4. CASE ListProvidersReturn(h)
    <2>1. Return(h) /\ providers' = providers
      BY <1>4 DEF ListProvidersReturn
    <2> QED BY <1>c, <1>t, <2>1, ReturnType DEF TypeOK
  <1> QED BY <1>1, <1>2, <1>3, <1>4

\* The agent's own steps.
LEMMA AgentType ==
    ASSUME TypeInv, NEW a \in Agents, SaveTruncate(a) \/ SaveWrite(a) \/ Crash(a)
    PROVE  TypeInv'
  <1>t. /\ TypeOK /\ RegisteredHasID /\ LightStored
        /\ agent \in [Agents -> AgentState]
    BY DEF TypeInv, TypeOK
  <1>1. CASE SaveTruncate(a) \/ SaveWrite(a)
    <2>1. agent' \in [Agents -> AgentState] /\ RegisteredHasID'
      BY <1>1, <1>t DEF SaveTruncate, SaveWrite, AgentState, RegisteredHasID
    <2>2. UNCHANGED <<providers, rpc, contact>>
      BY <1>1 DEF SaveTruncate, SaveWrite
    <2>3. LightStored'
      BY <1>t, <2>2 DEF LightStored, At, busy, toPut
    <2> QED BY <1>t, <2>1, <2>2, <2>3 DEF TypeInv, TypeOK
  <1>2. CASE Crash(a)
    <2>1. agent' \in [Agents -> AgentState] /\ RegisteredHasID'
      <3>1. agent' = [agent EXCEPT ![a] = [agent[a] EXCEPT !.pc = "down", !.id = None]]
        BY <1>2, <1>t DEF Crash
      <3>2. agent[a] \in AgentState
        BY <1>t
      <3>3. /\ [agent[a] EXCEPT !.pc = "down", !.id = None] \in AgentState
            /\ [agent[a] EXCEPT !.pc = "down", !.id = None].pc = "down"
        BY <3>2 DEF AgentState
      <3> QED BY <1>t, <3>1, <3>3 DEF RegisteredHasID
    <2>2. UNCHANGED <<providers, contact>>
      BY <1>2 DEF Crash
    <2>3. ASSUME NEW h \in Handlers
          PROVE  /\ rpc'[h] \in Call \cup {Absent}
                 /\ busy(h)' => busy(h) /\ rpc'[h].pc = rpc[h].pc /\ rpc'[h].recs = rpc[h].recs
      <3>1. rpc'[h] = IF busy(h)
                      THEN [rpc[h] EXCEPT !.agent = IF @ = a THEN None ELSE @] ELSE Absent
        BY <1>2 DEF Crash
      <3>2. CASE busy(h)
        <4>1. rpc[h] \in Call
          BY <1>t, <3>2, BusyCall
        <4> QED BY <3>1, <3>2, <4>1 DEF Call
      <3>3. CASE ~busy(h)
        BY <3>1, <3>3 DEF busy
      <3> QED BY <3>2, <3>3
    <2>4. rpc' \in [Handlers -> Call \cup {Absent}]
      BY <1>2, <2>3 DEF Crash
    <2>5. LightStored'
      BY <1>t, <2>2, <2>3 DEF LightStored, At, toPut
    <2> QED BY <1>t, <2>1, <2>2, <2>4, <2>5 DEF TypeInv, TypeOK
  <1> QED BY <1>1, <1>2

\* Ages: they stay in range and in order, and stale stays stale.
LEMMA OlderFacts ==
    ASSUME NEW x \in Age
    PROVE  /\ older(x) \in Age
           /\ x > heartbeatTimeout => older(x) > heartbeatTimeout
           /\ \A y \in Age : x <= y => older(x) <= older(y)
  BY ProvidersAssumption DEF Age, older

\* Time passes for every record.
LEMMA TickEffect ==
    ASSUME TypeOK, Tick
    PROVE  /\ providers' \in Records
           /\ rpc' \in [Handlers -> Call \cup {Absent}]
           /\ contact' \in [ProviderIDs -> Age]
           /\ \A p \in ProviderIDs :
                /\ contact'[p] = older(contact[p])
                /\ providers[p] = Absent <=> providers'[p] = Absent
                /\ providers[p] # Absent => providers'[p] =
                    [providers[p] EXCEPT !.LastHeartbeat = older(@)]
           /\ \A h \in Handlers : busy(h)' =>
                /\ busy(h) /\ rpc'[h].pc = rpc[h].pc
                /\ \A p \in ProviderIDs :
                    /\ rpc[h].recs[p] = Absent <=> rpc'[h].recs[p] = Absent
                    /\ rpc[h].recs[p] # Absent => rpc'[h].recs[p] =
                        [rpc[h].recs[p] EXCEPT !.LastHeartbeat = older(@)]
  <1> DEFINE aged(recs) == [p \in ProviderIDs |->
                IF recs[p] = Absent THEN Absent
                ELSE [recs[p] EXCEPT !.LastHeartbeat = older(@)]]
  <1>1. ASSUME NEW recs \in Records
        PROVE  /\ aged(recs) \in Records
               /\ \A p \in ProviderIDs :
                    /\ recs[p] = Absent <=> aged(recs)[p] = Absent
                    /\ recs[p] # Absent => aged(recs)[p] =
                        [recs[p] EXCEPT !.LastHeartbeat = older(@)]
    <2>1. \A rec \in ProviderRecord :
            [rec EXCEPT !.LastHeartbeat = older(@)] \in ProviderRecord
      BY OlderFacts DEF ProviderRecord
    <2>2. Absent \notin ProviderRecord
      BY ProvidersAssumption
    <2> QED BY <2>1, <2>2 DEF Records
  <1>2. /\ providers' = aged(providers)
        /\ rpc' = [h \in Handlers |->
                IF busy(h) THEN [rpc[h] EXCEPT !.recs = aged(@)] ELSE Absent]
        /\ contact' = [p \in ProviderIDs |-> older(contact[p])]
    BY DEF Tick
  <1> HIDE DEF aged
  <1>3. ASSUME NEW h \in Handlers, busy(h)
        PROVE  /\ rpc'[h] \in Call /\ rpc'[h].pc = rpc[h].pc
               /\ rpc'[h].recs = aged(rpc[h].recs) /\ rpc[h].recs \in Records
    <2>1. rpc[h] \in Call /\ rpc[h].recs \in Records
      BY <1>3, BusyCall
    <2>2. rpc'[h] = [rpc[h] EXCEPT !.recs = aged(rpc[h].recs)]
      BY <1>2, <1>3
    <2>3. aged(rpc[h].recs) \in Records
      BY <1>1, <2>1
    <2> QED BY <2>1, <2>2, <2>3 DEF Call
  <1>4. ASSUME NEW h \in Handlers, ~busy(h) PROVE ~busy(h)' /\ rpc'[h] = Absent
    BY <1>2, <1>4 DEF busy
  <1>5. rpc' \in [Handlers -> Call \cup {Absent}]
    BY <1>2, <1>3, <1>4
  <1>6. contact' \in [ProviderIDs -> Age] /\ \A p \in ProviderIDs : contact'[p] = older(contact[p])
    BY <1>2, OlderFacts DEF TypeOK
  <1>7. /\ providers' \in Records
        /\ \A p \in ProviderIDs :
            /\ providers[p] = Absent <=> providers'[p] = Absent
            /\ providers[p] # Absent => providers'[p] =
                    [providers[p] EXCEPT !.LastHeartbeat = older(@)]
    BY <1>1, <1>2 DEF TypeOK
  <1>8. ASSUME NEW h \in Handlers, busy(h)'
        PROVE  /\ busy(h) /\ rpc'[h].pc = rpc[h].pc
               /\ \A p \in ProviderIDs :
                    /\ rpc[h].recs[p] = Absent <=> rpc'[h].recs[p] = Absent
                    /\ rpc[h].recs[p] # Absent => rpc'[h].recs[p] =
                        [rpc[h].recs[p] EXCEPT !.LastHeartbeat = older(@)]
    BY <1>1, <1>3, <1>4, <1>8
  <1> QED BY <1>5, <1>6, <1>7, <1>8

\* Every step.
LEMMA NextType == TypeInv /\ [Next]_vars => TypeInv'
  <1> SUFFICES ASSUME TypeInv, [Next]_vars PROVE TypeInv'
    OBVIOUS
  <1>1. CASE Tick
    <2>1. /\ providers' \in Records /\ rpc' \in [Handlers -> Call \cup {Absent}]
          /\ contact' \in [ProviderIDs -> Age]
          /\ \A p \in ProviderIDs : providers[p] = Absent <=> providers'[p] = Absent
          /\ \A h \in Handlers : busy(h)' =>
                /\ busy(h) /\ rpc'[h].pc = rpc[h].pc
                /\ \A p \in ProviderIDs : rpc[h].recs[p] = Absent <=> rpc'[h].recs[p] = Absent
      BY <1>1, TickEffect DEF TypeInv
    <2>2. agent' = agent
      BY <1>1 DEF Tick
    <2>3. LightStored' /\ RegisteredHasID'
      BY <2>1, <2>2 DEF TypeInv, LightStored, RegisteredHasID, At, toPut
    <2> QED BY <2>1, <2>2, <2>3 DEF TypeInv, TypeOK
  <1>2. CASE UNCHANGED vars
    BY <1>2 DEF vars, TypeInv, TypeOK, LightStored, RegisteredHasID, At, busy, toPut
  <1> QED BY <1>1, <1>2, WriteType, ListType, AgentType DEF Next

\* The store, the calls in progress and the agents keep their types; in particular the
\* single-column update of UpdateHeartbeat always finds its row.
THEOREM ProvidersTyped == Spec => []TypeOK
  <1>1. TypeInv => TypeOK
    BY DEF TypeInv
  <1> QED BY <1>1, InitType, NextType, PTL DEF Spec
-----------------------------------------------------------------------------
(***************************************************************************)
(* What the records say.  A record is written some time after it was made, *)
(* whole, and may undo what was stored meanwhile; so what holds of the     *)
(* store has to hold of every record in hand.  No record is younger than   *)
(* the provider's latest contact, and one that says offline is stale.      *)
(***************************************************************************)
Fits(age, rec) ==
    rec # Absent =>
        /\ age <= rec.LastHeartbeat
        /\ rec.Status = "offline" => rec.LastHeartbeat > heartbeatTimeout

RecordsFit ==
    /\ \A p \in ProviderIDs : Fits(contact[p], providers[p])
    /\ \A h \in Handlers : busy(h) =>
        \A p \in ProviderIDs : Fits(contact[p], rpc[h].recs[p])

DiscoveryInv == TypeInv /\ RunningIsStored /\ RecordsFit

\* What fits an age fits zero; so does a new record.
LEMMA FitsNow ==
    ASSUME NEW age \in Age, NEW rec \in ProviderRecord \cup {Absent}, Fits(age, rec)
    PROVE  Fits(0, rec)
  BY ProvidersAssumption DEF Fits, ProviderRecord, Age

\* One handler steps, providers may come into contact, and what is written or
\* taken in hand fits.
LEMMA FitStep ==
    ASSUME TypeInv, RecordsFit, NEW h \in Handlers,
           \A g \in Handlers \ {h} : rpc'[g] = rpc[g],
           \A p \in ProviderIDs : contact'[p] \in {contact[p], 0},
           \A p \in ProviderIDs :
                providers'[p] = providers[p] \/ Fits(contact'[p], providers'[p]),
           busy(h)' => \A p \in ProviderIDs : Fits(contact'[p], rpc'[h].recs[p])
    PROVE  RecordsFit'
  <1>1. ASSUME NEW p \in ProviderIDs, NEW rec \in ProviderRecord \cup {Absent},
               Fits(contact[p], rec)
        PROVE  Fits(contact'[p], rec)
    <2>1. contact[p] \in Age
      BY DEF TypeInv, TypeOK
    <2> QED BY <1>1, <2>1, FitsNow
  <1>2. ASSUME NEW p \in ProviderIDs PROVE Fits(contact'[p], providers'[p])
    <2>1. providers[p] \in ProviderRecord \cup {Absent} /\ Fits(contact[p], providers[p])
      BY DEF TypeInv, TypeOK, Records, RecordsFit
    <2> QED BY <1>1, <2>1
  <1>3. ASSUME NEW g \in Handlers, busy(g)', NEW p \in ProviderIDs
        PROVE  Fits(contact'[p], rpc'[g].recs[p])
    <2>1. CASE g # h
      <3>1. rpc'[g] = rpc[g] /\ busy(g)
        BY <1>3, <2>1 DEF busy
      <3>2. rpc[g].recs[p] \in ProviderRecord \cup {Absent}
        BY <3>1, BusyCall DEF TypeInv, Records
      <3>3. Fits(contact[p], rpc[g].recs[p])
        BY <3>1 DEF RecordsFit
      <3> QED BY <1>1, <3>1, <3>2, <3>3
    <2> QED BY <1>3, <2>1
  <1> QED BY <1>2, <1>3 DEF RecordsFit, Fits

\* Rows are not deleted, and an ID an agent is given is stored.
LEMMA StoredStep ==
    ASSUME TypeInv, RunningIsStored,
           \A p \in ProviderIDs : providers[p] # Absent => providers'[p] # Absent,
           \A a \in Agents :
                \/ agent'[a].id \in {agent[a].id, None}
                \/ providers'[agent'[a].id] # Absent
    PROVE  RunningIsStored'
  <1> SUFFICES ASSUME NEW a \in Agents, agent'[a].id # None
               PROVE  providers'[agent'[a].id] # Absent
    BY DEF RunningIsStored
  <1>1. CASE agent'[a].id = agent[a].id
    <2>1. agent[a].id \in ProviderIDs
      BY <1>1 DEF TypeInv, TypeOK, AgentState
    <2> QED BY <1>1, <2>1 DEF RunningIsStored
  <1> QED BY <1>1

\* A registration or heartbeat begins.
LEMMA BeginFits ==
    ASSUME TypeInv, RecordsFit, NEW h \in Handlers, NEW p \in ProviderIDs,
           NEW pc \in {"register", "heartbeat", "heartbeat.light"}, NEW a \in Agents,
           Begin(h, pc, a, [noRecords EXCEPT ![p] = onlineNow]),
           contact' = [contact EXCEPT ![p] = 0], providers' = providers
    PROVE  RecordsFit'
  <1> DEFINE recs == [noRecords EXCEPT ![p] = onlineNow]
  <1>1. /\ recs \in Records /\ recs[p] = onlineNow
        /\ \A q \in ProviderIDs \ {p} : recs[q] = Absent
    BY OneRecord
  <1>2. Begin(h, pc, a, recs)
    OBVIOUS
  <1> HIDE DEF recs
  <1>3. rpc'[h].recs = recs /\ \A g \in Handlers \ {h} : rpc'[g] = rpc[g]
    BY <1>1, <1>2, BeginEffect DEF TypeInv
  <1>4. /\ contact'[p] = 0
        /\ \A q \in ProviderIDs : contact'[q] \in {contact[q], 0}
    BY DEF TypeInv, TypeOK
  <1>5. Fits(0, onlineNow)
    BY DEF Fits, onlineNow
  <1>6. \A q \in ProviderIDs : Fits(contact'[q], recs[q])
    BY <1>1, <1>4, <1>5 DEF Fits
  <1> QED BY <1>3, <1>4, <1>6, FitStep

\* A call writes a record it has in hand, and ends or goes on with fewer.
LEMMA PutFits ==
    ASSUME TypeInv, RecordsFit, NEW h \in Handlers, busy(h), NEW p \in toPut(h),
           PutProvider(h, p) \/ providers' = providers, contact' = contact,
           \A g \in Handlers \ {h} : rpc'[g] = rpc[g],
           busy(h)' =>
              \A q \in ProviderIDs : rpc'[h].recs[q] \in {rpc[h].recs[q], Absent}
    PROVE  RecordsFit' /\ \A q \in ProviderIDs : providers[q] # Absent => providers'[q] # Absent
  <1>1. /\ \A q \in ProviderIDs : Fits(contact[q], rpc[h].recs[q])
        /\ \A q \in ProviderIDs : Fits(contact[q], Absent)
    BY DEF RecordsFit, Fits
  <1>2. \A q \in ProviderIDs :
            /\ providers'[q] = providers[q] \/ providers'[q] = rpc[h].recs[q]
            /\ providers[q] # Absent => providers'[q] # Absent
    BY PutEffect DEF TypeInv
  <1>3. \A q \in ProviderIDs :
            providers'[q] = providers[q] \/ Fits(contact'[q], providers'[q])
    BY <1>1, <1>2
  <1>4. busy(h)' => \A q \in ProviderIDs : Fits(contact'[q], rpc'[h].recs[q])
    BY <1>1
  <1> QED BY <1>2, <1>3, <1>4, FitStep

\* The registrations, the heartbeats and the writes that end them.
LEMMA WriteFits ==
    ASSUME DiscoveryInv, NEW h \in Handlers,
           \/ \E a \in Agents, p \in ProviderIDs : RegisterProvider(h, a, p)
           \/ RegisterProviderPut(h)
           \/ \E a \in Agents, pc \in {"heartbeat", "heartbeat.light"} : Heartbeat(h, a, pc)
           \/ HeartbeatPut(h) \/ UpdateHeartbeat(h) \/ StoreFails(h)
    PROVE  RunningIsStored' /\ RecordsFit'
  <1>t. TypeInv /\ TypeOK /\ RunningIsStored /\ RecordsFit /\ agent \in [Agents -> AgentState]
    BY DEF DiscoveryInv, TypeInv, TypeOK
  <1>1. ASSUME NEW a \in Agents, NEW p \in ProviderIDs, RegisterProvider(h, a, p)
        PROVE  RunningIsStored' /\ RecordsFit'
    <2>1. /\ Begin(h, "register", a, [noRecords EXCEPT ![p] = onlineNow])
          /\ contact' = [contact EXCEPT ![p] = 0] /\ providers' = providers
          /\ agent' = [agent EXCEPT ![a].pc = "registering"]
      BY <1>1 DEF RegisterProvider
    <2>2. \A b \in Agents : agent'[b].id = agent[b].id
      BY <1>t, <2>1 DEF AgentState
    <2> QED BY <1>t, <2>1, <2>2, BeginFits, StoredStep
  <1>2. CASE RegisterProviderPut(h)
    <2>1. PICK p \in toPut(h) :
            /\ busy(h) /\ PutProvider(h, p) /\ Return(h)
            /\ agent' = answer(h, p) /\ contact' = contact
      BY <1>2 DEF RegisterProviderPut, At
    <2>2. ~busy(h)' /\ \A g \in Handlers \ {h} : rpc'[g] = rpc[g]
      BY <1>t, <2>1, ReturnEffect
    <2>3. /\ RecordsFit'
          /\ \A q \in ProviderIDs : providers[q] # Absent => providers'[q] # Absent
      BY <1>t, <2>1, <2>2, PutFits
    <2>4. providers'[p] # Absent
      BY <1>t, <2>1, PutEffect
    <2>5. \A b \in Agents : agent'[b].id \in {agent[b].id, p}
      BY <1>t, <2>1 DEF answer, AgentState
    <2> QED BY <1>t, <2>3, <2>4, <2>5, StoredStep
  <1>3. ASSUME NEW a \in Agents, NEW pc \in {"heartbeat", "heartbeat.light"},
               Heartbeat(h, a, pc)
        PROVE  RunningIsStored' /\ RecordsFit'
    <2> DEFINE p == agent[a].id
    <2>1. /\ Begin(h, pc, a, [noRecords EXCEPT ![p] = onlineNow])
          /\ contact' = [contact EXCEPT ![p] = 0]
          /\ providers' = providers /\ agent' = agent /\ agent[a].pc = "up"
      BY <1>3 DEF Heartbeat
    <2>2. p \in ProviderIDs
      BY <1>t, <2>1 DEF TypeInv, RegisteredHasID, AgentState
    <2> HIDE DEF p
    <2> QED BY <1>t, <2>1, <2>2, BeginFits, StoredStep
  <1>4. CASE HeartbeatPut(h)
    <2>1. PICK p \in toPut(h) :
            /\ busy(h) /\ PutProvider(h, p) /\ Return(h)
            /\ agent' = agent /\ contact' = contact
      BY <1>4 DEF HeartbeatPut, At
    <2>2. ~busy(h)' /\ \A g \in Handlers \ {h} : rpc'[g] = rpc[g]
      BY <1>t, <2>1, ReturnEffect
    <2>3. /\ RecordsFit'
          /\ \A q \in ProviderIDs : providers[q] # Absent => providers'[q] # Absent
      BY <1>t, <2>1, <2>2, PutFits
    <2> QED BY <1>t, <2>1, <2>3, StoredStep
  <1>5. CASE UpdateHeartbeat(h)
    <2>1. PICK p \in toPut(h) :
            /\ At(h, "heartbeat.light") /\ Return(h) /\ agent' = agent /\ contact' = contact
            /\ providers' = [providers EXCEPT
                    ![p].LastHeartbeat = rpc[h].recs[p].LastHeartbeat,
                    ![p].Status = "online"]
      BY <1>5 DEF UpdateHeartbeat
    <2>2. /\ p \in ProviderIDs /\ providers[p] \in ProviderRecord
          /\ rpc[h].recs[p] \in ProviderRecord /\ busy(h)
      BY <1>t, <2>1, BusyCall DEF TypeInv, TypeOK, LightStored, At, Records
    <2>3. PICK rec : rec = [providers[p] EXCEPT !.LastHeartbeat = rpc[h].recs[p].LastHeartbeat,
                                               !.Status = "online"]
      OBVIOUS
    <2>4. /\ rec \in ProviderRecord /\ rec.Status = "online"
          /\ rec.LastHeartbeat = rpc[h].recs[p].LastHeartbeat
      BY <2>2, <2>3 DEF ProviderRecord
    <2>5. Fits(contact[p], rpc[h].recs[p]) /\ rpc[h].recs[p] # Absent
      BY <1>t, <2>2, ProvidersAssumption DEF RecordsFit
    <2>6. Fits(contact[p], rec)
      BY <2>4, <2>5 DEF Fits
    <2>7. providers'[p] = rec /\ \A q \in ProviderIDs \ {p} : providers'[q] = providers[q]
      BY <1>t, <2>1, <2>2, <2>3 DEF TypeOK, Records
    <2>8. ~busy(h)' /\ \A g \in Handlers \ {h} : rpc'[g] = rpc[g]
      BY <1>t, <2>1, ReturnEffect
    <2>9. \A q \in ProviderIDs : providers[q] # Absent => providers'[q] # Absent
      BY <2>4, <2>7, ProvidersAssumption
    <2>10. RecordsFit'
      BY <1>t, <2>1, <2>6, <2>7, <2>8, FitStep
    <2> QED BY <1>t, <2>1, <2>9, <2>10, StoredStep
  <1>6. CASE StoreFails(h)
    <2>1. /\ Return(h) /\ providers' = providers /\ contact' = contact
          /\ agent' = [a \in Agents |->
                IF rpc[h].pc = "register" /\ a = rpc[h].agent
                THEN [agent[a] EXCEPT !.pc = "down"] ELSE agent[a]]
      BY <1>6 DEF StoreFails
    <2>2. ~busy(h)' /\ \A g \in Handlers \ {h} : rpc'[g] = rpc[g]
      BY <1>t, <2>1, ReturnEffect
    <2>3. \A b \in Agents : agent'[b].id = agent[b].id
      BY <1>t, <2>1 DEF AgentState
    <2> QED BY <1>t, <2>1, <2>2, <2>3, FitStep, StoredStep
  <1> QED BY <1>1, <1>2, <1>3, <1>4, <1>5, <1>6

\* The listing calls.
LEMMA ListFits ==
    ASSUME DiscoveryInv, NEW h \in Handlers,
           \/ ListProviders(h) \/ ListProvidersJudge(h)
           \/ ListProvidersPut(h) \/ ListProvidersReturn(h)
    PROVE  RunningIsStored' /\ RecordsFit'
  <1>t. TypeInv /\ TypeOK /\ RunningIsStored /\ RecordsFit
    BY DEF DiscoveryInv, TypeInv
  <1>a. agent' = agent /\ contact' = contact
    BY DEF ListProviders, ListProvidersJudge, ListProvidersPut, ListProvidersReturn
  <1>b. \A p \in ProviderIDs : Fits(contact[p], providers[p]) /\ Fits(contact[p], Absent)
    BY <1>t DEF RecordsFit, Fits
  <1>1. CASE ListProviders(h)
    <2>1. PICK matching \in SUBSET ProviderIDs :
            Begin(h, "list", None, [p \in ProviderIDs |->
                    IF p \in matching THEN providers[p] ELSE Absent])
      BY <1>1 DEF ListProviders
    <2> DEFINE recs == [p \in ProviderIDs |-> IF p \in matching THEN providers[p] ELSE Absent]
    <2>2. recs \in Records /\ \A p \in ProviderIDs : recs[p] \in {providers[p], Absent}
      BY <1>t DEF TypeOK, Records
    <2>3. Begin(h, "list", None, recs)
      BY <2>1
    <2> HIDE DEF recs
    <2>4. providers' = providers
      BY <1>1 DEF ListProviders
    <2>5. rpc'[h].recs = recs /\ \A g \in Handlers \ {h} : rpc'[g] = rpc[g]
      BY <1>t, <2>2, <2>3, BeginEffect
    <2>6. \A p \in ProviderIDs : Fits(contact'[p], rpc'[h].recs[p])
      BY <1>a, <1>b, <2>2, <2>5
    <2> QED BY <1>t, <1>a, <2>4, <2>5, <2>6, FitStep, StoredStep
  <1>2. CASE ListProvidersJudge(h)
    <2>1. providers' = providers
      BY <1>2 DEF ListProvidersJudge
    <2>2. /\ busy(h)
          /\ \A p \in ProviderIDs :
                \/ rpc'[h].recs[p] = Absent
                \/ /\ p \in toPut(h) /\ isStale(rpc[h].recs[p])
                   /\ rpc'[h].recs[p] = [rpc[h].recs[p] EXCEPT !.Status = "offline"]
          /\ \A g \in Handlers \ {h} : rpc'[g] = rpc[g]
      BY <1>2, <1>t, JudgeEffect
    <2>3. ASSUME NEW p \in ProviderIDs PROVE Fits(contact[p], rpc'[h].recs[p])
      <3>1. CASE rpc'[h].recs[p] = Absent
        BY <1>b, <3>1
      <3>2. CASE /\ p \in toPut(h) /\ isStale(rpc[h].recs[p])
                 /\ rpc'[h].recs[p] = [rpc[h].recs[p] EXCEPT !.Status = "offline"]
        <4>1. rpc[h].recs[p] \in ProviderRecord /\ rpc[h].recs[p] # Absent
          BY <1>t, <2>2, <3>2, BusyCall, ProvidersAssumption
        <4>2. rpc'[h].recs[p].LastHeartbeat = rpc[h].recs[p].LastHeartbeat
          BY <3>2, <4>1 DEF ProviderRecord
        <4>3. contact[p] <= rpc[h].recs[p].LastHeartbeat
          BY <1>t, <2>2, <4>1 DEF RecordsFit, Fits
        <4> QED BY <3>2, <4>2, <4>3 DEF Fits, isStale
      <3> QED BY <2>2, <3>1, <3>2
    <2> QED BY <1>t, <1>a, <2>1, <2>2, <2>3, FitStep, StoredStep
  <1>3. CASE ListProvidersPut(h)
    <2>1. PICK p \in toPut(h) :
            /\ PutProvider(h, p) \/ providers' = providers
            /\ rpc' = [rpc EXCEPT ![h].recs[p] = Absent]
      BY <1>3 DEF ListProvidersPut
    <2>2. busy(h) /\ p \in ProviderIDs
      BY <1>3 DEF ListProvidersPut, At, toPut
    <2>3. /\ \A q \in ProviderIDs : rpc'[h].recs[q] \in {rpc[h].recs[q], Absent}
          /\ \A g \in Handlers \ {h} : rpc'[g] = rpc[g]
      BY <1>t, <2>1, <2>2, ListPutEffect
    <2>4. /\ RecordsFit'
          /\ \A q \in ProviderIDs : providers[q] # Absent => providers'[q] # Absent
      BY <1>t, <1>a, <2>1, <2>2, <2>3, PutFits
    <2> QED BY <1>t, <1>a, <2>4, StoredStep
  <1>4. CASE ListProvidersReturn(h)
    <2>1. Return(h) /\ providers' = providers
      BY <1>4 DEF ListProvidersReturn
    <2>2. ~busy(h)' /\ \A g \in Handlers \ {h} : rpc'[g] = rpc[g]
      BY <1>t, <2>1, ReturnEffect
    <2> QED BY <1>t, <1>a, <2>1, <2>2, FitStep, StoredStep
  <1> QED BY <1>1, <1>2, <1>3, <1>4

\* The agent's own steps, and time.
LEMMA OtherFits ==
    ASSUME DiscoveryInv,
           \/ \E a \in Agents : SaveTruncate(a) \/ SaveWrite(a) \/ Crash(a)
           \/ Tick
    PROVE  RunningIsStored' /\ RecordsFit'
  <1>t. TypeInv /\ TypeOK /\ RunningIsStored /\ RecordsFit /\ agent \in [Agents -> AgentState]
    BY DEF DiscoveryInv, TypeInv, TypeOK
  <1>1. ASSUME NEW a \in Agents, SaveTruncate(a) \/ SaveWrite(a)
        PROVE  RunningIsStored' /\ RecordsFit'
    <2>1. UNCHANGED <<providers, rpc, contact>>
      BY <1>1 DEF SaveTruncate, SaveWrite
    <2>2. \A b \in Agents : agent'[b].id = agent[b].id
      BY <1>1, <1>t DEF SaveTruncate, SaveWrite, AgentState
    <2>3. RecordsFit'
      BY <1>t, <2>1 DEF RecordsFit, busy
    <2> QED BY <1>t, <2>1, <2>2, <2>3, StoredStep
  <1>2. ASSUME NEW a \in Agents, Crash(a)
        PROVE  RunningIsStored' /\ RecordsFit'
    <2>1. UNCHANGED <<providers, contact>>
      BY <1>2 DEF Crash
    <2>2. \A b \in Agents : agent'[b].id \in {agent[b].id, None}
      <3>1. agent' = [agent EXCEPT ![a] = [agent[a] EXCEPT !.pc = "down", !.id = None]]
        BY <1>2, <1>t DEF Crash
      <3>2. [agent[a] EXCEPT !.pc = "down", !.id = None].id = None
        BY <1>t DEF AgentState
      <3> QED BY <1>t, <3>1, <3>2
    <2>3. ASSUME NEW h \in Handlers, busy(h)'
          PROVE  busy(h) /\ rpc'[h].recs = rpc[h].recs
      <3>1. rpc'[h] = IF busy(h)
                      THEN [rpc[h] EXCEPT !.agent = IF @ = a THEN None ELSE @] ELSE Absent
        BY <1>2 DEF Crash
      <3>2. busy(h)
        BY <2>3, <3>1 DEF busy
      <3>3. rpc[h] \in Call
        BY <1>t, <3>2, BusyCall
      <3> QED BY <3>1, <3>2, <3>3 DEF Call
    <2>4. RecordsFit'
      BY <1>t, <2>1, <2>3 DEF RecordsFit
    <2> QED BY <1>t, <2>1, <2>2, <2>4, StoredStep
  <1>3. CASE Tick
    <2>1. ASSUME NEW p \in ProviderIDs, NEW rec \in ProviderRecord, Fits(contact[p], rec)
          PROVE  Fits(older(contact[p]), [rec EXCEPT !.LastHeartbeat = older(@)])
      <3>1. PICK new : new = [rec EXCEPT !.LastHeartbeat = older(@)]
        OBVIOUS
      <3>2. /\ new.LastHeartbeat = older(rec.LastHeartbeat) /\ new.Status = rec.Status
            /\ rec.LastHeartbeat \in Age /\ contact[p] \in Age
        BY <1>t, <3>1 DEF ProviderRecord, TypeOK
      <3>3. rec # Absent
        BY ProvidersAssumption
      <3>4. /\ older(contact[p]) <= older(rec.LastHeartbeat)
            /\ rec.Status = "offline" => older(rec.LastHeartbeat) > heartbeatTimeout
        BY <2>1, <3>2, <3>3, OlderFacts DEF Fits
      <3> QED BY <3>1, <3>2, <3>4 DEF Fits
    <2>2. /\ \A p \in ProviderIDs :
                /\ contact'[p] = older(contact[p])
                /\ providers[p] = Absent <=> providers'[p] = Absent
                /\ providers[p] # Absent => providers'[p] =
                    [providers[p] EXCEPT !.LastHeartbeat = older(@)]
          /\ \A h \in Handlers : busy(h)' =>
                /\ busy(h)
                /\ \A p \in ProviderIDs :
                    /\ rpc[h].recs[p] = Absent <=> rpc'[h].recs[p] = Absent
                    /\ rpc[h].recs[p] # Absent => rpc'[h].recs[p] =
                        [rpc[h].recs[p] EXCEPT !.LastHeartbeat = older(@)]
      BY <1>t, <1>3, TickEffect
    <2>3. ASSUME NEW p \in ProviderIDs PROVE Fits(contact'[p], providers'[p])
      <3>1. CASE providers[p] = Absent
        BY <2>2, <3>1 DEF Fits
      <3>2. CASE providers[p] # Absent
        <4>1. providers[p] \in ProviderRecord /\ Fits(contact[p], providers[p])
          BY <1>t, <3>2 DEF TypeOK, Records, RecordsFit
        <4> QED BY <2>1, <2>2, <3>2, <4>1
      <3> QED BY <3>1, <3>2
    <2>4. ASSUME NEW h \in Handlers, busy(h)', NEW p \in ProviderIDs
          PROVE  Fits(contact'[p], rpc'[h].recs[p])
      <3>1. CASE rpc[h].recs[p] = Absent
        BY <2>2, <2>4, <3>1 DEF Fits
      <3>2. CASE rpc[h].recs[p] # Absent
        <4>1. busy(h)
          BY <2>2, <2>4
        <4>2. rpc[h].recs[p] \in ProviderRecord /\ Fits(contact[p], rpc[h].recs[p])
          BY <1>t, <3>2, <4>1, BusyCall DEF Records, RecordsFit
        <4> QED BY <2>1, <2>2, <2>4, <3>2, <4>2
      <3> QED BY <3>1, <3>2
    <2>5. RecordsFit'
      BY <2>3, <2>4 DEF RecordsFit, Fits
    <2>6. agent' = agent
      BY <1>3 DEF Tick
    <2> QED BY <1>t, <2>2, <2>5, <2>6, StoredStep
  <1> QED BY <1>1, <1>2, <1>3

\* The invariant holds in every reachable state.
LEMMA DiscoveryInvariant == Spec => []DiscoveryInv
  <1>1. Init => DiscoveryInv
    BY InitType DEF Init, DiscoveryInv, RunningIsStored, RecordsFit, Fits, noRecords, busy
  <1>2. DiscoveryInv /\ [Next]_vars => DiscoveryInv'
    <2> SUFFICES ASSUME DiscoveryInv, [Next]_vars PROVE DiscoveryInv'
      OBVIOUS
    <2>1. TypeInv'
      BY NextType DEF DiscoveryInv
    <2>2. CASE UNCHANGED vars
      BY <2>1, <2>2 DEF vars, DiscoveryInv, RunningIsStored, RecordsFit, busy
    <2>3. CASE Next
      BY <2>1, <2>3, WriteFits, ListFits, OtherFits DEF Next, DiscoveryInv
    <2> QED BY <2>2, <2>3
  <1> QED BY <1>1, <1>2, PTL DEF Spec

\* The ID a running agent sends with its heartbeats is stored, whatever registrations
\* overlap and fail: it never has to register again.
THEOREM RunningStored == Spec => []RunningIsStored
  <1>1. DiscoveryInv => RunningIsStored
    BY DEF DiscoveryInv
  <1> QED BY <1>1, DiscoveryInvariant, PTL

\* Whoever writes a provider last, a row that says offline carries a stale heartbeat:
\* a late ListProviders undoes a heartbeat's status only together with its time.
THEOREM OfflineStale == Spec => []OfflineIsStale
  <1>1. DiscoveryInv => OfflineIsStale
    BY DEF DiscoveryInv, RecordsFit, Fits, OfflineIsStale
  <1> QED BY <1>1, DiscoveryInvariant, PTL

\* ListProviders never answers with a provider that has not been in contact within
\* heartbeatTimeout when it takes the time, whatever overlaps it.
THEOREM ListedAlive == Spec => []ListedWasAlive
  <1>1. ASSUME DiscoveryInv PROVE ListedWasAlive
    <2> SUFFICES ASSUME NEW h \in Handlers, At(h, "list"), NEW p \in reply(h)
                 PROVE  contact[p] <= heartbeatTimeout
      BY DEF ListedWasAlive
    <2>1. busy(h) /\ p \in toPut(h) /\ p \in ProviderIDs /\ ~isStale(rpc[h].recs[p])
      BY DEF At, reply, toPut
    <2>2. rpc[h].recs[p] \in ProviderRecord /\ contact[p] \in Age
      BY <1>1, <2>1, BusyCall DEF DiscoveryInv, TypeInv, TypeOK
    <2>3. contact[p] <= rpc[h].recs[p].LastHeartbeat
      BY <1>1, <2>1 DEF DiscoveryInv, RecordsFit, Fits, toPut
    <2> QED BY <2>1, <2>2, <2>3, ProvidersAssumption DEF isStale, ProviderRecord, Age
  <1> QED BY <1>1, DiscoveryInvariant, PTL
=============================================================================
