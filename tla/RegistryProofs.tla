---------------------------- MODULE RegistryProofs ----------------------------
(***************************************************************************)
(* Proofs about the session RPCs, for any number of sessions, overlapping  *)
(* calls, requests and tunnel indices.                                     *)
(***************************************************************************)
EXTENDS Registry, TLAPS

\* advanceTunnel and NewServer's first hint stay inside the address range: neither
\* octet wraps at 255.
LEMMA HintType ==
    /\ firstTunnel \in tunnelIndex
    /\ \A idx \in tunnelIndex : advanceTunnel(idx) \in tunnelIndex
  <1>1. /\ MajorMin \in Nat /\ MajorMax \in MajorMin..254
        /\ MinorMin \in Nat /\ MinorMax \in MinorMin..254
    BY IndexAssumption
  <1>2. ASSUME NEW idx \in tunnelIndex PROVE advanceTunnel(idx) \in tunnelIndex
    <2>1. idx[1] \in MajorMin..MajorMax /\ idx[2] \in MinorMin..MinorMax
      BY DEF tunnelIndex
    <2>2. uint8(idx[1] + 1) = idx[1] + 1 /\ uint8(idx[2] + 1) = idx[2] + 1
      BY <1>1, <2>1 DEF uint8
    <2> QED BY <1>1, <2>1, <2>2 DEF advanceTunnel, tunnelIndex
  <1> QED BY <1>1, <1>2 DEF firstTunnel, tunnelIndex

\* Grant keeps the allocator's types and gives s an index nobody holds.
LEMMA GrantFacts ==
    ASSUME LeaseTypeOK, NEW s \in Sessions, Grant(s)
    PROVE  /\ LeaseTypeOK'
           /\ lease'[s] \in tunnelIndex
           /\ \A t \in Sessions : lease[t] # lease'[s]
           /\ lease' = [lease EXCEPT ![s] = lease'[s]]
  <1>1. PICK c \in Nearest(nextTunnelHint, Free) :
            /\ lease' = [lease EXCEPT ![s] = c]
            /\ nextTunnelHint' = advanceTunnel(c)
            /\ denied' = denied \ {s}
    BY DEF Grant
  <1>2. c \in tunnelIndex /\ \A t \in Sessions : lease[t] # c
    BY DEF Nearest, Free
  <1>3. advanceTunnel(c) \in tunnelIndex
    BY <1>2, HintType
  <1> QED BY <1>1, <1>2, <1>3 DEF LeaseTypeOK

\* Deny and Release keep the allocator's types.
LEMMA DenyReleaseType ==
    ASSUME LeaseTypeOK, NEW s \in Sessions, Deny(s) \/ Release(s)
    PROVE  LeaseTypeOK'
  BY DEF LeaseTypeOK, Deny, Release

\* What a busy handler's call looks like.
LEMMA BusyCall ==
    ASSUME TypeOK, NEW h \in Handlers, busy(h)
    PROVE  /\ rpc[h] \in Call
           /\ rpc[h].pc \in Steps /\ rpc[h].sid \in Sessions
           /\ rpc[h].rec \in SessionRecord /\ rpc[h].key \in BOOLEAN
  BY DEF TypeOK, busy, Call

\* Begin, Goto and Return keep the type of rpc.
LEMMA RpcType ==
    ASSUME TypeOK, NEW h \in Handlers
    PROVE  /\ \A pc \in Steps, s \in Sessions, rec \in SessionRecord, key \in BOOLEAN :
                Begin(h, pc, s, rec, key) =>
                    /\ rpc' \in [Handlers -> Call \cup {Absent}]
                    /\ requests' \in 0..MaxRequests
           /\ \A pc \in Steps : busy(h) /\ Goto(h, pc) => rpc' \in [Handlers -> Call \cup {Absent}]
           /\ Return(h) => rpc' \in [Handlers -> Call \cup {Absent}]
           /\ Request => requests' \in 0..MaxRequests
  <1>1. Request => requests' \in 0..MaxRequests
    BY RegistryAssumption DEF Request, TypeOK
  <1>2. ASSUME NEW pc \in Steps, NEW s \in Sessions, NEW rec \in SessionRecord,
               NEW key \in BOOLEAN, Begin(h, pc, s, rec, key)
        PROVE  rpc' \in [Handlers -> Call \cup {Absent}] /\ requests' \in 0..MaxRequests
    <2>1. [pc |-> pc, sid |-> s, rec |-> rec, key |-> key] \in Call
      BY DEF Call
    <2> HIDE DEF Call
    <2> QED BY <1>1, <1>2, <2>1 DEF Begin, TypeOK
  <1>3. ASSUME NEW pc \in Steps, busy(h), Goto(h, pc)
        PROVE  rpc' \in [Handlers -> Call \cup {Absent}]
    <2>1. rpc[h] \in Call
      BY <1>3, BusyCall
    <2>2. [rpc[h] EXCEPT !.pc = pc] \in Call
      BY <2>1 DEF Call
    <2>3. rpc' = [rpc EXCEPT ![h] = [rpc[h] EXCEPT !.pc = pc]]
      BY <1>3 DEF Goto, TypeOK
    <2> QED BY <2>2, <2>3 DEF TypeOK
  <1>4. Return(h) => rpc' \in [Handlers -> Call \cup {Absent}]
    BY DEF Return, TypeOK
  <1> QED BY <1>1, <1>2, <1>3, <1>4

\* PutSession and AssignFields keep the type of the store.
LEMMA StoreType ==
    ASSUME TypeOK, NEW h \in Handlers, NEW s \in Sessions, NEW rec \in SessionRecord
    PROVE  /\ busy(h) /\ PutSession(h) => sessions' \in [Sessions -> SessionRecord \cup {Absent}]
           /\ AssignFields(s, rec) => sessions' \in [Sessions -> SessionRecord \cup {Absent}]
  <1>1. busy(h) => rpc[h].rec \in SessionRecord
    BY BusyCall
  <1> QED BY <1>1 DEF TypeOK, PutSession, AssignFields

\* The registry starts well-typed.
LEMMA InitType == Init => TypeOK
  BY HintType, RegistryAssumption DEF Init, TypeOK, LeaseInit, LeaseTypeOK

\* The new calls keep TypeOK.
LEMMA RequestType ==
    ASSUME TypeOK, NEW h \in Handlers, NEW s \in Sessions,
           \/ \E key \in BOOLEAN : CreateSession(h, s, key)
           \/ CreateSessionExhausted(h, s)
           \/ TerminateSession(h, s)
           \/ \E req \in StatusRequest :
                UpdateSessionStatus(h, s, req) \/ UpdateSessionStatusRejected(h, s, req)
           \/ \E useRelay \in BOOLEAN : ReportConnectionResult(h, s, useRelay)
    PROVE  TypeOK'
  <1>1. ASSUME NEW key \in BOOLEAN, CreateSession(h, s, key)
        PROVE  TypeOK'
    <2>1. LeaseTypeOK' /\ lease'[s] \in tunnelIndex
      BY <1>1, GrantFacts DEF CreateSession, TypeOK
    <2>2. newSession(lease'[s]) \in SessionRecord
      BY <2>1 DEF newSession, SessionRecord, SessionStatus
    <2>3. rpc' \in [Handlers -> Call \cup {Absent}] /\ requests' \in 0..MaxRequests
      BY <1>1, <2>2, RpcType DEF CreateSession, Steps
    <2> QED BY <1>1, <2>1, <2>3 DEF CreateSession, TypeOK
  <1>2. CASE CreateSessionExhausted(h, s)
    <2>1. LeaseTypeOK' /\ requests' \in 0..MaxRequests
      BY <1>2, DenyReleaseType, RpcType DEF CreateSessionExhausted, TypeOK
    <2> QED BY <1>2, <2>1 DEF CreateSessionExhausted, TypeOK
  <1>3. CASE TerminateSession(h, s)
    <2> DEFINE rec == [sessions[s] EXCEPT !.Status = "terminated", !.TerminatedAt = TRUE]
    <2>1. sessions[s] \in SessionRecord
      BY <1>3 DEF TerminateSession, stored, TypeOK
    <2>2. rec \in SessionRecord
      BY <2>1 DEF SessionRecord, SessionStatus
    <2>3. Begin(h, "terminate.put", s, rec, FALSE) /\ AssignFields(s, rec)
      BY <1>3 DEF TerminateSession
    <2> HIDE DEF rec
    <2>4. /\ rpc' \in [Handlers -> Call \cup {Absent}] /\ requests' \in 0..MaxRequests
          /\ sessions' \in [Sessions -> SessionRecord \cup {Absent}]
      BY <2>2, <2>3, RpcType, StoreType DEF Steps
    <2> QED BY <1>3, <2>4 DEF TerminateSession, TypeOK, LeaseTypeOK, leaseVars
  <1>4. ASSUME NEW req \in StatusRequest, UpdateSessionStatus(h, s, req)
        PROVE  TypeOK'
    <2> DEFINE rec == updatedSession(sessions[s], req)
               pc  == IF req.Status = "terminated" /\ sessions[s].Status # "terminated"
                      THEN "update.reclaim" ELSE "update.put"
    <2>1. sessions[s] \in SessionRecord
      BY <1>4 DEF UpdateSessionStatus, stored, TypeOK
    <2>2. rec \in SessionRecord
      BY <2>1 DEF SessionRecord, SessionStatus, updatedSession, StatusRequest
    <2>3. Begin(h, pc, s, rec, FALSE) /\ AssignFields(s, rec) /\ pc \in Steps
      BY <1>4 DEF UpdateSessionStatus, Steps
    <2> HIDE DEF rec, pc
    <2>4. /\ rpc' \in [Handlers -> Call \cup {Absent}] /\ requests' \in 0..MaxRequests
          /\ sessions' \in [Sessions -> SessionRecord \cup {Absent}]
      BY <2>2, <2>3, RpcType, StoreType
    <2> QED BY <1>4, <2>4 DEF UpdateSessionStatus, TypeOK, LeaseTypeOK, leaseVars
  <1>5. ASSUME NEW req \in StatusRequest, UpdateSessionStatusRejected(h, s, req)
        PROVE  TypeOK'
    <2>1. sessions[s] \in SessionRecord
      BY <1>5 DEF UpdateSessionStatusRejected, stored, TypeOK
    <2>2. updatedSession(sessions[s], req) \in SessionRecord
      BY <2>1 DEF SessionRecord, SessionStatus, updatedSession, StatusRequest
    <2>3. /\ requests' \in 0..MaxRequests
          /\ sessions' \in [Sessions -> SessionRecord \cup {Absent}]
      BY <1>5, <2>2, RpcType, StoreType DEF UpdateSessionStatusRejected
    <2> QED BY <1>5, <2>3 DEF UpdateSessionStatusRejected, TypeOK, LeaseTypeOK, leaseVars
  <1>6. ASSUME NEW useRelay \in BOOLEAN, ReportConnectionResult(h, s, useRelay)
        PROVE  TypeOK'
    <2> DEFINE rec == [sessions[s] EXCEPT
                            !.ConnectionMode = IF useRelay THEN "relay" ELSE "holepunch"]
               pc  == IF useRelay THEN "report.relay" ELSE "report.put"
    <2>1. sessions[s] \in SessionRecord
      BY <1>6 DEF ReportConnectionResult, stored, TypeOK
    <2>2. rec \in SessionRecord
      BY <2>1 DEF SessionRecord
    <2>3. Begin(h, pc, s, rec, FALSE) /\ AssignFields(s, rec) /\ pc \in Steps
      BY <1>6 DEF ReportConnectionResult, Steps
    <2> HIDE DEF rec, pc
    <2>4. /\ rpc' \in [Handlers -> Call \cup {Absent}] /\ requests' \in 0..MaxRequests
          /\ sessions' \in [Sessions -> SessionRecord \cup {Absent}]
      BY <2>2, <2>3, RpcType, StoreType
    <2> QED BY <1>6, <2>4 DEF ReportConnectionResult, TypeOK, LeaseTypeOK, leaseVars
  <1> QED BY <1>1, <1>2, <1>3, <1>4, <1>5, <1>6

\* The later steps of a call keep TypeOK.
LEMMA ContinueType ==
    ASSUME TypeOK, NEW h \in Handlers, Continue(h)
    PROVE  TypeOK'
  <1>1. CASE \/ CreateSessionPut(h) \/ TerminateSessionPut(h)
             \/ UpdateSessionStatusPut(h) \/ ReportConnectionResultPut(h)
    <2>1. /\ busy(h) /\ PutSession(h)
          /\ Return(h) \/ Goto(h, "create.key") \/ Goto(h, "terminate.relay")
          /\ UNCHANGED <<cand, relay, outcomes, ending, requests, restarts, leaseVars>>
      BY <1>1 DEF CreateSessionPut, TerminateSessionPut, UpdateSessionStatusPut,
                  ReportConnectionResultPut, At
    <2>2. rpc[h].sid \in Sessions /\ rpc[h].rec \in SessionRecord
      BY <2>1, BusyCall
    <2>3. sessions' \in [Sessions -> SessionRecord \cup {Absent}]
      BY <2>1, <2>2, StoreType
    <2>4. rpc' \in [Handlers -> Call \cup {Absent}]
      BY <2>1, RpcType DEF Steps
    <2> QED BY <2>1, <2>3, <2>4 DEF TypeOK, LeaseTypeOK, leaseVars
  <1>2. CASE CreateSessionKey(h)
    <2>1. busy(h) /\ rpc[h].sid \in Sessions
      BY <1>2, BusyCall DEF CreateSessionKey, At
    <2>2. rpc' \in [Handlers -> Call \cup {Absent}]
      BY <1>2, RpcType DEF CreateSessionKey
    <2>3. cand' \in [Sessions -> SUBSET Peers]
      BY <1>2, <2>1, RegistryAssumption DEF CreateSessionKey, TypeOK
    <2> QED BY <1>2, <2>2, <2>3 DEF CreateSessionKey, TypeOK, LeaseTypeOK, leaseVars
  <1>3. CASE TerminateSessionRelay(h)
    <2>1. busy(h) /\ rpc[h].sid \in Sessions
      BY <1>3, BusyCall DEF TerminateSessionRelay, At
    <2>2. rpc' \in [Handlers -> Call \cup {Absent}]
      BY <1>3, <2>1, RpcType DEF TerminateSessionRelay, Steps
    <2> QED BY <1>3, <2>1, <2>2 DEF TerminateSessionRelay, TypeOK, LeaseTypeOK, leaseVars
  <1>4. CASE TerminateSessionCandidates(h)
    <2>1. busy(h) /\ rpc[h].sid \in Sessions
      BY <1>4, BusyCall DEF TerminateSessionCandidates, At
    <2>2. rpc' \in [Handlers -> Call \cup {Absent}]
      BY <1>4, <2>1, RpcType DEF TerminateSessionCandidates, Steps
    <2> QED BY <1>4, <2>1, <2>2 DEF TerminateSessionCandidates, TypeOK, LeaseTypeOK, leaseVars
  <1>5. CASE TerminateSessionReclaim(h)
    <2>1. busy(h) /\ rpc[h].sid \in Sessions
      BY <1>5, BusyCall DEF TerminateSessionReclaim, At
    <2>2. rpc' \in [Handlers -> Call \cup {Absent}] /\ LeaseTypeOK'
      BY <1>5, <2>1, RpcType, DenyReleaseType DEF TerminateSessionReclaim, TypeOK
    <2> QED BY <1>5, <2>2 DEF TerminateSessionReclaim, TypeOK
  <1>6. CASE UpdateSessionStatusReclaim(h)
    <2>1. busy(h) /\ rpc[h].sid \in Sessions
      BY <1>6, BusyCall DEF UpdateSessionStatusReclaim, At
    <2>2. rpc' \in [Handlers -> Call \cup {Absent}] /\ LeaseTypeOK'
      BY <1>6, <2>1, RpcType, DenyReleaseType DEF UpdateSessionStatusReclaim, TypeOK, Steps
    <2> QED BY <1>6, <2>1, <2>2 DEF UpdateSessionStatusReclaim, TypeOK
  <1>7. CASE ReportConnectionResultRelay(h)
    <2>1. busy(h) /\ rpc[h].sid \in Sessions
      BY <1>7, BusyCall DEF ReportConnectionResultRelay, At
    <2>2. rpc' \in [Handlers -> Call \cup {Absent}]
      BY <1>7, <2>1, RpcType DEF ReportConnectionResultRelay, Steps
    <2> QED BY <1>7, <2>1, <2>2 DEF ReportConnectionResultRelay, TypeOK, LeaseTypeOK, leaseVars
  <1> QED BY <1>1, <1>2, <1>3, <1>4, <1>5, <1>6, <1>7 DEF Continue

\* Every step keeps TypeOK.
LEMMA NextType == TypeOK /\ [Next]_vars => TypeOK'
  <1> SUFFICES ASSUME TypeOK, [Next]_vars PROVE TypeOK'
    OBVIOUS
  <1>1. ASSUME NEW h \in Handlers, NEW how \in PutFailures, PutSessionFails(h, how)
        PROVE  TypeOK'
    <2>1. busy(h)
      BY <1>1 DEF PutSessionFails
    <2>2. rpc[h].sid \in Sessions /\ rpc[h].rec \in SessionRecord
      BY <2>1, BusyCall
    <2>3. sessions' \in [Sessions -> SessionRecord \cup {Absent}]
      BY <1>1, <2>1, <2>2, StoreType DEF PutSessionFails, TypeOK
    <2>4. rpc' \in [Handlers -> Call \cup {Absent}]
      BY <1>1, RpcType DEF PutSessionFails
    <2> QED BY <1>1, <2>3, <2>4 DEF PutSessionFails, TypeOK, LeaseTypeOK, leaseVars
  <1>2. ASSUME NEW s \in Sessions, NEW p \in Peers, ExchangeCandidates(s, p)
        PROVE  TypeOK'
    <2>1. requests' \in 0..MaxRequests
      BY <1>2, RegistryAssumption DEF ExchangeCandidates, Request, TypeOK
    <2> QED BY <1>2, <2>1 DEF ExchangeCandidates, TypeOK, LeaseTypeOK, leaseVars
  <1>3. ASSUME NEW s \in Sessions, ReapIdleSession(s)
        PROVE  TypeOK'
    BY <1>3 DEF ReapIdleSession, TypeOK, LeaseTypeOK, leaseVars
  <1>4. CASE Restart
    <2>1. restarts' \in 0..MaxRestarts
      BY <1>4, RegistryAssumption DEF Restart, TypeOK
    <2> QED BY <1>4, <2>1, HintType DEF Restart, TypeOK, LeaseTypeOK
  <1>5. CASE UNCHANGED vars
    BY <1>5 DEF vars, TypeOK, LeaseTypeOK, leaseVars
  <1> QED BY <1>1, <1>2, <1>3, <1>4, <1>5, RequestType, ContinueType DEF Next

\* The store, the calls in progress and the allocator stay well-typed: no call
\* stores a record with a foreign status or without a tunnel index.
THEOREM RegistryTypeCorrect == Spec => []TypeOK
  BY InitType, NextType, PTL DEF Spec
-----------------------------------------------------------------------------
(***************************************************************************)
(* Terminated sessions release their tunnel index.  TerminatedReleased is  *)
(* not inductive: a call that fetched a terminated record can store it     *)
(* later, so the same must hold of the copies in flight.                   *)
(***************************************************************************)
Released(s) == lease[s] = NoSlot \/ Releasing(s)

releasingSteps == {"terminate.put", "terminate.relay", "terminate.candidates",
                   "terminate.reclaim", "update.reclaim"}

CopyReleased(h) ==
    /\ rpc[h].pc = "create.put" => rpc[h].rec.Status = "pending"
    /\ \A s \in Sessions :
        /\ rpc[h].sid = s /\ rpc[h].rec.Status = "terminated"
        /\ rpc[h].pc \in {"update.put", "report.relay", "report.put"}
        => Released(s)

CopiesReleased == \A h \in Handlers : busy(h) => CopyReleased(h)

ReleaseInv == TypeOK /\ TerminatedReleased /\ CopiesReleased

\* A step of h leaves the releases that other calls are about to make alone.
LEMMA OthersRelease ==
    ASSUME NEW h \in Handlers, NEW s \in Sessions,
           \A g \in Handlers \ {h} : rpc'[g] = rpc[g],
           busy(h) /\ rpc[h].sid = s => rpc[h].pc \notin releasingSteps
    PROVE  Releasing(s) => Releasing(s)'
  BY DEF Releasing, Working, busy, releasingSteps

\* Effects of Begin, Goto and Return on the calls in progress.
LEMMA RpcEffect ==
    ASSUME TypeOK, NEW h \in Handlers
    PROVE  /\ \A pc, s, rec, key :
                Begin(h, pc, s, rec, key) =>
                    /\ ~busy(h)
                    /\ rpc'[h] = [pc |-> pc, sid |-> s, rec |-> rec, key |-> key]
                    /\ \A g \in Handlers \ {h} : rpc'[g] = rpc[g]
           /\ \A pc \in Steps : busy(h) /\ Goto(h, pc) =>
                    /\ busy(h)' /\ rpc'[h].pc = pc
                    /\ rpc'[h].sid = rpc[h].sid /\ rpc'[h].rec = rpc[h].rec
                    /\ \A g \in Handlers \ {h} : rpc'[g] = rpc[g]
           /\ Return(h) => /\ ~busy(h)'
                           /\ \A g \in Handlers \ {h} : rpc'[g] = rpc[g]
  <1>1. ASSUME NEW pc \in Steps, busy(h), Goto(h, pc)
        PROVE  /\ busy(h)' /\ rpc'[h].pc = pc
               /\ rpc'[h].sid = rpc[h].sid /\ rpc'[h].rec = rpc[h].rec
               /\ \A g \in Handlers \ {h} : rpc'[g] = rpc[g]
    <2>1. rpc[h] \in Call
      BY <1>1, BusyCall
    <2>2. /\ [rpc[h] EXCEPT !.pc = pc] \in Call
          /\ [rpc[h] EXCEPT !.pc = pc].pc = pc
          /\ [rpc[h] EXCEPT !.pc = pc].sid = rpc[h].sid
          /\ [rpc[h] EXCEPT !.pc = pc].rec = rpc[h].rec
      BY <2>1 DEF Call
    <2>3. /\ rpc'[h] = [rpc[h] EXCEPT !.pc = pc]
          /\ \A g \in Handlers \ {h} : rpc'[g] = rpc[g]
      BY <1>1 DEF Goto, TypeOK
    <2>4. Absent \notin Call
      BY RegistryAssumption
    <2> QED BY <2>2, <2>3, <2>4 DEF busy
  <1>2. ASSUME NEW pc, NEW s, NEW rec, NEW key, Begin(h, pc, s, rec, key)
        PROVE  /\ ~busy(h)
               /\ rpc'[h] = [pc |-> pc, sid |-> s, rec |-> rec, key |-> key]
               /\ \A g \in Handlers \ {h} : rpc'[g] = rpc[g]
    BY <1>2 DEF Begin, TypeOK
  <1>3. Return(h) => /\ ~busy(h)'
                     /\ \A g \in Handlers \ {h} : rpc'[g] = rpc[g]
    BY DEF Return, TypeOK, busy
  <1> QED BY <1>1, <1>2, <1>3

\* Releases are not undone: the allocator grants only to session IDs that no
\* call and no record uses, and a call that is about to release goes on to.
LEMMA ReleasedStable ==
    ASSUME TypeOK, Next, NEW s \in Sessions, Released(s),
           stored(s) \/ \E g \in Handlers : busy(g) /\ rpc[g].sid = s
    PROVE  Released(s)'
  <1>1. ASSUME NEW h \in Handlers, NEW x \in Sessions, NEW key \in BOOLEAN,
               CreateSession(h, x, key)
        PROVE  Released(s)'
    <2>1. x # s
      BY <1>1 DEF CreateSession, newSessionID
    <2>2. lease'[s] = lease[s]
      BY <1>1, <2>1, GrantFacts DEF CreateSession, TypeOK, LeaseTypeOK
    <2>3. ~busy(h) /\ \A g \in Handlers \ {h} : rpc'[g] = rpc[g]
      BY <1>1, RpcEffect DEF CreateSession
    <2> QED BY <2>2, <2>3, OthersRelease DEF Released
  <1>2. ASSUME NEW h \in Handlers, NEW x \in Sessions,
               CreateSessionExhausted(h, x)
        PROVE  Released(s)'
    BY <1>2 DEF CreateSessionExhausted, Deny, Released, Releasing, Working, busy
  <1>3. ASSUME NEW h \in Handlers, NEW x \in Sessions,
               \/ TerminateSession(h, x)
               \/ \E req \in StatusRequest : UpdateSessionStatus(h, x, req)
               \/ \E useRelay \in BOOLEAN : ReportConnectionResult(h, x, useRelay)
        PROVE  Released(s)'
    <2>1. /\ UNCHANGED leaseVars
          /\ \E pc, rec : Begin(h, pc, x, rec, FALSE)
      BY <1>3 DEF TerminateSession, UpdateSessionStatus, ReportConnectionResult
    <2>2. ~busy(h) /\ \A g \in Handlers \ {h} : rpc'[g] = rpc[g]
      BY <2>1, RpcEffect
    <2> QED BY <2>1, <2>2, OthersRelease DEF Released, leaseVars
  <1>4. ASSUME UNCHANGED <<rpc, lease>>
        PROVE  Released(s)'
    BY <1>4 DEF Released, Releasing, Working, busy
  <1>5. ASSUME NEW h \in Handlers, Continue(h)
        PROVE  Released(s)'
    <2>1. /\ busy(h) /\ rpc[h].sid \in Sessions
      BY <1>5, BusyCall DEF Continue, At, CreateSessionPut, CreateSessionKey,
            TerminateSessionPut, TerminateSessionRelay, TerminateSessionCandidates,
            TerminateSessionReclaim, UpdateSessionStatusReclaim, UpdateSessionStatusPut,
            ReportConnectionResultRelay, ReportConnectionResultPut
    <2>2. CASE \/ CreateSessionPut(h) \/ CreateSessionKey(h)
               \/ UpdateSessionStatusPut(h)
               \/ ReportConnectionResultRelay(h) \/ ReportConnectionResultPut(h)
      <3>1. /\ UNCHANGED leaseVars
            /\ rpc[h].pc \notin releasingSteps
            /\ Return(h) \/ Goto(h, "create.key") \/ Goto(h, "report.put")
        BY <2>2 DEF CreateSessionPut, CreateSessionKey, UpdateSessionStatusPut,
                    ReportConnectionResultRelay, ReportConnectionResultPut, At,
                    releasingSteps
      <3>2. \A g \in Handlers \ {h} : rpc'[g] = rpc[g]
        BY <2>1, <3>1, RpcEffect DEF Steps
      <3> QED BY <3>1, <3>2, OthersRelease DEF Released, leaseVars
    <2>3. CASE \/ TerminateSessionPut(h) \/ TerminateSessionRelay(h)
               \/ TerminateSessionCandidates(h)
      <3>1. /\ UNCHANGED leaseVars
            /\ \/ Goto(h, "terminate.relay") \/ Goto(h, "terminate.candidates")
               \/ Goto(h, "terminate.reclaim")
        BY <2>3 DEF TerminateSessionPut, TerminateSessionRelay, TerminateSessionCandidates
      <3>2. /\ busy(h)' /\ rpc'[h].sid = rpc[h].sid
            /\ rpc'[h].pc \in {"terminate.relay", "terminate.candidates", "terminate.reclaim"}
            /\ \A g \in Handlers \ {h} : rpc'[g] = rpc[g]
        BY <2>1, <3>1, RpcEffect DEF Steps
      <3>3. CASE rpc[h].sid = s
        BY <3>2, <3>3 DEF Released, Releasing, Working
      <3>4. CASE rpc[h].sid # s
        BY <3>1, <3>2, <3>4, OthersRelease DEF Released, leaseVars
      <3> QED BY <3>3, <3>4
    <2>4. CASE TerminateSessionReclaim(h) \/ UpdateSessionStatusReclaim(h)
      <3>1. /\ lease' = [lease EXCEPT ![rpc[h].sid] = NoSlot]
            /\ Return(h) \/ Goto(h, "update.put")
        BY <2>4 DEF TerminateSessionReclaim, UpdateSessionStatusReclaim, Release
      <3>2. \A g \in Handlers \ {h} : rpc'[g] = rpc[g]
        BY <2>1, <3>1, RpcEffect DEF Steps
      <3>3. CASE rpc[h].sid = s
        BY <3>1, <3>3 DEF Released, TypeOK, LeaseTypeOK
      <3>4. CASE rpc[h].sid # s
        BY <3>1, <3>2, <3>4, OthersRelease DEF Released, TypeOK, LeaseTypeOK
      <3> QED BY <3>3, <3>4
    <2> QED BY <1>5, <2>2, <2>3, <2>4 DEF Continue
  <1>6. ASSUME NEW h \in Handlers, NEW how \in PutFailures, PutSessionFails(h, how)
        PROVE  Released(s)'
    <2>1. ~SharedRecords
      BY RegistryAssumption
    <2>2. /\ rpc[h].pc \in putSteps /\ UNCHANGED leaseVars
          /\ \A g \in Handlers \ {h} : rpc'[g] = rpc[g]
      BY <1>6, RpcEffect DEF PutSessionFails
    <2> QED BY <2>1, <2>2 DEF Released, Releasing, Working, busy, putSteps, leaseVars
  <1>7. CASE Restart
    BY <1>7 DEF Restart, Released
  <1>8. ASSUME NEW h \in Handlers, NEW x \in Sessions, NEW req \in StatusRequest,
               UpdateSessionStatusRejected(h, x, req)
        PROVE  Released(s)'
    BY <1>4, <1>8 DEF UpdateSessionStatusRejected, leaseVars
  <1>9. ASSUME NEW x \in Sessions,
               ReapIdleSession(x) \/ \E p \in Peers : ExchangeCandidates(x, p)
        PROVE  Released(s)'
    BY <1>4, <1>9 DEF ReapIdleSession, ExchangeCandidates, leaseVars
  <1> QED BY <1>1, <1>2, <1>3, <1>5, <1>6, <1>7, <1>8, <1>9 DEF Next

\* A step that stores at most one record keeps TerminatedReleased, provided a
\* terminated record is stored only where the index is released.
LEMMA StoreKeeps ==
    ASSUME ReleaseInv, Next, NEW x \in Sessions, NEW rec,
           \/ sessions' = sessions
           \/ /\ sessions' = [sessions EXCEPT ![x] = rec]
              /\ rec.Status = "terminated" => Released(x)'
    PROVE  TerminatedReleased'
  <1>1. \A s \in Sessions : stored(s) /\ sessions[s].Status = "terminated" => Released(s)'
    BY ReleasedStable DEF ReleaseInv, TerminatedReleased, Released
  <1>2. CASE sessions' = sessions
    BY <1>1, <1>2 DEF TerminatedReleased, Released, stored
  <1>3. CASE /\ sessions' = [sessions EXCEPT ![x] = rec]
             /\ rec.Status = "terminated" => Released(x)'
    BY <1>1, <1>3 DEF TerminatedReleased, Released, stored, ReleaseInv, TypeOK
  <1> QED BY <1>2, <1>3

\* A step of h keeps CopiesReleased, provided h's own copy satisfies it.
LEMMA CopiesKeep ==
    ASSUME ReleaseInv, Next, NEW h \in Handlers,
           \A g \in Handlers \ {h} : rpc'[g] = rpc[g],
           busy(h)' => CopyReleased(h)'
    PROVE  CopiesReleased'
  <1>1. ASSUME NEW g \in Handlers, busy(g)', g # h
        PROVE  CopyReleased(g)'
    <2>1. rpc'[g] = rpc[g] /\ busy(g)
      BY <1>1 DEF busy
    <2>2. \A s \in Sessions : rpc[g].sid = s /\ Released(s) => Released(s)'
      BY <2>1, ReleasedStable DEF ReleaseInv
    <2> QED BY <2>1, <2>2 DEF ReleaseInv, CopiesReleased, CopyReleased
  <1> QED BY <1>1 DEF CopiesReleased

\* The new calls keep the invariant.
LEMMA RequestReleases ==
    ASSUME ReleaseInv, Next, NEW h \in Handlers, NEW s \in Sessions,
           \/ \E key \in BOOLEAN : CreateSession(h, s, key)
           \/ CreateSessionExhausted(h, s)
           \/ TerminateSession(h, s)
           \/ \E req \in StatusRequest :
                UpdateSessionStatus(h, s, req) \/ UpdateSessionStatusRejected(h, s, req)
           \/ \E useRelay \in BOOLEAN : ReportConnectionResult(h, s, useRelay)
    PROVE  TerminatedReleased' /\ CopiesReleased'
  <1>a. TypeOK
    BY DEF ReleaseInv
  <1>b. stored(s) /\ sessions[s].Status = "terminated" => Released(s)'
    BY ReleasedStable DEF ReleaseInv, TerminatedReleased, Released
  <1>1. ASSUME NEW key \in BOOLEAN, CreateSession(h, s, key)
        PROVE  TerminatedReleased' /\ CopiesReleased'
    <2>1. /\ sessions' = sessions
          /\ Begin(h, "create.put", s, newSession(lease'[s]), key)
      BY <1>1 DEF CreateSession
    <2>2. /\ rpc'[h] = [pc |-> "create.put", sid |-> s, rec |-> newSession(lease'[s]), key |-> key]
          /\ \A g \in Handlers \ {h} : rpc'[g] = rpc[g]
      BY <1>a, <2>1 DEF Begin, TypeOK
    <2>3. newSession(lease'[s]).Status = "pending"
      BY DEF newSession
    <2>4. CopyReleased(h)'
      BY <2>2, <2>3 DEF CopyReleased
    <2> QED BY <2>1, <2>2, <2>4, StoreKeeps, CopiesKeep
  <1>2. CASE CreateSessionExhausted(h, s)
    <2>1. sessions' = sessions /\ rpc' = rpc
      BY <1>2 DEF CreateSessionExhausted
    <2>2. busy(h)' => CopyReleased(h)'
      <3>1. busy(h) => CopyReleased(h)
        BY DEF ReleaseInv, CopiesReleased
      <3>2. \A t \in Sessions : busy(h) /\ rpc[h].sid = t /\ Released(t) => Released(t)'
        BY ReleasedStable DEF ReleaseInv
      <3> QED BY <2>1, <3>1, <3>2 DEF busy, CopyReleased
    <2> QED BY <2>1, <2>2, StoreKeeps, CopiesKeep
  <1>3. CASE TerminateSession(h, s)
    <2> DEFINE rec == [sessions[s] EXCEPT !.Status = "terminated", !.TerminatedAt = TRUE]
    <2>1. Begin(h, "terminate.put", s, rec, FALSE) /\ AssignFields(s, rec)
      BY <1>3 DEF TerminateSession
    <2> HIDE DEF rec
    <2>2. /\ rpc'[h] = [pc |-> "terminate.put", sid |-> s, rec |-> rec, key |-> FALSE]
          /\ \A g \in Handlers \ {h} : rpc'[g] = rpc[g]
      BY <1>a, <2>1 DEF Begin, TypeOK
    <2>3. busy(h)'
      <3>1. sessions[s] \in SessionRecord
        BY <1>3, <1>a DEF TerminateSession, stored, TypeOK
      <3>2. rec \in SessionRecord
        BY <3>1 DEF rec, SessionRecord, SessionStatus
      <3>3. rpc'[h] \in Call
        BY <2>2, <3>2 DEF Call, Steps
      <3> QED BY <3>3, RegistryAssumption DEF busy
    <2>4. CopyReleased(h)'
      BY <2>2 DEF CopyReleased
    <2>5. SharedRecords => Released(s)'
      BY <2>2, <2>3 DEF Released, Releasing, Working
    <2>6. TerminatedReleased'
      BY <2>1, <2>5, StoreKeeps DEF AssignFields
    <2> QED BY <2>2, <2>4, <2>6, CopiesKeep
  <1>4. ASSUME NEW req \in StatusRequest, UpdateSessionStatus(h, s, req)
        PROVE  TerminatedReleased' /\ CopiesReleased'
    <2> DEFINE rec == updatedSession(sessions[s], req)
               first == req.Status = "terminated" /\ sessions[s].Status # "terminated"
               pc  == IF first THEN "update.reclaim" ELSE "update.put"
    <2>1. Begin(h, pc, s, rec, FALSE) /\ AssignFields(s, rec) /\ stored(s)
      BY <1>4 DEF UpdateSessionStatus
    <2>2. sessions[s] \in SessionRecord
      BY <2>1, <1>a DEF stored, TypeOK
    <2>3. rec \in SessionRecord /\ rec.Status = req.Status
      BY <2>2 DEF SessionRecord, SessionStatus, updatedSession, StatusRequest
    <2> HIDE DEF rec
    <2>4. /\ rpc'[h] = [pc |-> pc, sid |-> s, rec |-> rec, key |-> FALSE]
          /\ \A g \in Handlers \ {h} : rpc'[g] = rpc[g]
      BY <1>a, <2>1 DEF Begin, TypeOK
    <2>5. busy(h)'
      <3>1. rpc'[h] \in Call
        BY <2>3, <2>4 DEF Call, Steps
      <3> QED BY <3>1, RegistryAssumption DEF busy
    <2>6. rec.Status = "terminated" /\ ~first => Released(s)'
      BY <1>b, <2>1, <2>3
    <2>7. SharedRecords /\ first => Released(s)'
      BY <2>4, <2>5 DEF Released, Releasing, Working
    <2>8. CopyReleased(h)'
      BY <2>4, <2>6 DEF CopyReleased
    <2>9. TerminatedReleased'
      BY <2>1, <2>6, <2>7, StoreKeeps DEF AssignFields
    <2> QED BY <2>4, <2>8, <2>9, CopiesKeep
  <1>5. ASSUME NEW req \in StatusRequest, UpdateSessionStatusRejected(h, s, req)
        PROVE  TerminatedReleased' /\ CopiesReleased'
    <2>1. /\ stored(s) /\ rpc' = rpc /\ req.Status = "running"
          /\ AssignFields(s, updatedSession(sessions[s], req))
      BY <1>5 DEF UpdateSessionStatusRejected, rejectedUpdate
    <2>2. sessions[s] \in SessionRecord
      BY <2>1, <1>a DEF stored, TypeOK
    <2>3. updatedSession(sessions[s], req).Status = "running"
      BY <2>1, <2>2 DEF SessionRecord, updatedSession
    <2>4. TerminatedReleased'
      BY <2>1, <2>3, StoreKeeps DEF AssignFields
    <2>5. busy(h)' => CopyReleased(h)'
      <3>1. busy(h) => CopyReleased(h)
        BY DEF ReleaseInv, CopiesReleased
      <3>2. \A t \in Sessions : busy(h) /\ rpc[h].sid = t /\ Released(t) => Released(t)'
        BY ReleasedStable DEF ReleaseInv
      <3> QED BY <2>1, <3>1, <3>2 DEF busy, CopyReleased
    <2> QED BY <2>1, <2>4, <2>5, CopiesKeep
  <1>6. ASSUME NEW useRelay \in BOOLEAN, ReportConnectionResult(h, s, useRelay)
        PROVE  TerminatedReleased' /\ CopiesReleased'
    <2> DEFINE rec == [sessions[s] EXCEPT
                            !.ConnectionMode = IF useRelay THEN "relay" ELSE "holepunch"]
               pc  == IF useRelay THEN "report.relay" ELSE "report.put"
    <2>1. Begin(h, pc, s, rec, FALSE) /\ AssignFields(s, rec) /\ stored(s)
      BY <1>6 DEF ReportConnectionResult
    <2>2. sessions[s] \in SessionRecord
      BY <2>1, <1>a DEF stored, TypeOK
    <2>3. rec.Status = sessions[s].Status
      BY <2>2 DEF SessionRecord
    <2> HIDE DEF rec, pc
    <2>4. /\ rpc'[h] = [pc |-> pc, sid |-> s, rec |-> rec, key |-> FALSE]
          /\ \A g \in Handlers \ {h} : rpc'[g] = rpc[g]
      BY <1>a, <2>1 DEF Begin, TypeOK
    <2>5. rec.Status = "terminated" => Released(s)'
      BY <1>b, <2>1, <2>3
    <2>6. pc # "create.put"
      BY DEF pc
    <2>7. CopyReleased(h)'
      BY <2>4, <2>5, <2>6 DEF CopyReleased
    <2>8. TerminatedReleased'
      BY <2>1, <2>5, StoreKeeps DEF AssignFields
    <2> QED BY <2>4, <2>7, <2>8, CopiesKeep
  <1> QED BY <1>1, <1>2, <1>3, <1>4, <1>5, <1>6

\* The later steps of a call keep the invariant.
LEMMA ContinueReleases ==
    ASSUME ReleaseInv, Next, NEW h \in Handlers, Continue(h)
    PROVE  TerminatedReleased' /\ CopiesReleased'
  <1>a. TypeOK
    BY DEF ReleaseInv
  <1>b. /\ busy(h) /\ rpc[h].sid \in Sessions
    BY <1>a, BusyCall DEF Continue, At, CreateSessionPut, CreateSessionKey,
            TerminateSessionPut, TerminateSessionRelay, TerminateSessionCandidates,
            TerminateSessionReclaim, UpdateSessionStatusReclaim, UpdateSessionStatusPut,
            ReportConnectionResultRelay, ReportConnectionResultPut
  <1> DEFINE s == rpc[h].sid
             rec == rpc[h].rec
  <1>c. CopyReleased(h)
    BY <1>b DEF ReleaseInv, CopiesReleased
  <1>d. /\ rpc[h].pc \in {"update.put", "report.relay", "report.put"}
        /\ rec.Status = "terminated"
        => \A t \in Sessions : t = s => Released(t)'
    BY <1>a, <1>b, <1>c, ReleasedStable DEF CopyReleased
  <1>1. CASE CreateSessionPut(h)
    <2>1. /\ sessions' = [sessions EXCEPT ![s] = rec] /\ rec.Status = "pending"
          /\ Return(h) \/ Goto(h, "create.key")
      BY <1>1, <1>c DEF CreateSessionPut, PutSession, At, CopyReleased
    <2>2. /\ \A g \in Handlers \ {h} : rpc'[g] = rpc[g]
          /\ busy(h)' => rpc'[h].pc = "create.key"
      BY <1>a, <1>b, <2>1, RpcEffect DEF Steps
    <2>3. busy(h)' => CopyReleased(h)'
      BY <2>2 DEF CopyReleased
    <2> QED BY <1>b, <2>1, <2>2, <2>3, StoreKeeps, CopiesKeep
  <1>2. CASE CreateSessionKey(h) \/ TerminateSessionReclaim(h)
    <2>1. sessions' = sessions /\ Return(h)
      BY <1>2 DEF CreateSessionKey, TerminateSessionReclaim
    <2>2. ~busy(h)' /\ \A g \in Handlers \ {h} : rpc'[g] = rpc[g]
      BY <1>a, <2>1, RpcEffect
    <2> QED BY <1>b, <2>1, <2>2, StoreKeeps, CopiesKeep
  <1>3. CASE TerminateSessionPut(h)
    <2>1. sessions' = [sessions EXCEPT ![s] = rec] /\ Goto(h, "terminate.relay")
      BY <1>3 DEF TerminateSessionPut, PutSession
    <2>2. /\ busy(h)' /\ rpc'[h].pc = "terminate.relay" /\ rpc'[h].sid = rpc[h].sid
          /\ \A g \in Handlers \ {h} : rpc'[g] = rpc[g]
      BY <1>a, <1>b, <2>1, RpcEffect DEF Steps
    <2>3. CopyReleased(h)'
      BY <2>2 DEF CopyReleased
    <2>4. \A t \in Sessions : t = s => Released(t)'
      BY <2>2 DEF Released, Releasing, Working
    <2>5. TerminatedReleased'
      <3>1. PICK t \in Sessions : t = s
        BY <1>b
      <3> QED BY <2>1, <2>4, <3>1, StoreKeeps
    <2> QED BY <2>2, <2>3, <2>5, CopiesKeep
  <1>4. CASE TerminateSessionRelay(h) \/ TerminateSessionCandidates(h)
    <2>1. /\ sessions' = sessions
          /\ Goto(h, "terminate.candidates") \/ Goto(h, "terminate.reclaim")
      BY <1>4 DEF TerminateSessionRelay, TerminateSessionCandidates
    <2>2. /\ rpc'[h].pc \in {"terminate.candidates", "terminate.reclaim"}
          /\ \A g \in Handlers \ {h} : rpc'[g] = rpc[g]
      BY <1>a, <1>b, <2>1, RpcEffect DEF Steps
    <2>3. CopyReleased(h)'
      BY <2>2 DEF CopyReleased
    <2> QED BY <1>b, <2>1, <2>2, <2>3, StoreKeeps, CopiesKeep
  <1>5. CASE UpdateSessionStatusReclaim(h)
    <2>1. /\ sessions' = sessions /\ Goto(h, "update.put")
          /\ lease' = [lease EXCEPT ![s] = NoSlot]
      BY <1>5 DEF UpdateSessionStatusReclaim, Release
    <2>2. /\ rpc'[h].pc = "update.put" /\ rpc'[h].sid = rpc[h].sid
          /\ \A g \in Handlers \ {h} : rpc'[g] = rpc[g]
      BY <1>a, <1>b, <2>1, RpcEffect DEF Steps
    <2>3. lease'[s] = NoSlot
      BY <1>a, <1>b, <2>1 DEF TypeOK, LeaseTypeOK
    <2>4. CopyReleased(h)'
      BY <2>2, <2>3 DEF CopyReleased, Released
    <2> QED BY <1>b, <2>1, <2>2, <2>4, StoreKeeps, CopiesKeep
  <1>6. CASE UpdateSessionStatusPut(h) \/ ReportConnectionResultPut(h)
    <2>1. /\ sessions' = [sessions EXCEPT ![s] = rec] /\ Return(h)
          /\ rpc[h].pc \in {"update.put", "report.put"}
      BY <1>6 DEF UpdateSessionStatusPut, ReportConnectionResultPut, PutSession, At
    <2>2. ~busy(h)' /\ \A g \in Handlers \ {h} : rpc'[g] = rpc[g]
      BY <1>a, <2>1, RpcEffect
    <2>3. TerminatedReleased'
      <3>1. PICK t \in Sessions : t = s
        BY <1>b
      <3> QED BY <1>d, <2>1, <3>1, StoreKeeps
    <2> QED BY <2>2, <2>3, CopiesKeep
  <1>7. CASE ReportConnectionResultRelay(h)
    <2>1. sessions' = sessions /\ Goto(h, "report.put") /\ rpc[h].pc = "report.relay"
      BY <1>7 DEF ReportConnectionResultRelay, At
    <2>2. /\ rpc'[h].pc = "report.put" /\ rpc'[h].sid = rpc[h].sid
          /\ rpc'[h].rec = rpc[h].rec
          /\ \A g \in Handlers \ {h} : rpc'[g] = rpc[g]
      BY <1>a, <1>b, <2>1, RpcEffect DEF Steps
    <2>3. CopyReleased(h)'
      BY <1>d, <2>1, <2>2 DEF CopyReleased
    <2> QED BY <1>b, <2>1, <2>2, <2>3, StoreKeeps, CopiesKeep
  <1> QED BY <1>1, <1>2, <1>3, <1>4, <1>5, <1>6, <1>7 DEF Continue

\* The registry starts with the invariant.
LEMMA InitReleases == Init => ReleaseInv
  BY InitType DEF Init, ReleaseInv, TerminatedReleased, CopiesReleased, stored, busy

\* Every step keeps it, as long as a failed PutSession has no effect.
LEMMA NextReleases ==
    ASSUME "applied" \notin PutFailures
    PROVE  ReleaseInv /\ [Next]_vars => ReleaseInv'
  <1> SUFFICES ASSUME ReleaseInv, [Next]_vars
               PROVE  TerminatedReleased' /\ CopiesReleased'
    BY NextType DEF ReleaseInv
  <1>a. TypeOK
    BY DEF ReleaseInv
  <1>1. ASSUME Next, NEW h \in Handlers, NEW how \in PutFailures, PutSessionFails(h, how)
        PROVE  TerminatedReleased' /\ CopiesReleased'
    <2>1. sessions' = sessions /\ Return(h) /\ busy(h)
      BY <1>1 DEF PutSessionFails
    <2>2. ~busy(h)' /\ \A g \in Handlers \ {h} : rpc'[g] = rpc[g]
      BY <1>a, <2>1, RpcEffect
    <2>3. rpc[h].sid \in Sessions
      BY <1>a, <2>1, BusyCall
    <2> QED BY <1>1, <2>1, <2>2, <2>3, StoreKeeps, CopiesKeep
  <1>2. ASSUME UNCHANGED <<sessions, rpc, lease>>
        PROVE  TerminatedReleased' /\ CopiesReleased'
    BY <1>2 DEF ReleaseInv, TerminatedReleased, CopiesReleased, CopyReleased, Released,
                Releasing, Working, stored, busy
  <1>3. ASSUME NEW s \in Sessions,
               ReapIdleSession(s) \/ \E p \in Peers : ExchangeCandidates(s, p)
        PROVE  TerminatedReleased' /\ CopiesReleased'
    BY <1>2, <1>3 DEF ReapIdleSession, ExchangeCandidates, leaseVars
  <1>4. CASE Restart
    BY <1>4 DEF Restart, TerminatedReleased, CopiesReleased, busy
  <1>5. CASE UNCHANGED vars
    BY <1>2, <1>5 DEF vars, leaseVars
  <1> QED BY <1>1, <1>3, <1>4, <1>5, RequestReleases, ContinueReleases DEF Next

\* A session the store calls terminated has given its tunnel index back, or the
\* call that terminated it is about to: for any number of overlapping calls,
\* lost PutSession statements and restarts.  (A statement that takes effect and
\* is reported as failed is excluded: TerminateSession then returns before it
\* reclaims.)
THEOREM RegistryReleases ==
    ASSUME "applied" \notin PutFailures
    PROVE  Spec => []TerminatedReleased
  <1>1. ReleaseInv => TerminatedReleased
    BY DEF ReleaseInv
  <1>2. ReleaseInv /\ [Next]_vars => ReleaseInv'
    BY NextReleases
  <1> QED BY <1>1, <1>2, InitReleases, PTL DEF Spec
-----------------------------------------------------------------------------
(***************************************************************************)
(* Progress of calls.  EndReleases needs fairness, which is out of the     *)
(* prover's reach; what fairness is applied to is proved here: a call only *)
(* moves on, in at most four steps, and a session that is to end has a     *)
(* call that will release its index.                                       *)
(***************************************************************************)
\* How many steps a call at pc can still take.
stepsLeft(pc) ==
    CASE pc = "terminate.put" -> 4
      [] pc = "terminate.relay" -> 3
      [] pc \in {"create.put", "terminate.candidates", "update.reclaim", "report.relay"} -> 2
      [] OTHER -> 1

\* A call in progress that has its turn returns or comes closer to its end, for the
\* session it began with; until then the steps of others leave it as it is, or end
\* it with the process.
CallsAdvance ==
    [][\A h \in Handlers : busy(h) =>
        \/ ~Continue(h) /\ rpc'[h] = rpc[h]
        \/ ~busy(h)'
        \/ /\ stepsLeft(rpc'[h].pc) < stepsLeft(rpc[h].pc)
           /\ rpc'[h].sid = rpc[h].sid]_vars

\* What a handler's later steps do to its call.
LEMMA ContinueEffect ==
    ASSUME TypeOK, NEW h \in Handlers, Continue(h)
    PROVE  /\ busy(h)
           /\ \A g \in Handlers \ {h} : rpc'[g] = rpc[g]
           /\ busy(h)' => /\ rpc'[h].sid = rpc[h].sid
                          /\ <<rpc[h].pc, rpc'[h].pc>> \in
                                {<<"create.put", "create.key">>,
                                 <<"terminate.put", "terminate.relay">>,
                                 <<"terminate.relay", "terminate.candidates">>,
                                 <<"terminate.candidates", "terminate.reclaim">>,
                                 <<"update.reclaim", "update.put">>,
                                 <<"report.relay", "report.put">>}
           /\ ~busy(h)' => rpc[h].pc \in
                {"create.put", "create.key", "terminate.reclaim", "update.put", "report.put"}
  <1>1. ASSUME NEW pc \in Steps, busy(h), Goto(h, pc)
        PROVE  /\ \A g \in Handlers \ {h} : rpc'[g] = rpc[g]
               /\ busy(h)' /\ rpc'[h].sid = rpc[h].sid /\ rpc'[h].pc = pc
    BY <1>1, RpcEffect
  <1>2. Return(h) => ~busy(h)' /\ \A g \in Handlers \ {h} : rpc'[g] = rpc[g]
    BY RpcEffect
  <1>3. CASE CreateSessionPut(h)
    <2>1. busy(h) /\ rpc[h].pc = "create.put" /\ (Goto(h, "create.key") \/ Return(h))
      BY <1>3 DEF CreateSessionPut, At
    <2> QED BY <1>1, <1>2, <2>1 DEF Steps
  <1>4. CASE TerminateSessionPut(h)
    <2>1. busy(h) /\ rpc[h].pc = "terminate.put" /\ Goto(h, "terminate.relay")
      BY <1>4 DEF TerminateSessionPut, At
    <2> QED BY <1>1, <2>1 DEF Steps
  <1>5. CASE TerminateSessionRelay(h)
    <2>1. busy(h) /\ rpc[h].pc = "terminate.relay" /\ Goto(h, "terminate.candidates")
      BY <1>5 DEF TerminateSessionRelay, At
    <2> QED BY <1>1, <2>1 DEF Steps
  <1>6. CASE TerminateSessionCandidates(h)
    <2>1. busy(h) /\ rpc[h].pc = "terminate.candidates" /\ Goto(h, "terminate.reclaim")
      BY <1>6 DEF TerminateSessionCandidates, At
    <2> QED BY <1>1, <2>1 DEF Steps
  <1>7. CASE UpdateSessionStatusReclaim(h)
    <2>1. busy(h) /\ rpc[h].pc = "update.reclaim" /\ Goto(h, "update.put")
      BY <1>7 DEF UpdateSessionStatusReclaim, At
    <2> QED BY <1>1, <2>1 DEF Steps
  <1>8. CASE ReportConnectionResultRelay(h)
    <2>1. busy(h) /\ rpc[h].pc = "report.relay" /\ Goto(h, "report.put")
      BY <1>8 DEF ReportConnectionResultRelay, At
    <2> QED BY <1>1, <2>1 DEF Steps
  <1>9. CASE \/ CreateSessionKey(h) \/ TerminateSessionReclaim(h)
             \/ UpdateSessionStatusPut(h) \/ ReportConnectionResultPut(h)
    <2>1. /\ busy(h) /\ Return(h)
          /\ rpc[h].pc \in {"create.key", "terminate.reclaim", "update.put", "report.put"}
      BY <1>9 DEF CreateSessionKey, TerminateSessionReclaim, UpdateSessionStatusPut,
                  ReportConnectionResultPut, At
    <2> QED BY <1>2, <2>1
  <1> QED BY <1>3, <1>4, <1>5, <1>6, <1>7, <1>8, <1>9 DEF Continue

\* What a new call does: one idle handler takes it up.
LEMMA RequestEffect ==
    ASSUME TypeOK, NEW h \in Handlers, NEW s \in Sessions,
           \/ \E key \in BOOLEAN : CreateSession(h, s, key)
           \/ TerminateSession(h, s)
           \/ \E req \in StatusRequest : UpdateSessionStatus(h, s, req)
           \/ \E useRelay \in BOOLEAN : ReportConnectionResult(h, s, useRelay)
    PROVE  /\ ~busy(h) /\ busy(h)' /\ rpc'[h].sid = s
           /\ \A g \in Handlers \ {h} : rpc'[g] = rpc[g]
           /\ \A g \in Handlers : busy(g) => busy(g)' /\ rpc'[g] = rpc[g]
  <1> DEFINE Effect == /\ ~busy(h) /\ busy(h)' /\ rpc'[h].sid = s
                       /\ \A g \in Handlers \ {h} : rpc'[g] = rpc[g]
  <1>1. ASSUME NEW pc \in Steps, NEW rec \in SessionRecord, NEW key \in BOOLEAN,
               Begin(h, pc, s, rec, key)
        PROVE  Effect
    <2> DEFINE call == [pc |-> pc, sid |-> s, rec |-> rec, key |-> key]
    <2>1. call \in Call /\ call.sid = s
      BY DEF Call
    <2>2. /\ ~busy(h) /\ rpc'[h] = call
          /\ \A g \in Handlers \ {h} : rpc'[g] = rpc[g]
      BY <1>1 DEF Begin, TypeOK
    <2> HIDE DEF call
    <2> QED BY <2>1, <2>2, RegistryAssumption DEF busy
  <1>2. ASSUME NEW key \in BOOLEAN, CreateSession(h, s, key)
        PROVE  Effect
    <2>1. Begin(h, "create.put", s, newSession(lease'[s]), key)
      BY <1>2 DEF CreateSession
    <2>2. lease'[s] \in tunnelIndex
      BY <1>2, GrantFacts DEF CreateSession, TypeOK
    <2>3. newSession(lease'[s]) \in SessionRecord
      BY <2>2 DEF newSession, SessionRecord, SessionStatus
    <2> QED BY <1>1, <2>1, <2>3 DEF Steps
  <1>3. ASSUME TerminateSession(h, s)
        PROVE  Effect
    <2> DEFINE rec == [sessions[s] EXCEPT !.Status = "terminated", !.TerminatedAt = TRUE]
    <2>1. sessions[s] \in SessionRecord
      BY <1>3 DEF TerminateSession, stored, TypeOK
    <2>2. rec \in SessionRecord
      BY <2>1 DEF SessionRecord, SessionStatus
    <2>3. Begin(h, "terminate.put", s, rec, FALSE)
      BY <1>3 DEF TerminateSession
    <2> HIDE DEF rec
    <2> QED BY <1>1, <2>2, <2>3 DEF Steps
  <1>4. ASSUME NEW req \in StatusRequest, UpdateSessionStatus(h, s, req)
        PROVE  Effect
    <2> DEFINE rec == updatedSession(sessions[s], req)
               pc  == IF req.Status = "terminated" /\ sessions[s].Status # "terminated"
                      THEN "update.reclaim" ELSE "update.put"
    <2>1. sessions[s] \in SessionRecord
      BY <1>4 DEF UpdateSessionStatus, stored, TypeOK
    <2>2. rec \in SessionRecord
      BY <2>1 DEF updatedSession, SessionRecord, SessionStatus, StatusRequest
    <2>3. Begin(h, pc, s, rec, FALSE) /\ pc \in Steps
      BY <1>4 DEF UpdateSessionStatus, Steps
    <2> HIDE DEF rec, pc
    <2> QED BY <1>1, <2>2, <2>3
  <1>5. ASSUME NEW useRelay \in BOOLEAN, ReportConnectionResult(h, s, useRelay)
        PROVE  Effect
    <2> DEFINE rec == [sessions[s] EXCEPT
                        !.ConnectionMode = IF useRelay THEN "relay" ELSE "holepunch"]
               pc  == IF useRelay THEN "report.relay" ELSE "report.put"
    <2>1. sessions[s] \in SessionRecord
      BY <1>5 DEF ReportConnectionResult, stored, TypeOK
    <2>2. rec \in SessionRecord
      BY <2>1 DEF SessionRecord
    <2>3. Begin(h, pc, s, rec, FALSE) /\ pc \in Steps
      BY <1>5 DEF ReportConnectionResult, Steps
    <2> HIDE DEF rec, pc
    <2> QED BY <1>1, <2>2, <2>3
  <1>6. Effect
    BY <1>2, <1>3, <1>4, <1>5
  <1> QED BY <1>6 DEF busy

\* Every call moves on only.
LEMMA NextAdvances ==
    ASSUME TypeOK, [Next]_vars, NEW h \in Handlers, busy(h)
    PROVE  \/ ~Continue(h) /\ rpc'[h] = rpc[h]
           \/ ~busy(h)'
           \/ /\ stepsLeft(rpc'[h].pc) < stepsLeft(rpc[h].pc)
              /\ rpc'[h].sid = rpc[h].sid
  <1> DEFINE Goal == \/ rpc'[h] = rpc[h]
                     \/ ~busy(h)'
                     \/ /\ stepsLeft(rpc'[h].pc) < stepsLeft(rpc[h].pc)
                        /\ rpc'[h].sid = rpc[h].sid
  <1>0. CASE Continue(h)
    <2>1. CASE busy(h)'
      <3>1. /\ rpc'[h].sid = rpc[h].sid
            /\ <<rpc[h].pc, rpc'[h].pc>> \in
                                {<<"create.put", "create.key">>,
                                 <<"terminate.put", "terminate.relay">>,
                                 <<"terminate.relay", "terminate.candidates">>,
                                 <<"terminate.candidates", "terminate.reclaim">>,
                                 <<"update.reclaim", "update.put">>,
                                 <<"report.relay", "report.put">>}
        BY <1>0, <2>1, ContinueEffect
      <3>2. stepsLeft(rpc'[h].pc) < stepsLeft(rpc[h].pc)
        BY <3>1 DEF stepsLeft
      <3> QED BY <3>1, <3>2
    <2> QED BY <2>1
  <1>1. ASSUME NEW g \in Handlers, NEW s \in Sessions,
               \/ \E key \in BOOLEAN : CreateSession(g, s, key)
               \/ TerminateSession(g, s)
               \/ \E req \in StatusRequest : UpdateSessionStatus(g, s, req)
               \/ \E useRelay \in BOOLEAN : ReportConnectionResult(g, s, useRelay)
        PROVE  Goal
    BY <1>1, RequestEffect
  <1>2. ASSUME NEW g \in Handlers, g # h, Continue(g)
        PROVE  Goal
    BY <1>2, ContinueEffect
  <1>3. ASSUME NEW g \in Handlers, NEW how \in PutFailures, PutSessionFails(g, how)
        PROVE  Goal
    <2>1. Return(g)
      BY <1>3 DEF PutSessionFails
    <2> QED BY <2>1, RpcEffect
  <1>4. ASSUME \/ \E g \in Handlers, s \in Sessions :
                    \/ CreateSessionExhausted(g, s)
                    \/ \E req \in StatusRequest : UpdateSessionStatusRejected(g, s, req)
               \/ \E s \in Sessions, p \in Peers : ExchangeCandidates(s, p)
               \/ \E s \in Sessions : ReapIdleSession(s)
               \/ UNCHANGED vars
        PROVE  Goal
    BY <1>4 DEF CreateSessionExhausted, UpdateSessionStatusRejected, ExchangeCandidates,
                ReapIdleSession, vars
  <1>5. ASSUME Restart PROVE Goal
    BY <1>5 DEF Restart, busy
  <1> QED BY <1>0, <1>1, <1>2, <1>3, <1>4, <1>5 DEF Next

\* A call takes at most four steps after it has begun, whatever the others do: none of
\* its steps leaves it where it was, and no step of another sends it back.
THEOREM CallsMoveOn == Spec => CallsAdvance
  <1>1. Spec => []TypeOK
    BY RegistryTypeCorrect
  <1>2. TypeOK /\ [Next]_vars =>
          [\A h \in Handlers : busy(h) =>
            \/ ~Continue(h) /\ rpc'[h] = rpc[h]
            \/ ~busy(h)'
            \/ /\ stepsLeft(rpc'[h].pc) < stepsLeft(rpc[h].pc)
               /\ rpc'[h].sid = rpc[h].sid]_vars
    BY NextAdvances
  <1> QED BY <1>1, <1>2, PTL DEF Spec, CallsAdvance
-----------------------------------------------------------------------------
\* A session some call was asked to terminate has no tunnel index, or a call is on its
\* way that will release it.
EndingIsReleased ==
    \A s \in Sessions : s \in ending => lease[s] = NoSlot \/ Working(s, releasingSteps)

EndInv == ReleaseInv /\ EndingIsReleased

\* Calls on their way stay there, sessions whose index is gone get none, and a
\* session that is to end from now on has its call.
LEMMA EndStep ==
    ASSUME EndInv, NEW h \in Handlers,
           \A g \in Handlers \ {h} : rpc'[g] = rpc[g],
           \A t \in Sessions : t \in ending => lease'[t] \in {lease[t], NoSlot},
           \A t \in Sessions : busy(h) /\ rpc[h].pc \in releasingSteps /\ rpc[h].sid = t =>
                \/ lease'[t] = NoSlot
                \/ busy(h)' /\ rpc'[h].pc \in releasingSteps /\ rpc'[h].sid = t,
           \A t \in Sessions : t \in ending' \ ending =>
                \/ lease[t] = NoSlot /\ lease'[t] = NoSlot
                \/ Working(t, releasingSteps)'
    PROVE  EndingIsReleased'
  <1> SUFFICES ASSUME NEW t \in Sessions, t \in ending'
               PROVE  lease'[t] = NoSlot \/ Working(t, releasingSteps)'
    BY DEF EndingIsReleased
  <1>1. CASE t \in ending
    <2>1. CASE lease[t] = NoSlot
      BY <1>1, <2>1
    <2>2. ASSUME NEW g \in Handlers, busy(g), rpc[g].sid = t, rpc[g].pc \in releasingSteps
          PROVE  lease'[t] = NoSlot \/ Working(t, releasingSteps)'
      <3>1. CASE g = h
        BY <2>2, <3>1 DEF Working
      <3>2. CASE g # h
        BY <2>2, <3>2 DEF Working, busy
      <3> QED BY <3>1, <3>2
    <2> QED BY <1>1, <2>1, <2>2 DEF EndInv, EndingIsReleased, Working
  <1>2. CASE t \notin ending
    BY <1>2
  <1> QED BY <1>1, <1>2

\* Every step keeps the invariant, as long as no PutSession fails.
LEMMA NextEnds ==
    ASSUME PutFailures = {}, EndInv, [Next]_vars
    PROVE  EndInv'
  <1>t. ReleaseInv /\ TypeOK /\ ReleaseInv'
    BY NextReleases DEF EndInv, ReleaseInv
  <1> SUFFICES EndingIsReleased'
    BY <1>t DEF EndInv
  <1>1. ASSUME NEW h \in Handlers, NEW s \in Sessions,
               \/ \E key \in BOOLEAN : CreateSession(h, s, key)
               \/ TerminateSession(h, s)
               \/ \E req \in StatusRequest : UpdateSessionStatus(h, s, req)
               \/ \E useRelay \in BOOLEAN : ReportConnectionResult(h, s, useRelay)
        PROVE  EndingIsReleased'
    <2>1. /\ ~busy(h) /\ busy(h)' /\ rpc'[h].sid = s
          /\ \A g \in Handlers \ {h} : rpc'[g] = rpc[g]
          /\ \A g \in Handlers : busy(g) => busy(g)' /\ rpc'[g] = rpc[g]
      BY <1>1, <1>t, RequestEffect
    <2>2. ASSUME NEW key \in BOOLEAN, CreateSession(h, s, key)
          PROVE  EndingIsReleased'
      <3>1. Grant(s) /\ s \notin ending /\ ending' = ending
        BY <2>2 DEF CreateSession, newSessionID
      <3>2. \A t \in Sessions \ {s} : lease'[t] = lease[t]
        BY <1>t, <3>1, GrantFacts DEF TypeOK, LeaseTypeOK
      <3> QED BY <2>1, <3>1, <3>2, EndStep
    <2>3. CASE TerminateSession(h, s)
      <3>1. /\ lease' = lease /\ ending' = ending \cup {s}
            /\ Begin(h, "terminate.put", s, [sessions[s] EXCEPT !.Status = "terminated",
                                                            !.TerminatedAt = TRUE], FALSE)
        BY <2>3 DEF TerminateSession, leaseVars
      <3>2. rpc'[h].pc = "terminate.put"
        <4>1. rpc'[h] = [pc |-> "terminate.put", sid |-> s,
                         rec |-> [sessions[s] EXCEPT !.Status = "terminated",
                                                     !.TerminatedAt = TRUE], key |-> FALSE]
          BY <1>t, <3>1 DEF Begin, TypeOK
        <4> QED BY <4>1
      <3>3. Working(s, releasingSteps)'
        BY <2>1, <3>2 DEF Working, releasingSteps
      <3> QED BY <2>1, <3>1, <3>3, EndStep
    <2>4. ASSUME NEW req \in StatusRequest, UpdateSessionStatus(h, s, req)
          PROVE  EndingIsReleased'
      <3> DEFINE rec == updatedSession(sessions[s], req)
                 pc  == IF req.Status = "terminated" /\ sessions[s].Status # "terminated"
                        THEN "update.reclaim" ELSE "update.put"
      <3>1. /\ lease' = lease /\ stored(s)
            /\ ending' = IF req.Status = "terminated" THEN ending \cup {s} ELSE ending
            /\ Begin(h, pc, s, rec, FALSE)
        BY <2>4 DEF UpdateSessionStatus, leaseVars
      <3>2. ASSUME req.Status = "terminated", sessions[s].Status = "terminated"
            PROVE  lease[s] = NoSlot \/ Working(s, releasingSteps)'
        <4>1. lease[s] = NoSlot \/ Releasing(s)
          BY <1>t, <3>1, <3>2 DEF ReleaseInv, TerminatedReleased
        <4> QED BY <2>1, <4>1 DEF Releasing, Working, releasingSteps
      <3>3. ASSUME req.Status = "terminated", sessions[s].Status # "terminated"
            PROVE  Working(s, releasingSteps)'
        <4>1. pc = "update.reclaim"
          BY <3>3
        <4> HIDE DEF pc, rec
        <4>2. rpc'[h] = [pc |-> pc, sid |-> s, rec |-> rec, key |-> FALSE]
          BY <1>t, <3>1 DEF Begin, TypeOK
        <4>3. rpc'[h].pc = "update.reclaim"
          BY <4>1, <4>2
        <4> QED BY <2>1, <4>3 DEF Working, releasingSteps
      <3> HIDE DEF pc, rec
      <3>4. \A t \in Sessions : t \in ending' \ ending =>
                \/ lease[t] = NoSlot /\ lease'[t] = NoSlot
                \/ Working(t, releasingSteps)'
        BY <3>1, <3>2, <3>3
      <3> QED BY <2>1, <3>1, <3>4, EndStep
    <2>5. ASSUME NEW useRelay \in BOOLEAN, ReportConnectionResult(h, s, useRelay)
          PROVE  EndingIsReleased'
      <3>1. lease' = lease /\ ending' = ending
        BY <2>5 DEF ReportConnectionResult, leaseVars
      <3> QED BY <2>1, <3>1, EndStep
    <2> QED BY <1>1, <2>2, <2>3, <2>4, <2>5
  <1>2. ASSUME NEW h \in Handlers, Continue(h)
        PROVE  EndingIsReleased'
    <2>1. /\ busy(h) /\ \A g \in Handlers \ {h} : rpc'[g] = rpc[g]
          /\ busy(h)' => /\ rpc'[h].sid = rpc[h].sid
                         /\ <<rpc[h].pc, rpc'[h].pc>> \in
                                {<<"create.put", "create.key">>,
                                 <<"terminate.put", "terminate.relay">>,
                                 <<"terminate.relay", "terminate.candidates">>,
                                 <<"terminate.candidates", "terminate.reclaim">>,
                                 <<"update.reclaim", "update.put">>,
                                 <<"report.relay", "report.put">>}
          /\ ~busy(h)' => rpc[h].pc \in
                {"create.put", "create.key", "terminate.reclaim", "update.put", "report.put"}
      BY <1>2, <1>t, ContinueEffect
    <2>2. /\ ending' = ending
          /\ lease' = lease \/ Release(rpc[h].sid)
          /\ rpc[h].pc \in {"terminate.reclaim", "update.reclaim"} => Release(rpc[h].sid)
      BY <1>2 DEF Continue, CreateSessionPut, CreateSessionKey, TerminateSessionPut,
           TerminateSessionRelay, TerminateSessionCandidates, TerminateSessionReclaim,
           UpdateSessionStatusReclaim, UpdateSessionStatusPut,
           ReportConnectionResultRelay, ReportConnectionResultPut, At, leaseVars
    <2>3. rpc[h].sid \in Sessions
      BY <1>t, <2>1, BusyCall
    <2>4. /\ \A t \in Sessions : lease'[t] \in {lease[t], NoSlot}
          /\ rpc[h].pc \in {"terminate.reclaim", "update.reclaim"}
                => lease'[rpc[h].sid] = NoSlot
      BY <1>t, <2>2, <2>3 DEF Release, TypeOK, LeaseTypeOK
    <2>5. ASSUME rpc[h].pc \in releasingSteps
          PROVE  \/ lease'[rpc[h].sid] = NoSlot
                 \/ busy(h)' /\ rpc'[h].pc \in releasingSteps /\ rpc'[h].sid = rpc[h].sid
      <3>1. CASE rpc[h].pc \in {"terminate.reclaim", "update.reclaim"}
        BY <2>4, <3>1
      <3>2. CASE rpc[h].pc \in {"terminate.put", "terminate.relay", "terminate.candidates"}
        BY <2>1, <3>2 DEF releasingSteps
      <3> QED BY <2>5, <3>1, <3>2 DEF releasingSteps
    <2> QED BY <2>1, <2>2, <2>4, <2>5, EndStep
  <1>3. ASSUME lease' = lease, rpc' = rpc, ending' = ending
        PROVE  EndingIsReleased'
    BY <1>3 DEF EndInv, EndingIsReleased, Working, busy
  <1>4. CASE \/ \E g \in Handlers, s \in Sessions :
                    \/ CreateSessionExhausted(g, s)
                    \/ \E req \in StatusRequest : UpdateSessionStatusRejected(g, s, req)
             \/ \E s \in Sessions, p \in Peers : ExchangeCandidates(s, p)
             \/ \E s \in Sessions : ReapIdleSession(s)
             \/ UNCHANGED vars
    <2>1. lease' = lease /\ rpc' = rpc /\ ending' = ending
      BY <1>4 DEF CreateSessionExhausted, Deny, UpdateSessionStatusRejected,
                  ExchangeCandidates, ReapIdleSession, vars, leaseVars
    <2> QED BY <1>3, <2>1
  <1>5. CASE Restart
    BY <1>5 DEF Restart, EndingIsReleased
  <1> QED BY <1>1, <1>2, <1>4, <1>5 DEF Next

\* Every request to terminate a session leads to its index being free, as far as no
\* fairness is needed: whenever the index is still held, a call is on its way that
\* releases it, also when the request found the session already terminated.  A
\* PutSession that fails is excluded: TerminateSession then returns its error.
THEOREM EndingsRelease ==
    ASSUME PutFailures = {}
    PROVE  Spec => []EndingIsReleased
  <1>1. Init => EndInv
    BY InitReleases DEF Init, EndInv, EndingIsReleased
  <1>2. EndInv /\ [Next]_vars => EndInv'
    BY NextEnds
  <1>3. EndInv => EndingIsReleased
    BY DEF EndInv
  <1> QED BY <1>1, <1>2, <1>3, PTL DEF Spec
-----------------------------------------------------------------------------
(***************************************************************************)
(* Exhaustion.  An index that is held belongs to a session in the store or *)
(* to one whose CreateSession is about to store it.                        *)
(***************************************************************************)
InUse(t) == stored(t) \/ Working(t, {"create.put"})

HeldInUse == \A t \in Sessions : lease[t] # NoSlot => InUse(t)

InUseInv == TypeOK /\ HeldInUse

\* Requests and PutSession take nothing out of the store.
LEMMA StoredStays ==
    ASSUME TypeOK, NEW h \in Handlers, NEW s \in Sessions
    PROVE  /\ busy(h) /\ PutSession(h) =>
                \A t \in Sessions : stored(t) \/ rpc[h].sid = t => stored(t)'
           /\ (\/ \E key \in BOOLEAN : CreateSession(h, s, key)
               \/ CreateSessionExhausted(h, s)
               \/ TerminateSession(h, s)
               \/ \E req \in StatusRequest :
                    UpdateSessionStatus(h, s, req) \/ UpdateSessionStatusRejected(h, s, req)
               \/ \E useRelay \in BOOLEAN : ReportConnectionResult(h, s, useRelay))
              => \A t \in Sessions : stored(t) => stored(t)'
  <1> DEFINE Stays == \A t \in Sessions : stored(t) => stored(t)'
  <1>1. ASSUME busy(h), PutSession(h)
        PROVE  \A t \in Sessions : stored(t) \/ rpc[h].sid = t => stored(t)'
    <2>1. rpc[h].rec \in SessionRecord
      BY <1>1, BusyCall
    <2>2. rpc[h].rec # Absent
      BY <2>1, RegistryAssumption
    <2> QED BY <1>1, <2>2 DEF PutSession, stored, TypeOK
  <1>2. ASSUME NEW rec \in SessionRecord, AssignFields(s, rec)
        PROVE  Stays
    <2>1. rec # Absent
      BY RegistryAssumption
    <2> QED BY <1>2, <2>1 DEF AssignFields, stored, TypeOK
  <1>3. stored(s) => sessions[s] \in SessionRecord
    BY DEF stored, TypeOK
  <1>4. ASSUME (\E key \in BOOLEAN : CreateSession(h, s, key)) \/ CreateSessionExhausted(h, s)
        PROVE  Stays
    BY <1>4 DEF CreateSession, CreateSessionExhausted, stored
  <1>5. ASSUME TerminateSession(h, s)
        PROVE  Stays
    <2> DEFINE rec == [sessions[s] EXCEPT !.Status = "terminated", !.TerminatedAt = TRUE]
    <2>1. stored(s) /\ AssignFields(s, rec)
      BY <1>5 DEF TerminateSession
    <2>2. rec \in SessionRecord
      BY <1>3, <2>1 DEF SessionRecord, SessionStatus
    <2> HIDE DEF rec
    <2> QED BY <1>2, <2>1, <2>2
  <1>6. ASSUME NEW req \in StatusRequest,
               UpdateSessionStatus(h, s, req) \/ UpdateSessionStatusRejected(h, s, req)
        PROVE  Stays
    <2> DEFINE rec == updatedSession(sessions[s], req)
    <2>1. stored(s) /\ AssignFields(s, rec)
      BY <1>6 DEF UpdateSessionStatus, UpdateSessionStatusRejected
    <2>2. rec \in SessionRecord
      BY <1>3, <2>1 DEF updatedSession, SessionRecord, SessionStatus, StatusRequest
    <2> HIDE DEF rec
    <2> QED BY <1>2, <2>1, <2>2
  <1>7. ASSUME NEW useRelay \in BOOLEAN, ReportConnectionResult(h, s, useRelay)
        PROVE  Stays
    <2> DEFINE rec == [sessions[s] EXCEPT
                        !.ConnectionMode = IF useRelay THEN "relay" ELSE "holepunch"]
    <2>1. stored(s) /\ AssignFields(s, rec)
      BY <1>7 DEF ReportConnectionResult
    <2>2. rec \in SessionRecord
      BY <1>3, <2>1 DEF SessionRecord
    <2> HIDE DEF rec
    <2> QED BY <1>2, <2>1, <2>2
  <1> QED BY <1>1, <1>4, <1>5, <1>6, <1>7

\* A step of h: who gets an index is in use, nothing leaves the store, and a
\* CreateSession of h that leaves its first step has stored its session.
LEMMA InUseStep ==
    ASSUME InUseInv, NEW h \in Handlers,
           \A g \in Handlers \ {h} : rpc'[g] = rpc[g],
           \A t \in Sessions : lease'[t] \notin {lease[t], NoSlot} => InUse(t)',
           \A t \in Sessions : stored(t) => stored(t)',
           \A t \in Sessions : At(h, "create.put") /\ rpc[h].sid = t =>
                rpc'[h] = rpc[h] \/ stored(t)'
    PROVE  HeldInUse'
  <1> SUFFICES ASSUME NEW t \in Sessions, lease'[t] # NoSlot, lease'[t] = lease[t]
               PROVE  InUse(t)'
    BY DEF HeldInUse
  <1>1. stored(t) \/ Working(t, {"create.put"})
    BY DEF InUseInv, HeldInUse, InUse
  <1>2. CASE stored(t)
    BY <1>2 DEF InUse
  <1>3. ASSUME NEW g \in Handlers, busy(g), rpc[g].sid = t, rpc[g].pc = "create.put"
        PROVE  InUse(t)'
    <2>1. rpc'[g] = rpc[g] \/ stored(t)'
      BY <1>3 DEF At
    <2> QED BY <1>3, <2>1 DEF InUse, Working, busy
  <1> QED BY <1>1, <1>2, <1>3 DEF Working

\* Every step keeps the invariant, as long as a failed PutSession was applied.
LEMMA NextInUse ==
    ASSUME "lost" \notin PutFailures, InUseInv, [Next]_vars
    PROVE  InUseInv'
  <1>t. TypeOK /\ TypeOK'
    BY NextType DEF InUseInv
  <1> SUFFICES HeldInUse'
    BY <1>t DEF InUseInv
  <1>1. ASSUME NEW h \in Handlers, NEW s \in Sessions,
               \/ \E key \in BOOLEAN : CreateSession(h, s, key)
               \/ TerminateSession(h, s)
               \/ \E req \in StatusRequest : UpdateSessionStatus(h, s, req)
               \/ \E useRelay \in BOOLEAN : ReportConnectionResult(h, s, useRelay)
        PROVE  HeldInUse'
    <2>1. /\ ~busy(h) /\ busy(h)' /\ rpc'[h].sid = s
          /\ \A g \in Handlers \ {h} : rpc'[g] = rpc[g]
      BY <1>1, <1>t, RequestEffect
    <2>2. \A t \in Sessions : stored(t) => stored(t)'
      BY <1>1, <1>t, StoredStays
    <2>3. ASSUME NEW t \in Sessions, lease'[t] \notin {lease[t], NoSlot}
          PROVE  InUse(t)'
      <3>1. PICK key \in BOOLEAN : CreateSession(h, s, key)
        BY <1>1, <2>3 DEF TerminateSession, UpdateSessionStatus, ReportConnectionResult,
                          leaseVars
      <3>2. t = s
        BY <1>t, <2>3, <3>1, GrantFacts DEF CreateSession, TypeOK, LeaseTypeOK
      <3>3. rpc'[h] = [pc |-> "create.put", sid |-> s, rec |-> newSession(lease'[s]),
                       key |-> key]
        BY <1>t, <3>1 DEF CreateSession, Begin, TypeOK
      <3>4. rpc'[h].pc = "create.put"
        BY <3>3
      <3> QED BY <2>1, <3>2, <3>4 DEF InUse, Working
    <2> QED BY <2>1, <2>2, <2>3, InUseStep DEF At
  <1>2. ASSUME NEW h \in Handlers,
               Continue(h) \/ \E how \in PutFailures : PutSessionFails(h, how)
        PROVE  HeldInUse'
    <2>1. busy(h) /\ \A g \in Handlers \ {h} : rpc'[g] = rpc[g]
      <3>1. CASE Continue(h)
        BY <1>t, <3>1, ContinueEffect
      <3>2. CASE \E how \in PutFailures : PutSessionFails(h, how)
        BY <1>t, <3>2, RpcEffect DEF PutSessionFails
      <3> QED BY <1>2, <3>1, <3>2
    <2>2. /\ PutSession(h) \/ (sessions' = sessions /\ ~At(h, "create.put"))
          /\ lease' = lease \/ Release(rpc[h].sid)
      BY <1>2, RegistryAssumption DEF Continue, CreateSessionPut, CreateSessionKey,
           TerminateSessionPut, TerminateSessionRelay, TerminateSessionCandidates,
           TerminateSessionReclaim, UpdateSessionStatusReclaim, UpdateSessionStatusPut,
           ReportConnectionResultRelay, ReportConnectionResultPut, At, leaseVars,
           PutSessionFails
    <2>3. \A t \in Sessions :
            /\ stored(t) => stored(t)'
            /\ At(h, "create.put") /\ rpc[h].sid = t => stored(t)'
      BY <1>t, <2>1, <2>2, StoredStays DEF stored
    <2>4. \A t \in Sessions : lease'[t] \in {lease[t], NoSlot}
      BY <1>t, <2>2 DEF Release, TypeOK, LeaseTypeOK
    <2> QED BY <2>1, <2>3, <2>4, InUseStep
  <1>3. ASSUME NEW h \in Handlers, NEW s \in Sessions,
               \/ CreateSessionExhausted(h, s)
               \/ \E req \in StatusRequest : UpdateSessionStatusRejected(h, s, req)
        PROVE  HeldInUse'
    <2>1. lease' = lease /\ rpc' = rpc
      BY <1>3 DEF CreateSessionExhausted, Deny, UpdateSessionStatusRejected, leaseVars
    <2>2. \A t \in Sessions : stored(t) => stored(t)'
      BY <1>3, <1>t, StoredStays
    <2> QED BY <2>1, <2>2, InUseStep
  <1>4. CASE \/ \E s \in Sessions, p \in Peers : ExchangeCandidates(s, p)
             \/ \E s \in Sessions : ReapIdleSession(s)
             \/ UNCHANGED vars
    <2>1. lease' = lease /\ rpc' = rpc /\ sessions' = sessions
      BY <1>4 DEF ExchangeCandidates, ReapIdleSession, vars, leaseVars
    <2> QED BY <2>1 DEF InUseInv, HeldInUse, InUse, stored, Working, busy
  <1>5. CASE Restart
    BY <1>5 DEF Restart, HeldInUse
  <1> QED BY <1>1, <1>2, <1>3, <1>4, <1>5 DEF Next

\* CreateSession answers ErrTunnelExhausted only while every index belongs to a
\* session in the store or to one that is being stored, so that terminating sessions
\* can help; also across restarts, and with PutSession calls whose error hides a
\* write.  A PutSession that fails without writing is excluded: CreateSession then
\* leaks the index.
THEOREM ExhaustedInUse ==
    ASSUME "lost" \notin PutFailures
    PROVE  Spec => ExhaustedOnlyInUse
  <1> DEFINE Step == \A s \in denied' \ denied : \A i \in tunnelIndex :
                        \E t \in Sessions :
                            lease[t] = i /\ (stored(t) \/ Working(t, {"create.put"}))
  <1>1. Init => InUseInv
    BY InitType DEF Init, LeaseInit, InUseInv, HeldInUse
  <1>2. InUseInv /\ [Next]_vars => InUseInv'
    BY NextInUse
  <1>3. ASSUME InUseInv, [Next]_vars
        PROVE  [Step]_vars
    <2> SUFFICES ASSUME NEW s \in denied' \ denied, NEW i \in tunnelIndex
                 PROVE  \E t \in Sessions :
                            lease[t] = i /\ (stored(t) \/ Working(t, {"create.put"}))
      OBVIOUS
    <2>1. denied' # denied
      OBVIOUS
    <2>2. ASSUME ~ \E h \in Handlers, t \in Sessions : CreateSessionExhausted(h, t)
          PROVE  FALSE
      <3>1. ASSUME NEW h \in Handlers, NEW t \in Sessions, NEW key \in BOOLEAN,
                   CreateSession(h, t, key)
            PROVE  FALSE
        <4>1. denied' = denied \ {t}
          BY <3>1 DEF CreateSession, Grant
        <4> QED BY <4>1
      <3>2. ASSUME NEW h \in Handlers, NEW t \in Sessions,
                   \/ TerminateSession(h, t)
                   \/ \E req \in StatusRequest :
                        UpdateSessionStatus(h, t, req) \/ UpdateSessionStatusRejected(h, t, req)
                   \/ \E useRelay \in BOOLEAN : ReportConnectionResult(h, t, useRelay)
            PROVE  FALSE
        BY <2>1, <3>2 DEF TerminateSession, UpdateSessionStatus, UpdateSessionStatusRejected,
                          ReportConnectionResult, leaseVars
      <3>3. ASSUME NEW h \in Handlers,
                   Continue(h) \/ \E how \in PutFailures : PutSessionFails(h, how)
            PROVE  FALSE
        BY <2>1, <3>3 DEF Continue, CreateSessionPut, CreateSessionKey,
             TerminateSessionPut, TerminateSessionRelay, TerminateSessionCandidates,
             TerminateSessionReclaim, UpdateSessionStatusReclaim, UpdateSessionStatusPut,
             ReportConnectionResultRelay, ReportConnectionResultPut, leaseVars,
             PutSessionFails, Release
      <3>4. CASE \/ \E t \in Sessions, p \in Peers : ExchangeCandidates(t, p)
                 \/ \E t \in Sessions : ReapIdleSession(t)
                 \/ UNCHANGED vars
        BY <2>1, <3>4 DEF ExchangeCandidates, ReapIdleSession, vars, leaseVars
      <3>5. CASE Restart
        BY <3>5 DEF Restart
      <3> QED BY <1>3, <2>2, <3>1, <3>2, <3>3, <3>4, <3>5 DEF Next
    <2>3. Free = {}
      BY <2>2 DEF CreateSessionExhausted, Deny
    <2>4. PICK t \in Sessions : lease[t] = i
      BY <2>3 DEF Free
    <2>5. i # NoSlot
      BY IndexAssumption
    <2> QED BY <1>3, <2>4, <2>5 DEF InUseInv, HeldInUse, InUse
  <1> QED BY <1>1, <1>2, <1>3, PTL DEF Spec, ExhaustedOnlyInUse
-----------------------------------------------------------------------------
\* The registry uses its tunnel allocator as TunnelLeases describes it: it asks for an
\* index only for a session that has none, and every other change of the allocator's
\* state is a release.  Without restarts, which give the registry a new allocator.
THEOREM RegistryUsesLeases ==
    ASSUME MaxRestarts = 0
    PROVE  Spec => LeaseSpec
  <1>1. Init => LeaseInit
    BY DEF Init
  <1>2. ASSUME TypeOK, [Next]_vars
        PROVE  [LeaseNext]_leaseVars
    <2>1. ASSUME NEW h \in Handlers, NEW s \in Sessions, NEW key \in BOOLEAN,
                 CreateSession(h, s, key)
          PROVE  LeaseNext
      <3>1. lease[s] = NoSlot /\ Grant(s)
        BY <2>1 DEF CreateSession, newSessionID
      <3> QED BY <3>1 DEF LeaseNext
    <2>2. ASSUME NEW h \in Handlers, NEW s \in Sessions, CreateSessionExhausted(h, s)
          PROVE  LeaseNext
      <3>1. lease[s] = NoSlot /\ Deny(s)
        BY <2>2 DEF CreateSessionExhausted, newSessionID
      <3> QED BY <3>1 DEF LeaseNext
    <2>3. ASSUME NEW h \in Handlers, NEW s \in Sessions,
                 \/ TerminateSession(h, s)
                 \/ \E req \in StatusRequest :
                      UpdateSessionStatus(h, s, req) \/ UpdateSessionStatusRejected(h, s, req)
                 \/ \E useRelay \in BOOLEAN : ReportConnectionResult(h, s, useRelay)
          PROVE  UNCHANGED leaseVars
      BY <2>3 DEF TerminateSession, UpdateSessionStatus, UpdateSessionStatusRejected,
                  ReportConnectionResult
    <2>4. ASSUME NEW h \in Handlers,
                 Continue(h) \/ \E how \in PutFailures : PutSessionFails(h, how)
          PROVE  [LeaseNext]_leaseVars
      <3>1. busy(h) /\ (Release(rpc[h].sid) \/ UNCHANGED leaseVars)
        BY <2>4 DEF Continue, CreateSessionPut, CreateSessionKey,
             TerminateSessionPut, TerminateSessionRelay, TerminateSessionCandidates,
             TerminateSessionReclaim, UpdateSessionStatusReclaim, UpdateSessionStatusPut,
             ReportConnectionResultRelay, ReportConnectionResultPut, PutSessionFails, At
      <3>2. rpc[h].sid \in Sessions
        BY <1>2, <3>1, BusyCall
      <3> QED BY <3>1, <3>2 DEF LeaseNext
    <2>5. CASE \/ \E s \in Sessions, p \in Peers : ExchangeCandidates(s, p)
               \/ \E s \in Sessions : ReapIdleSession(s)
               \/ UNCHANGED vars
      BY <2>5 DEF ExchangeCandidates, ReapIdleSession, vars
    <2>6. ~Restart
      BY <1>2 DEF Restart, TypeOK
    <2> QED BY <1>2, <2>1, <2>2, <2>3, <2>4, <2>5, <2>6 DEF Next
  <1>3. Spec => []TypeOK
    BY RegistryTypeCorrect
  <1> QED BY <1>1, <1>2, <1>3, PTL DEF Spec, LeaseSpec
=============================================================================
