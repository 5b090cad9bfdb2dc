------------------------- MODULE RegistrySessionProofs -------------------------
(***************************************************************************)
(* What stored sessions show: unique tunnel addresses, an endpoint while   *)
(* running, a recorded outcome once terminated.                            *)
(*                                                                         *)
(* Tunnel addresses are unique among sessions nobody has asked to          *)
(* terminate, as long as a registry with PostgresStore is not restarted: a *)
(* restart forgets the allocations while the store keeps them.             *)
(*                                                                         *)
(* UniqueTunnelIPs follows from UnendedKeepsSlot and the uniqueness of     *)
(* leases.  UnendedKeepsSlot needs that calls in flight carry the stored   *)
(* index, that only calls for an ending session release, and that nobody   *)
(* else works on a session while it is being created.                      *)
(***************************************************************************)
EXTENDS RegistryProofs

CallIndex(h) ==
    /\ rpc[h].pc = "create.put" =>
        /\ ~stored(rpc[h].sid) /\ rpc[h].sid \notin ending
        /\ lease[rpc[h].sid] = rpc[h].rec.Index
        /\ \A g \in Handlers : busy(g) /\ rpc[g].sid = rpc[h].sid => g = h
    /\ rpc[h].pc # "create.put" =>
        /\ stored(rpc[h].sid)
        /\ rpc[h].rec.Index = sessions[rpc[h].sid].Index
    /\ rpc[h].pc \in releasingSteps => rpc[h].sid \in ending

CallsIndex == \A h \in Handlers : busy(h) => CallIndex(h)

IndexInv == TypeOK /\ LeaseUnique /\ UnendedKeepsSlot /\ CallsIndex

\* Nobody else creates the session a call works on, a stored session, or a
\* session whose ID is new.
LEMMA NotBeingCreated ==
    ASSUME IndexInv, NEW h \in Handlers, NEW x \in Sessions,
           stored(x) \/ newSessionID(x) \/ (busy(h) /\ rpc[h].sid = x),
           NEW g \in Handlers \ {h}, busy(g), rpc[g].pc = "create.put"
    PROVE  rpc[g].sid # x
  <1>1. CallIndex(g)
    BY DEF IndexInv, CallsIndex
  <1> QED BY <1>1 DEF CallIndex, newSessionID

\* A step of h that touches one session only.
LEMMA TouchOne ==
    ASSUME IndexInv, NEW h \in Handlers, NEW x \in Sessions,
           \A g \in Handlers \ {h} : rpc'[g] = rpc[g],
           stored(x) \/ newSessionID(x) \/ (busy(h) /\ rpc[h].sid = x),
           busy(h)' => rpc'[h].sid = x /\ CallIndex(h)',
           \A s \in Sessions \ {x} : /\ sessions'[s] = sessions[s]
                                     /\ lease'[s] = lease[s]
                                     /\ s \in ending' <=> s \in ending,
           stored(x) => stored(x)' /\ sessions'[x].Index = sessions[x].Index,
           x \in ending => x \in ending',
           stored(x)' /\ x \notin ending' => lease'[x] = sessions'[x].Index,
           lease'[x] # NoSlot => \A s \in Sessions \ {x} : lease'[x] # lease[s]
    PROVE  LeaseUnique' /\ UnendedKeepsSlot' /\ CallsIndex'
  <1>1. LeaseUnique'
    BY DEF IndexInv, LeaseUnique
  <1>2. UnendedKeepsSlot'
    BY DEF IndexInv, UnendedKeepsSlot, stored
  <1>3. ASSUME NEW g \in Handlers \ {h}, busy(g)'
        PROVE  CallIndex(g)'
    <2>1. rpc'[g] = rpc[g] /\ busy(g)
      BY <1>3 DEF busy
    <2>2. CallIndex(g) /\ rpc[g].sid \in Sessions
      BY <2>1, BusyCall DEF IndexInv, CallsIndex
    <2>3. rpc[g].pc = "create.put" => rpc[g].sid # x
      BY <2>1, NotBeingCreated
    <2>4. rpc[g].pc = "create.put" =>
            /\ ~stored(rpc[g].sid)' /\ rpc[g].sid \notin ending'
            /\ lease'[rpc[g].sid] = rpc[g].rec.Index
            /\ \A k \in Handlers : busy(k)' /\ rpc'[k].sid = rpc[g].sid => k = g
      <3>1. SUFFICES ASSUME rpc[g].pc = "create.put"
                     PROVE  /\ sessions'[rpc[g].sid] = Absent
                            /\ rpc[g].sid \notin ending'
                            /\ lease'[rpc[g].sid] = rpc[g].rec.Index
                            /\ \A k \in Handlers :
                                busy(k)' /\ rpc'[k].sid = rpc[g].sid => k = g
        BY <2>1 DEF stored
      <3>2. \A k \in Handlers \ {h} : busy(k)' <=> busy(k)
        BY DEF busy
      <3> QED BY <2>2, <2>3, <3>1, <3>2 DEF CallIndex, stored
    <2>5. rpc[g].pc # "create.put" =>
            /\ sessions'[rpc[g].sid] # Absent
            /\ rpc[g].rec.Index = sessions'[rpc[g].sid].Index
      BY <2>2 DEF CallIndex, stored
    <2>6. rpc[g].pc \in releasingSteps => rpc[g].sid \in ending'
      BY <2>2 DEF CallIndex
    <2> QED BY <2>1, <2>4, <2>5, <2>6 DEF CallIndex, stored
  <1>4. CallsIndex'
    BY <1>3 DEF CallsIndex
  <1> QED BY <1>1, <1>2, <1>4

\* A call that has fetched the stored record of x and changed fields other than
\* the index.
LEMMA BeginOnStored ==
    ASSUME IndexInv, NEW h \in Handlers, NEW x \in Sessions, stored(x),
           NEW pc \in Steps \ {"create.put"}, NEW rec \in SessionRecord,
           rec.Index = sessions[x].Index,
           Begin(h, pc, x, rec, FALSE), AssignFields(x, rec),
           UNCHANGED leaseVars,
           ending' \in {ending, ending \cup {x}},
           pc \in releasingSteps => x \in ending'
    PROVE  LeaseUnique' /\ UnendedKeepsSlot' /\ CallsIndex'
  <1>a. TypeOK
    BY DEF IndexInv
  <1>1. /\ ~busy(h)
        /\ rpc'[h] = [pc |-> pc, sid |-> x, rec |-> rec, key |-> FALSE]
        /\ \A g \in Handlers \ {h} : rpc'[g] = rpc[g]
    BY <1>a DEF Begin, TypeOK
  <1>2. Absent # rec
    BY RegistryAssumption
  <1>3. /\ \A s \in Sessions \ {x} : sessions'[s] = sessions[s]
        /\ sessions'[x] # Absent /\ sessions'[x].Index = sessions[x].Index
    BY <1>a, <1>2 DEF AssignFields, TypeOK, stored
  <1>4. lease' = lease
    BY DEF leaseVars
  <1>5. CallIndex(h)'
    BY <1>1, <1>3 DEF CallIndex, stored
  <1>6. stored(x)' /\ x \notin ending' => lease'[x] = sessions'[x].Index
    BY <1>3, <1>4 DEF IndexInv, UnendedKeepsSlot
  <1>7. lease'[x] # NoSlot => \A s \in Sessions \ {x} : lease'[x] # lease[s]
    BY <1>4 DEF IndexInv, LeaseUnique
  <1>8. \A s \in Sessions \ {x} : s \in ending' <=> s \in ending
    OBVIOUS
  <1>9. busy(h)' => rpc'[h].sid = x /\ CallIndex(h)'
    BY <1>1, <1>5
  <1>10. stored(x) => stored(x)' /\ sessions'[x].Index = sessions[x].Index
    BY <1>3 DEF stored
  <1> QED BY <1>1, <1>3, <1>4, <1>6, <1>7, <1>8, <1>9, <1>10, TouchOne

\* The new calls keep the invariant.
LEMMA RequestIndex ==
    ASSUME IndexInv, NEW h \in Handlers, NEW x \in Sessions,
           \/ \E key \in BOOLEAN : CreateSession(h, x, key)
           \/ CreateSessionExhausted(h, x)
           \/ TerminateSession(h, x)
           \/ \E req \in StatusRequest :
                UpdateSessionStatus(h, x, req) \/ UpdateSessionStatusRejected(h, x, req)
           \/ \E useRelay \in BOOLEAN : ReportConnectionResult(h, x, useRelay)
    PROVE  LeaseUnique' /\ UnendedKeepsSlot' /\ CallsIndex'
  <1>a. TypeOK
    BY DEF IndexInv
  <1>1. ASSUME NEW key \in BOOLEAN, CreateSession(h, x, key)
        PROVE  LeaseUnique' /\ UnendedKeepsSlot' /\ CallsIndex'
    <2>1. /\ newSessionID(x) /\ UNCHANGED <<sessions, ending>>
          /\ Begin(h, "create.put", x, newSession(lease'[x]), key)
      BY <1>1 DEF CreateSession
    <2>2. /\ lease'[x] \in tunnelIndex
          /\ \A t \in Sessions : lease[t] # lease'[x]
          /\ \A t \in Sessions \ {x} : lease'[t] = lease[t]
      BY <1>1, <1>a, GrantFacts DEF CreateSession, TypeOK, LeaseTypeOK
    <2>3. /\ rpc'[h] = [pc |-> "create.put", sid |-> x,
                        rec |-> newSession(lease'[x]), key |-> key]
          /\ \A g \in Handlers \ {h} : rpc'[g] = rpc[g]
      BY <1>a, <2>1 DEF Begin, TypeOK
    <2>4. newSession(lease'[x]).Index = lease'[x]
      BY DEF newSession
    <2>5. /\ sessions'[x] = Absent /\ x \notin ending'
          /\ \A g \in Handlers : busy(g) => rpc[g].sid # x
      BY <2>1 DEF newSessionID, stored
    <2>6. CallIndex(h)'
      BY <2>3, <2>4, <2>5 DEF CallIndex, stored, busy, releasingSteps
    <2>7. ~stored(x) /\ ~stored(x)'
      BY <2>1, <2>5 DEF newSessionID, stored
    <2>8. busy(h)' => rpc'[h].sid = x /\ CallIndex(h)'
      BY <2>3, <2>6
    <2> QED BY <2>1, <2>2, <2>3, <2>7, <2>8, TouchOne
  <1>2. CASE CreateSessionExhausted(h, x)
    BY <1>2 DEF CreateSessionExhausted, Deny, IndexInv, LeaseUnique, UnendedKeepsSlot,
                CallsIndex, CallIndex, stored, busy
  <1>3. CASE TerminateSession(h, x)
    <2> DEFINE rec == [sessions[x] EXCEPT !.Status = "terminated", !.TerminatedAt = TRUE]
    <2>1. /\ Begin(h, "terminate.put", x, rec, FALSE) /\ AssignFields(x, rec)
          /\ stored(x) /\ ending' = ending \cup {x} /\ UNCHANGED leaseVars
      BY <1>3 DEF TerminateSession
    <2>2. sessions[x] \in SessionRecord
      BY <1>a, <2>1 DEF stored, TypeOK
    <2>3. rec \in SessionRecord /\ rec.Index = sessions[x].Index
      BY <2>2 DEF SessionRecord, SessionStatus
    <2> HIDE DEF rec
    <2> QED BY <2>1, <2>3, BeginOnStored DEF Steps
  <1>4. ASSUME NEW req \in StatusRequest, UpdateSessionStatus(h, x, req)
        PROVE  LeaseUnique' /\ UnendedKeepsSlot' /\ CallsIndex'
    <2> DEFINE rec == updatedSession(sessions[x], req)
               pc  == IF req.Status = "terminated" /\ sessions[x].Status # "terminated"
                      THEN "update.reclaim" ELSE "update.put"
    <2>1. /\ Begin(h, pc, x, rec, FALSE) /\ AssignFields(x, rec)
          /\ stored(x) /\ UNCHANGED leaseVars
          /\ ending' = IF req.Status = "terminated" THEN ending \cup {x} ELSE ending
      BY <1>4 DEF UpdateSessionStatus
    <2>2. sessions[x] \in SessionRecord
      BY <1>a, <2>1 DEF stored, TypeOK
    <2>3. rec \in SessionRecord /\ rec.Index = sessions[x].Index
      BY <2>2 DEF SessionRecord, SessionStatus, updatedSession, StatusRequest
    <2>4. /\ pc \in Steps \ {"create.put"}
          /\ pc \in releasingSteps => x \in ending'
          /\ ending' \in {ending, ending \cup {x}}
      BY <2>1 DEF Steps, releasingSteps
    <2> HIDE DEF rec, pc
    <2> QED BY <2>1, <2>3, <2>4, BeginOnStored
  <1>5. ASSUME NEW req \in StatusRequest, UpdateSessionStatusRejected(h, x, req)
        PROVE  LeaseUnique' /\ UnendedKeepsSlot' /\ CallsIndex'
    <2> DEFINE rec == updatedSession(sessions[x], req)
    <2>1. /\ AssignFields(x, rec) /\ stored(x) /\ ~busy(h)
          /\ UNCHANGED <<leaseVars, ending, rpc>>
      BY <1>5 DEF UpdateSessionStatusRejected
    <2>2. sessions[x] \in SessionRecord
      BY <1>a, <2>1 DEF stored, TypeOK
    <2>3. rec \in SessionRecord /\ rec.Index = sessions[x].Index
      BY <2>2 DEF SessionRecord, SessionStatus, updatedSession, StatusRequest
    <2> HIDE DEF rec
    <2>4. Absent # rec
      BY <2>3, RegistryAssumption
    <2>5. /\ \A s \in Sessions \ {x} : sessions'[s] = sessions[s]
          /\ sessions'[x] # Absent /\ sessions'[x].Index = sessions[x].Index
      BY <1>a, <2>1, <2>3, <2>4 DEF AssignFields, TypeOK, stored
    <2>6. lease' = lease /\ ending' = ending /\ rpc' = rpc /\ ~busy(h)'
      BY <2>1 DEF leaseVars, busy
    <2>7. x \notin ending => lease[x] = sessions[x].Index
      BY <2>1 DEF IndexInv, UnendedKeepsSlot
    <2>8. lease[x] # NoSlot => \A s \in Sessions \ {x} : lease[x] # lease[s]
      BY DEF IndexInv, LeaseUnique
    <2>9. stored(x)'
      BY <2>5 DEF stored
    <2> QED BY <2>1, <2>5, <2>6, <2>7, <2>8, <2>9, TouchOne
  <1>6. ASSUME NEW useRelay \in BOOLEAN, ReportConnectionResult(h, x, useRelay)
        PROVE  LeaseUnique' /\ UnendedKeepsSlot' /\ CallsIndex'
    <2> DEFINE rec == [sessions[x] EXCEPT
                            !.ConnectionMode = IF useRelay THEN "relay" ELSE "holepunch"]
               pc  == IF useRelay THEN "report.relay" ELSE "report.put"
    <2>1. /\ Begin(h, pc, x, rec, FALSE) /\ AssignFields(x, rec)
          /\ stored(x) /\ ending' = ending /\ UNCHANGED leaseVars
      BY <1>6 DEF ReportConnectionResult
    <2>2. sessions[x] \in SessionRecord
      BY <1>a, <2>1 DEF stored, TypeOK
    <2>3. rec \in SessionRecord /\ rec.Index = sessions[x].Index
      BY <2>2 DEF SessionRecord
    <2>4. pc \in Steps \ {"create.put"} /\ pc \notin releasingSteps
      BY DEF Steps, releasingSteps
    <2> HIDE DEF rec, pc
    <2> QED BY <2>1, <2>3, <2>4, BeginOnStored
  <1> QED BY <1>1, <1>2, <1>3, <1>4, <1>5, <1>6

\* A later step of a call: it may store its record, release the index if it is
\* ending the session, and go on or return.
LEMMA StepOnCall ==
    ASSUME IndexInv, NEW h \in Handlers, busy(h),
           sessions' = sessions \/ PutSession(h),
           \/ lease' = lease
           \/ /\ rpc[h].pc \in releasingSteps
              /\ lease' = [lease EXCEPT ![rpc[h].sid] = NoSlot],
           ending' = ending,
           \/ Return(h)
           \/ \E pc \in Steps \ {"create.put"} :
                /\ Goto(h, pc)
                /\ pc \in releasingSteps => rpc[h].pc \in releasingSteps
                /\ rpc[h].pc = "create.put" => PutSession(h)
    PROVE  LeaseUnique' /\ UnendedKeepsSlot' /\ CallsIndex'
  <1>a. TypeOK /\ CallIndex(h)
    BY DEF IndexInv, CallsIndex
  <1>b. rpc[h].sid \in Sessions /\ rpc[h].rec \in SessionRecord
    BY <1>a, BusyCall
  <1>1. PICK x \in Sessions : x = rpc[h].sid
    BY <1>b
  <1>2. PICK rec \in SessionRecord : rec = rpc[h].rec
    BY <1>b
  <1>3. rec # Absent
    BY RegistryAssumption
  <1>4. /\ \A s \in Sessions \ {x} : sessions'[s] = sessions[s]
        /\ sessions'[x] = sessions[x] \/ sessions'[x] = rec
        /\ PutSession(h) => sessions'[x] = rec
    BY <1>a, <1>1, <1>2 DEF PutSession, TypeOK
  <1>5. stored(x) => rec.Index = sessions[x].Index
    BY <1>a, <1>1, <1>2 DEF CallIndex
  <1>6. stored(x) => stored(x)' /\ sessions'[x].Index = sessions[x].Index
    BY <1>3, <1>4, <1>5 DEF stored
  <1>7. /\ \A s \in Sessions \ {x} : lease'[s] = lease[s]
        /\ lease'[x] = lease[x] \/ (lease'[x] = NoSlot /\ x \in ending)
    BY <1>a, <1>1 DEF TypeOK, LeaseTypeOK, CallIndex
  <1>8. stored(x)' /\ x \notin ending' => lease'[x] = sessions'[x].Index
    <2>1. CASE stored(x)
      BY <1>6, <1>7, <2>1 DEF IndexInv, UnendedKeepsSlot
    <2>2. CASE ~stored(x)
      <3>1. rpc[h].pc = "create.put"
        BY <1>a, <1>1, <2>2 DEF CallIndex
      <3>2. lease[x] = rec.Index
        BY <1>a, <1>1, <1>2, <3>1 DEF CallIndex
      <3> QED BY <1>4, <1>7, <2>2, <3>2 DEF stored
    <2> QED BY <2>1, <2>2
  <1>9. lease'[x] # NoSlot => \A s \in Sessions \ {x} : lease'[x] # lease[s]
    BY <1>7 DEF IndexInv, LeaseUnique
  <1>10. CASE Return(h)
    <2>1. ~busy(h)' /\ \A g \in Handlers \ {h} : rpc'[g] = rpc[g]
      BY <1>a, <1>10, RpcEffect
    <2> QED BY <1>1, <1>4, <1>6, <1>7, <1>8, <1>9, <2>1, TouchOne
  <1>11. ASSUME NEW pc \in Steps \ {"create.put"}, Goto(h, pc),
                pc \in releasingSteps => rpc[h].pc \in releasingSteps,
                rpc[h].pc = "create.put" => PutSession(h)
         PROVE  LeaseUnique' /\ UnendedKeepsSlot' /\ CallsIndex'
    <2>1. /\ rpc'[h].pc = pc /\ rpc'[h].sid = x /\ rpc'[h].rec = rec
          /\ \A g \in Handlers \ {h} : rpc'[g] = rpc[g]
      BY <1>a, <1>1, <1>2, <1>11, RpcEffect
    <2>2. sessions'[x] # Absent /\ rec.Index = sessions'[x].Index
      <3>1. CASE stored(x)
        BY <1>5, <1>6, <3>1 DEF stored
      <3>2. CASE ~stored(x)
        BY <1>a, <1>1, <1>3, <1>4, <1>11, <3>2 DEF CallIndex
      <3> QED BY <3>1, <3>2
    <2>3. pc \in releasingSteps => x \in ending'
      BY <1>a, <1>1, <1>11 DEF CallIndex
    <2>4. CallIndex(h)'
      BY <2>1, <2>2, <2>3 DEF CallIndex, stored
    <2> QED BY <1>1, <1>4, <1>6, <1>7, <1>8, <1>9, <2>1, <2>4, TouchOne
  <1> QED BY <1>10, <1>11

\* The later steps of a call keep the invariant.
LEMMA ContinueIndex ==
    ASSUME IndexInv, NEW h \in Handlers, Continue(h)
    PROVE  LeaseUnique' /\ UnendedKeepsSlot' /\ CallsIndex'
  <1> USE DEF At, Steps, releasingSteps, leaseVars, Release
  <1>1. CASE CreateSessionPut(h)
    BY <1>1, StepOnCall DEF CreateSessionPut
  <1>2. CASE CreateSessionKey(h)
    BY <1>2, StepOnCall DEF CreateSessionKey
  <1>3. CASE TerminateSessionPut(h)
    BY <1>3, StepOnCall DEF TerminateSessionPut
  <1>4. CASE TerminateSessionRelay(h)
    BY <1>4, StepOnCall DEF TerminateSessionRelay
  <1>5. CASE TerminateSessionCandidates(h)
    BY <1>5, StepOnCall DEF TerminateSessionCandidates
  <1>6. CASE TerminateSessionReclaim(h)
    BY <1>6, StepOnCall DEF TerminateSessionReclaim
  <1>7. CASE UpdateSessionStatusReclaim(h)
    BY <1>7, StepOnCall DEF UpdateSessionStatusReclaim
  <1>8. CASE UpdateSessionStatusPut(h)
    BY <1>8, StepOnCall DEF UpdateSessionStatusPut
  <1>9. CASE ReportConnectionResultRelay(h)
    BY <1>9, StepOnCall DEF ReportConnectionResultRelay
  <1>10. CASE ReportConnectionResultPut(h)
    BY <1>10, StepOnCall DEF ReportConnectionResultPut
  <1> QED BY <1>1, <1>2, <1>3, <1>4, <1>5, <1>6, <1>7, <1>8, <1>9, <1>10 DEF Continue

\* The registry starts with the invariant.
LEMMA InitIndex == Init => IndexInv
  BY InitType DEF Init, LeaseInit, IndexInv, LeaseUnique, UnendedKeepsSlot, CallsIndex,
                  stored, busy

\* Every step keeps it, as long as no record outlives its allocation in a restart.
LEMMA NextIndex ==
    ASSUME SharedRecords \/ MaxRestarts = 0
    PROVE  IndexInv /\ [Next]_vars => IndexInv'
  <1> SUFFICES ASSUME IndexInv, [Next]_vars
               PROVE  LeaseUnique' /\ UnendedKeepsSlot' /\ CallsIndex'
    BY NextType DEF IndexInv
  <1>1. ASSUME NEW h \in Handlers, NEW how \in PutFailures, PutSessionFails(h, how)
        PROVE  LeaseUnique' /\ UnendedKeepsSlot' /\ CallsIndex'
    BY <1>1, StepOnCall DEF PutSessionFails, leaseVars
  <1>2. ASSUME UNCHANGED <<sessions, rpc, lease, ending>>
        PROVE  LeaseUnique' /\ UnendedKeepsSlot' /\ CallsIndex'
    BY <1>2 DEF IndexInv, LeaseUnique, UnendedKeepsSlot, CallsIndex, CallIndex, stored, busy
  <1>3. ASSUME NEW s \in Sessions,
               ReapIdleSession(s) \/ \E p \in Peers : ExchangeCandidates(s, p)
        PROVE  LeaseUnique' /\ UnendedKeepsSlot' /\ CallsIndex'
    BY <1>2, <1>3 DEF ReapIdleSession, ExchangeCandidates, leaseVars
  <1>4. CASE Restart
    <2>1. SharedRecords
      BY <1>4 DEF Restart, IndexInv, TypeOK
    <2>2. \A s \in Sessions : ~stored(s)' /\ lease'[s] = NoSlot
      BY <1>4, <2>1 DEF Restart, stored
    <2>3. \A h \in Handlers : ~busy(h)'
      BY <1>4 DEF Restart, busy
    <2> QED BY <2>2, <2>3 DEF LeaseUnique, UnendedKeepsSlot, CallsIndex
  <1>5. CASE UNCHANGED vars
    BY <1>2, <1>5 DEF vars, leaseVars
  <1> QED BY <1>1, <1>3, <1>4, <1>5, RequestIndex, ContinueIndex DEF Next

\* Sessions that are stored and that nobody has asked to terminate have
\* different tunnel indices, and different indices are different addresses.
LEMMA UniqueFromIndex == IndexInv => UniqueTunnelIPs
  <1> SUFFICES ASSUME IndexInv, NEW s \in Sessions, NEW t \in Sessions, s # t,
                      stored(s), s \notin ending, stored(t), t \notin ending
               PROVE  sessions[s].Index # sessions[t].Index
    BY DEF UniqueTunnelIPs
  <1>1. lease[s] = sessions[s].Index /\ lease[t] = sessions[t].Index
    BY DEF IndexInv, UnendedKeepsSlot
  <1>2. sessions[s] \in SessionRecord
    BY DEF IndexInv, TypeOK, stored
  <1>3. sessions[s].Index \in tunnelIndex
    BY <1>2 DEF SessionRecord
  <1>4. lease[s] # NoSlot
    BY <1>1, <1>3, IndexAssumption
  <1> QED BY <1>1, <1>4 DEF IndexInv, LeaseUnique

\* A stored session nobody has asked to terminate holds exactly the index its record
\* shows, whatever calls overlap and whichever PutSession fails or only seems to: no
\* call on another session, and no stale record, takes it away.  Restarts are excluded
\* with PostgresStore, whose records outlive the allocations.
THEOREM UnendedKeeps ==
    ASSUME SharedRecords \/ MaxRestarts = 0
    PROVE  Spec => []UnendedKeepsSlot
  <1>1. IndexInv => UnendedKeepsSlot
    BY DEF IndexInv
  <1>2. IndexInv /\ [Next]_vars => IndexInv'
    BY NextIndex
  <1> QED BY <1>1, <1>2, InitIndex, PTL DEF Spec

\* allocateTunnelIPs "assigns unique per-session tunnel IPs": in the same
\* circumstances no two such sessions show the same index.
THEOREM RegistryUniqueIPs ==
    ASSUME SharedRecords \/ MaxRestarts = 0
    PROVE  Spec => []UniqueTunnelIPs
  <1>1. IndexInv => UniqueTunnelIPs
    BY UniqueFromIndex
  <1>2. IndexInv /\ [Next]_vars => IndexInv'
    BY NextIndex
  <1> QED BY <1>1, <1>2, InitIndex, PTL DEF Spec
-----------------------------------------------------------------------------
(***************************************************************************)
(* Running sessions have an endpoint.  The records that calls have in hand *)
(* are the ones they store later, so the same must hold of them.           *)
(***************************************************************************)
complete(rec) ==
    rec.Status = "running" => rec.WGEndpoint /\ rec.ConnectionMode # ""

CopiesComplete == \A h \in Handlers : busy(h) => complete(rpc[h].rec)

EndpointInv == TypeOK /\ RunningHasEndpoint /\ CopiesComplete

\* What each call makes of a complete record.
LEMMA StaysComplete ==
    ASSUME NEW rec \in SessionRecord, complete(rec)
    PROVE  /\ complete([rec EXCEPT !.Status = "terminated", !.TerminatedAt = TRUE])
           /\ \A mode \in {"relay", "holepunch"} :
                complete([rec EXCEPT !.ConnectionMode = mode])
           /\ \A req \in StatusRequest :
                ~rejectedUpdate(req) => complete(updatedSession(rec, req))
  <1>1. complete([rec EXCEPT !.Status = "terminated", !.TerminatedAt = TRUE])
    BY DEF complete, SessionRecord
  <1>2. ASSUME NEW mode \in {"relay", "holepunch"}
        PROVE  complete([rec EXCEPT !.ConnectionMode = mode])
    BY DEF complete, SessionRecord
  <1>3. ASSUME NEW req \in StatusRequest, ~rejectedUpdate(req)
        PROVE  complete(updatedSession(rec, req))
    <2> DEFINE new == updatedSession(rec, req)
    <2> SUFFICES ASSUME new.Status = "running"
                 PROVE  new.WGEndpoint /\ new.ConnectionMode # ""
      BY DEF complete
    <2>1. new.Status = req.Status
      BY DEF updatedSession, SessionRecord
    <2>2. req.WgEndpoint
      BY <1>3, <2>1 DEF rejectedUpdate, StatusRequest
    <2>3. new.WGEndpoint = (rec.WGEndpoint \/ req.WgEndpoint)
      BY DEF updatedSession, SessionRecord
    <2>4. new.ConnectionMode = IF rec.ConnectionMode = "" THEN "direct"
                               ELSE rec.ConnectionMode
      BY <2>1, <2>2 DEF updatedSession, SessionRecord
    <2> QED BY <2>2, <2>3, <2>4
  <1> QED BY <1>1, <1>2, <1>3

\* A call that begins with a complete record.
LEMMA BeginComplete ==
    ASSUME EndpointInv, TypeOK', sessions' = sessions, NEW h \in Handlers,
           NEW pc, NEW s, NEW rec, NEW key, Begin(h, pc, s, rec, key), complete(rec)
    PROVE  EndpointInv'
  <1>1. /\ rpc'[h] = [pc |-> pc, sid |-> s, rec |-> rec, key |-> key]
        /\ \A g \in Handlers \ {h} : rpc'[g] = rpc[g]
    BY DEF Begin, EndpointInv, TypeOK
  <1>2. rpc'[h].rec = rec
    BY <1>1
  <1>3. ASSUME NEW g \in Handlers, busy(g)' PROVE complete(rpc[g].rec)'
    <2>1. CASE g = h
      BY <1>2, <2>1 DEF complete
    <2>2. CASE g # h
      BY <1>1, <1>3, <2>2 DEF EndpointInv, CopiesComplete, busy, complete
    <2> QED BY <2>1, <2>2
  <1>4. CopiesComplete'
    BY <1>3 DEF CopiesComplete
  <1> QED BY <1>4 DEF EndpointInv, RunningHasEndpoint, stored

\* The store keeps what it has or takes the record of a call, and the calls keep
\* theirs or end.
LEMMA KeepsComplete ==
    ASSUME EndpointInv, TypeOK',
           \/ sessions' = sessions
           \/ \E h \in Handlers : busy(h) /\ PutSession(h),
           \A g \in Handlers : busy(g)' => busy(g) /\ rpc'[g].rec = rpc[g].rec
    PROVE  EndpointInv'
  <1>1. CopiesComplete'
    BY DEF EndpointInv, CopiesComplete, complete
  <1>2. CASE sessions' = sessions
    BY <1>1, <1>2 DEF EndpointInv, RunningHasEndpoint, stored
  <1>3. ASSUME NEW h \in Handlers, busy(h), PutSession(h)
        PROVE  EndpointInv'
    <2>1. rpc[h].sid \in Sessions /\ complete(rpc[h].rec)
      BY <1>3, BusyCall DEF EndpointInv, CopiesComplete
    <2>2. /\ sessions'[rpc[h].sid] = rpc[h].rec
          /\ \A s \in Sessions \ {rpc[h].sid} : sessions'[s] = sessions[s]
      BY <1>3, <2>1 DEF PutSession, EndpointInv, TypeOK
    <2>3. RunningHasEndpoint'
      <3> SUFFICES ASSUME NEW s \in Sessions, stored(s)', sessions'[s].Status = "running"
                   PROVE  sessions'[s].WGEndpoint /\ sessions'[s].ConnectionMode # ""
        BY DEF RunningHasEndpoint
      <3>1. CASE s = rpc[h].sid
        BY <2>1, <2>2, <3>1 DEF complete
      <3>2. CASE s # rpc[h].sid
        BY <2>2, <3>2 DEF EndpointInv, RunningHasEndpoint, stored
      <3> QED BY <3>1, <3>2
    <2> QED BY <1>1, <2>3 DEF EndpointInv
  <1> QED BY <1>2, <1>3

\* Every step.
LEMMA NextComplete ==
    ASSUME ~SharedRecords, EndpointInv, [Next]_vars
    PROVE  EndpointInv'
  <1>1. TypeOK /\ TypeOK'
    BY NextType DEF EndpointInv
  <1>2. ASSUME NEW s \in Sessions, stored(s)
        PROVE  sessions[s] \in SessionRecord /\ complete(sessions[s])
    BY <1>1, <1>2 DEF EndpointInv, TypeOK, RunningHasEndpoint, stored, complete
  <1>3. ASSUME NEW h \in Handlers, NEW s \in Sessions, NEW key \in BOOLEAN,
               CreateSession(h, s, key)
        PROVE  EndpointInv'
    <2>1. Begin(h, "create.put", s, newSession(lease'[s]), key) /\ sessions' = sessions
      BY <1>3 DEF CreateSession
    <2>2. complete(newSession(lease'[s]))
      BY DEF complete, newSession
    <2> QED BY <1>1, <2>1, <2>2, BeginComplete
  <1>4. ASSUME NEW h \in Handlers, NEW s \in Sessions, TerminateSession(h, s)
        PROVE  EndpointInv'
    <2> DEFINE rec == [sessions[s] EXCEPT !.Status = "terminated", !.TerminatedAt = TRUE]
    <2>1. Begin(h, "terminate.put", s, rec, FALSE) /\ sessions' = sessions /\ stored(s)
      BY <1>4 DEF TerminateSession, AssignFields
    <2>2. complete(rec)
      BY <1>2, <2>1, StaysComplete
    <2> HIDE DEF rec
    <2> QED BY <1>1, <2>1, <2>2, BeginComplete
  <1>5. ASSUME NEW h \in Handlers, NEW s \in Sessions, NEW req \in StatusRequest,
               UpdateSessionStatus(h, s, req)
        PROVE  EndpointInv'
    <2> DEFINE rec == updatedSession(sessions[s], req)
               pc  == IF req.Status = "terminated" /\ sessions[s].Status # "terminated"
                      THEN "update.reclaim" ELSE "update.put"
    <2>1. Begin(h, pc, s, rec, FALSE) /\ sessions' = sessions /\ stored(s)
      BY <1>5 DEF UpdateSessionStatus, AssignFields
    <2>2. complete(rec)
      BY <1>2, <1>5, <2>1, StaysComplete DEF UpdateSessionStatus
    <2> HIDE DEF rec, pc
    <2> QED BY <1>1, <2>1, <2>2, BeginComplete
  <1>6. ASSUME NEW h \in Handlers, NEW s \in Sessions, NEW useRelay \in BOOLEAN,
               ReportConnectionResult(h, s, useRelay)
        PROVE  EndpointInv'
    <2> DEFINE mode == IF useRelay THEN "relay" ELSE "holepunch"
               rec == [sessions[s] EXCEPT !.ConnectionMode = mode]
               pc  == IF useRelay THEN "report.relay" ELSE "report.put"
    <2>1. Begin(h, pc, s, rec, FALSE) /\ sessions' = sessions /\ stored(s)
      BY <1>6 DEF ReportConnectionResult, AssignFields
    <2>2. complete(rec)
      <3>1. mode \in {"relay", "holepunch"}
        OBVIOUS
      <3> HIDE DEF mode
      <3> QED BY <1>2, <2>1, <3>1, StaysComplete
    <2> HIDE DEF rec, pc
    <2> QED BY <1>1, <2>1, <2>2, BeginComplete
  <1>7. ASSUME NEW h \in Handlers, NEW s \in Sessions,
               \/ CreateSessionExhausted(h, s)
               \/ \E req \in StatusRequest : UpdateSessionStatusRejected(h, s, req)
        PROVE  EndpointInv'
    <2>1. sessions' = sessions /\ rpc' = rpc
      BY <1>7 DEF CreateSessionExhausted, UpdateSessionStatusRejected, AssignFields
    <2> QED BY <1>1, <2>1, KeepsComplete DEF busy
  <1>8. ASSUME NEW h \in Handlers, Continue(h)
        PROVE  EndpointInv'
    <2>1. /\ busy(h)
          /\ sessions' = sessions \/ PutSession(h)
          /\ Return(h) \/ \E pc \in Steps : Goto(h, pc)
      BY <1>8 DEF Continue, CreateSessionPut, CreateSessionKey, TerminateSessionPut,
           TerminateSessionRelay, TerminateSessionCandidates, TerminateSessionReclaim,
           UpdateSessionStatusReclaim, UpdateSessionStatusPut,
           ReportConnectionResultRelay, ReportConnectionResultPut, At, Steps
    <2>2. \A g \in Handlers : busy(g)' => busy(g) /\ rpc'[g].rec = rpc[g].rec
      BY <1>1, <2>1, RpcEffect DEF busy
    <2> QED BY <1>1, <2>1, <2>2, KeepsComplete
  <1>9. ASSUME NEW h \in Handlers, NEW how \in PutFailures, PutSessionFails(h, how)
        PROVE  EndpointInv'
    <2>1. busy(h) /\ Return(h) /\ (sessions' = sessions \/ PutSession(h))
      BY <1>9 DEF PutSessionFails
    <2>2. \A g \in Handlers : busy(g)' => busy(g) /\ rpc'[g].rec = rpc[g].rec
      BY <1>1, <2>1, RpcEffect DEF busy
    <2> QED BY <1>1, <2>1, <2>2, KeepsComplete
  <1>10. CASE \/ \E s \in Sessions, p \in Peers : ExchangeCandidates(s, p)
              \/ \E s \in Sessions : ReapIdleSession(s)
              \/ UNCHANGED vars
    <2>1. sessions' = sessions /\ rpc' = rpc
      BY <1>10 DEF ExchangeCandidates, ReapIdleSession, vars
    <2> QED BY <1>1, <2>1, KeepsComplete DEF busy
  <1>11. CASE Restart
    <2>1. sessions' = sessions /\ \A g \in Handlers : ~busy(g)'
      BY <1>11 DEF Restart, busy
    <2> QED BY <1>1, <2>1, KeepsComplete
  <1> QED BY <1>3, <1>4, <1>5, <1>6, <1>7, <1>8, <1>9, <1>10, <1>11 DEF Next

\* With PostgresStore, and whatever calls overlap, writes fail and restarts come in
\* between, a session shown as running has an endpoint and a connection mode: the
\* check of UpdateSessionStatus cannot be undone by another call's write.
THEOREM RunningComplete ==
    ASSUME ~SharedRecords
    PROVE  Spec => []RunningHasEndpoint
  <1>1. Init => EndpointInv
    BY InitType DEF Init, EndpointInv, RunningHasEndpoint, CopiesComplete, stored, busy
  <1>2. EndpointInv /\ [Next]_vars => EndpointInv'
    BY NextComplete
  <1>3. EndpointInv => RunningHasEndpoint
    BY DEF EndpointInv
  <1> QED BY <1>1, <1>2, <1>3, PTL DEF Spec
-----------------------------------------------------------------------------
(***************************************************************************)
(* Outcomes of terminated sessions are recorded.  A record in hand may be  *)
(* stored after the outcome of its session was.  MemoryStore shows a       *)
(* termination as soon as the call has set the field.                      *)
(***************************************************************************)
\* The call of h is about to record the outcome of its session.
recording(h) ==
    /\ busy(h)
    /\ \/ rpc[h].pc = "terminate.relay"
       \/ SharedRecords /\ rpc[h].pc \in {"terminate.put", "update.reclaim"}

Recorded(s) == s \in outcomes \/ \E h \in Handlers : recording(h) /\ rpc[h].sid = s

\* A terminated record in hand has its time, and if it is going to be stored by
\* another call than the one that terminates, the outcome is recorded.
CopyRecorded(h) ==
    /\ rpc[h].pc = "create.put" => rpc[h].rec.Status = "pending"
    /\ rpc[h].rec.Status = "terminated" => rpc[h].rec.TerminatedAt
    /\ rpc[h].rec.Status = "terminated"
       /\ rpc[h].pc \in {"update.put", "report.relay", "report.put"}
        => Recorded(rpc[h].sid)

\* What TerminatedRecorded says of one session.
fineRecord(s) ==
    stored(s) /\ sessions[s].Status = "terminated"
        => sessions[s].TerminatedAt /\ Recorded(s)

RecordInv ==
    /\ TypeOK /\ \A s \in Sessions : fineRecord(s)
    /\ \A h \in Handlers : busy(h) => CopyRecorded(h)

\* fineRecord of every session is TerminatedRecorded.
LEMMA FineRecords == (\A s \in Sessions : fineRecord(s)) => TerminatedRecorded
  <1> SUFFICES ASSUME NEW s \in Sessions, Recorded(s)
               PROVE  \/ s \in outcomes
                      \/ Working(s, {"terminate.relay"})
                      \/ SharedRecords /\ Working(s, {"terminate.put", "update.reclaim"})
    BY DEF fineRecord, TerminatedRecorded
  <1> QED BY DEF Recorded, recording, Working

\* A step of h that records what it was about to record keeps the invariant if the
\* record it stores and the one it has in hand are fine.
LEMMA RecordStep ==
    ASSUME RecordInv, TypeOK', NEW h \in Handlers,
           \A g \in Handlers \ {h} : rpc'[g] = rpc[g],
           outcomes \subseteq outcomes',
           \A s \in Sessions : recording(h) /\ rpc[h].sid = s => Recorded(s)',
           \A s \in Sessions : sessions'[s] = sessions[s] \/ fineRecord(s)',
           busy(h)' => CopyRecorded(h)'
    PROVE  RecordInv'
  <1>1. ASSUME NEW s \in Sessions, Recorded(s) PROVE Recorded(s)'
    <2>1. CASE s \in outcomes
      BY <2>1 DEF Recorded
    <2>2. ASSUME NEW g \in Handlers, recording(g), rpc[g].sid = s
          PROVE  Recorded(s)'
      <3>1. CASE g = h
        BY <2>2, <3>1
      <3>2. CASE g # h
        BY <2>2, <3>2 DEF Recorded, recording, busy
      <3> QED BY <3>1, <3>2
    <2> QED BY <1>1, <2>1, <2>2 DEF Recorded
  <1>2. ASSUME NEW g \in Handlers, busy(g)' PROVE CopyRecorded(g)'
    <2>1. CASE g # h
      <3>1. rpc'[g] = rpc[g] /\ busy(g) /\ CopyRecorded(g)
        BY <1>2, <2>1 DEF RecordInv, busy
      <3>2. rpc[g].sid \in Sessions
        BY <3>1, BusyCall DEF RecordInv
      <3> QED BY <1>1, <3>1, <3>2 DEF CopyRecorded
    <2> QED BY <1>2, <2>1
  <1>3. ASSUME NEW s \in Sessions, sessions'[s] = sessions[s]
        PROVE  fineRecord(s)'
    <2>1. fineRecord(s)
      BY DEF RecordInv
    <2> QED BY <1>1, <1>3, <2>1 DEF fineRecord, stored
  <1> QED BY <1>2, <1>3 DEF RecordInv

\* The call that begins has a record that is fine.
LEMMA BeginRecords ==
    ASSUME RecordInv, TypeOK', NEW h \in Handlers, outcomes' = outcomes,
           NEW pc, NEW s \in Sessions, NEW rec, NEW key,
           Begin(h, pc, s, rec, key), busy(h)',
           sessions' = sessions \/ AssignFields(s, rec),
           pc = "create.put" => rec.Status = "pending",
           rec.Status = "terminated" => rec.TerminatedAt,
           rec.Status = "terminated" => pc \in {"terminate.put", "update.reclaim"} \/ Recorded(s)
    PROVE  RecordInv'
  <1>1. /\ ~busy(h)
        /\ rpc'[h] = [pc |-> pc, sid |-> s, rec |-> rec, key |-> key]
        /\ \A g \in Handlers \ {h} : rpc'[g] = rpc[g]
    BY DEF Begin, RecordInv, TypeOK
  <1>2. rpc'[h].pc = pc /\ rpc'[h].sid = s /\ rpc'[h].rec = rec
    BY <1>1
  <1>3. Recorded(s) => Recorded(s)'
    <2>1. \A g \in Handlers : busy(g) => busy(g)' /\ rpc'[g] = rpc[g]
      BY <1>1 DEF busy
    <2> QED BY <2>1 DEF Recorded, recording
  <1>4. CopyRecorded(h)'
    BY <1>2, <1>3 DEF CopyRecorded
  <1>5. ~recording(h)
    BY <1>1 DEF recording
  <1>6. \A t \in Sessions : sessions'[t] = sessions[t] \/ fineRecord(t)'
    <2>1. CASE sessions' = sessions
      BY <2>1
    <2>2. CASE SharedRecords /\ sessions' = [sessions EXCEPT ![s] = rec]
      <3>1. sessions'[s] = rec /\ \A t \in Sessions \ {s} : sessions'[t] = sessions[t]
        BY <2>2 DEF RecordInv, TypeOK
      <3>2. pc \in {"terminate.put", "update.reclaim"} => Recorded(s)'
        BY <1>2, <2>2 DEF Recorded, recording
      <3>3. fineRecord(s)'
        BY <1>3, <3>1, <3>2 DEF fineRecord
      <3> QED BY <3>1, <3>3
    <2> QED BY <2>1, <2>2 DEF AssignFields
  <1> QED BY <1>1, <1>4, <1>5, <1>6, RecordStep

\* The new calls.
LEMMA RequestRecords ==
    ASSUME RecordInv, TypeOK', NEW h \in Handlers, NEW s \in Sessions,
           \/ \E key \in BOOLEAN : CreateSession(h, s, key)
           \/ TerminateSession(h, s)
           \/ \E req \in StatusRequest : UpdateSessionStatus(h, s, req)
           \/ \E useRelay \in BOOLEAN : ReportConnectionResult(h, s, useRelay)
    PROVE  RecordInv'
  <1>1. ASSUME stored(s)
        PROVE  /\ sessions[s] \in SessionRecord
               /\ sessions[s].Status = "terminated" => sessions[s].TerminatedAt /\ Recorded(s)
    BY <1>1 DEF RecordInv, TypeOK, fineRecord, stored
  <1>b. busy(h)'
    BY RequestEffect DEF RecordInv
  <1>2. ASSUME NEW key \in BOOLEAN, CreateSession(h, s, key)
        PROVE  RecordInv'
    <2>1. /\ Begin(h, "create.put", s, newSession(lease'[s]), key)
          /\ sessions' = sessions /\ outcomes' = outcomes
      BY <1>2 DEF CreateSession
    <2>2. newSession(lease'[s]).Status = "pending"
      BY DEF newSession
    <2> QED BY <1>b, <2>1, <2>2, BeginRecords
  <1>3. CASE TerminateSession(h, s)
    <2> DEFINE rec == [sessions[s] EXCEPT !.Status = "terminated", !.TerminatedAt = TRUE]
    <2>1. /\ Begin(h, "terminate.put", s, rec, FALSE) /\ stored(s)
          /\ AssignFields(s, rec) /\ outcomes' = outcomes
      BY <1>3 DEF TerminateSession
    <2>2. rec.TerminatedAt
      BY <1>1, <2>1 DEF SessionRecord
    <2> HIDE DEF rec
    <2> QED BY <1>b, <2>1, <2>2, BeginRecords
  <1>4. ASSUME NEW req \in StatusRequest, UpdateSessionStatus(h, s, req)
        PROVE  RecordInv'
    <2> DEFINE rec == updatedSession(sessions[s], req)
               pc  == IF req.Status = "terminated" /\ sessions[s].Status # "terminated"
                      THEN "update.reclaim" ELSE "update.put"
    <2>1. /\ Begin(h, pc, s, rec, FALSE) /\ stored(s)
          /\ AssignFields(s, rec) /\ outcomes' = outcomes
      BY <1>4 DEF UpdateSessionStatus
    <2>2. /\ rec.Status = req.Status
          /\ rec.TerminatedAt = (\/ sessions[s].TerminatedAt
                                 \/ req.Status = "terminated" /\ sessions[s].Status # "terminated")
      BY <1>1, <2>1 DEF updatedSession, SessionRecord
    <2>3. rec.Status = "terminated" => rec.TerminatedAt
      BY <1>1, <2>1, <2>2
    <2>4. rec.Status = "terminated" /\ pc = "update.put" => Recorded(s)
      BY <1>1, <2>1, <2>2
    <2>5. pc \in {"update.reclaim", "update.put"}
      OBVIOUS
    <2> HIDE DEF rec, pc
    <2> QED BY <1>b, <2>1, <2>3, <2>4, <2>5, BeginRecords
  <1>5. ASSUME NEW useRelay \in BOOLEAN, ReportConnectionResult(h, s, useRelay)
        PROVE  RecordInv'
    <2> DEFINE rec == [sessions[s] EXCEPT
                            !.ConnectionMode = IF useRelay THEN "relay" ELSE "holepunch"]
               pc  == IF useRelay THEN "report.relay" ELSE "report.put"
    <2>1. /\ Begin(h, pc, s, rec, FALSE) /\ stored(s)
          /\ AssignFields(s, rec) /\ outcomes' = outcomes
      BY <1>5 DEF ReportConnectionResult
    <2>2. rec.Status = sessions[s].Status /\ rec.TerminatedAt = sessions[s].TerminatedAt
      BY <1>1, <2>1 DEF SessionRecord
    <2>3. pc # "create.put"
      OBVIOUS
    <2> HIDE DEF rec, pc
    <2> QED BY <1>1, <1>b, <2>1, <2>2, <2>3, BeginRecords
  <1> QED BY <1>2, <1>3, <1>4, <1>5

\* The later steps.
LEMMA ContinueRecords ==
    ASSUME RecordInv, TypeOK', NEW h \in Handlers, Continue(h)
    PROVE  RecordInv'
  <1>1. busy(h)
    BY ContinueEffect DEF RecordInv
  <1>2. /\ TypeOK /\ CopyRecorded(h) /\ rpc[h].sid \in Sessions
        /\ rpc[h].rec \in SessionRecord
    BY <1>1, BusyCall DEF RecordInv
  <1>s. PICK s \in Sessions : rpc[h].sid = s
    BY <1>2
  <1>3. ASSUME NEW pc \in Steps, Goto(h, pc)
        PROVE  /\ busy(h)' /\ rpc'[h].pc = pc
               /\ rpc'[h].sid = rpc[h].sid /\ rpc'[h].rec = rpc[h].rec
               /\ \A g \in Handlers \ {h} : rpc'[g] = rpc[g]
    BY <1>1, <1>2, <1>3, RpcEffect
  <1>4. Return(h) => ~busy(h)' /\ \A g \in Handlers \ {h} : rpc'[g] = rpc[g]
    BY <1>2, RpcEffect
  <1>5. ASSUME Recorded(s), ~recording(h), outcomes' = outcomes,
               \A g \in Handlers \ {h} : rpc'[g] = rpc[g]
        PROVE  Recorded(s)'
    BY <1>5 DEF Recorded, recording, busy
  <1>p. ASSUME PutSession(h),
               rpc[h].rec.Status = "terminated" => rpc[h].rec.TerminatedAt /\ Recorded(s)'
        PROVE  \A t \in Sessions : sessions'[t] = sessions[t] \/ fineRecord(t)'
    <2>1. sessions'[s] = rpc[h].rec /\ \A t \in Sessions \ {s} : sessions'[t] = sessions[t]
      BY <1>2, <1>p, <1>s DEF PutSession, TypeOK
    <2>2. fineRecord(s)'
      BY <1>p, <2>1 DEF fineRecord
    <2> QED BY <2>1, <2>2
  <1>6. CASE CreateSessionPut(h)
    <2>1. /\ PutSession(h) /\ rpc[h].rec.Status = "pending" /\ outcomes' = outcomes
          /\ ~recording(h)
          /\ Goto(h, "create.key") \/ Return(h)
      BY <1>2, <1>6 DEF CreateSessionPut, At, CopyRecorded, recording
    <2>2. CASE Goto(h, "create.key")
      <3>1. CopyRecorded(h)' /\ \A g \in Handlers \ {h} : rpc'[g] = rpc[g]
        BY <1>3, <2>1, <2>2 DEF CopyRecorded, Steps
      <3> QED BY <1>p, <2>1, <3>1, RecordStep
    <2>3. CASE Return(h)
      BY <1>4, <1>p, <2>1, <2>3, RecordStep
    <2> QED BY <2>1, <2>2, <2>3
  <1>7. CASE CreateSessionKey(h) \/ TerminateSessionReclaim(h)
    <2>1. /\ sessions' = sessions /\ outcomes' = outcomes /\ Return(h)
          /\ ~recording(h)
      BY <1>7 DEF CreateSessionKey, TerminateSessionReclaim, At, recording
    <2> QED BY <1>4, <2>1, RecordStep
  <1>8. CASE TerminateSessionPut(h)
    <2>1. PutSession(h) /\ outcomes' = outcomes /\ Goto(h, "terminate.relay")
      BY <1>8 DEF TerminateSessionPut
    <2>2. /\ busy(h)' /\ rpc'[h].pc = "terminate.relay"
          /\ rpc'[h].sid = rpc[h].sid /\ rpc'[h].rec = rpc[h].rec
          /\ \A g \in Handlers \ {h} : rpc'[g] = rpc[g]
      BY <1>3, <2>1 DEF Steps
    <2>3. Recorded(s)'
      BY <1>s, <2>2 DEF Recorded, recording
    <2>4. CopyRecorded(h)'
      BY <1>2, <2>2 DEF CopyRecorded
    <2>5. rpc[h].rec.Status = "terminated" => rpc[h].rec.TerminatedAt
      BY <1>2 DEF CopyRecorded
    <2> QED BY <1>p, <1>s, <2>1, <2>2, <2>3, <2>4, <2>5, RecordStep
  <1>9. CASE TerminateSessionRelay(h)
    <2>1. /\ sessions' = sessions /\ outcomes' = outcomes \cup {rpc[h].sid}
          /\ Goto(h, "terminate.candidates")
      BY <1>9 DEF TerminateSessionRelay
    <2>2. CopyRecorded(h)' /\ \A g \in Handlers \ {h} : rpc'[g] = rpc[g]
      BY <1>2, <1>3, <2>1 DEF CopyRecorded, Steps
    <2>3. Recorded(s)'
      BY <1>s, <2>1 DEF Recorded
    <2> QED BY <1>s, <2>1, <2>2, <2>3, RecordStep
  <1>10. CASE TerminateSessionCandidates(h)
    <2>1. /\ sessions' = sessions /\ outcomes' = outcomes /\ ~recording(h)
          /\ Goto(h, "terminate.reclaim")
      BY <1>10 DEF TerminateSessionCandidates, At, recording
    <2>2. CopyRecorded(h)' /\ \A g \in Handlers \ {h} : rpc'[g] = rpc[g]
      BY <1>2, <1>3, <2>1 DEF CopyRecorded, Steps
    <2> QED BY <2>1, <2>2, RecordStep
  <1>11. CASE UpdateSessionStatusReclaim(h)
    <2>1. /\ sessions' = sessions /\ outcomes' = outcomes \cup {rpc[h].sid}
          /\ Goto(h, "update.put")
      BY <1>11 DEF UpdateSessionStatusReclaim
    <2>2. Recorded(s)'
      BY <1>s, <2>1 DEF Recorded
    <2>3. CopyRecorded(h)' /\ \A g \in Handlers \ {h} : rpc'[g] = rpc[g]
      BY <1>2, <1>3, <1>s, <2>1, <2>2 DEF CopyRecorded, Steps
    <2> QED BY <1>s, <2>1, <2>2, <2>3, RecordStep
  <1>12. CASE ReportConnectionResultRelay(h)
    <2>1. /\ sessions' = sessions /\ outcomes' = outcomes /\ ~recording(h)
          /\ rpc[h].pc = "report.relay" /\ Goto(h, "report.put")
      BY <1>12 DEF ReportConnectionResultRelay, At, recording
    <2>2. /\ rpc'[h].pc = "report.put" /\ rpc'[h].sid = rpc[h].sid
          /\ rpc'[h].rec = rpc[h].rec /\ \A g \in Handlers \ {h} : rpc'[g] = rpc[g]
      BY <1>3, <2>1 DEF Steps
    <2>3. rpc[h].rec.Status = "terminated" => Recorded(s)'
      BY <1>2, <1>5, <1>s, <2>1, <2>2 DEF CopyRecorded
    <2>4. CopyRecorded(h)'
      BY <1>2, <1>s, <2>2, <2>3 DEF CopyRecorded
    <2> QED BY <2>1, <2>2, <2>4, RecordStep
  <1>13. CASE UpdateSessionStatusPut(h) \/ ReportConnectionResultPut(h)
    <2>1. /\ PutSession(h) /\ outcomes' = outcomes /\ ~recording(h)
          /\ rpc[h].pc \in {"update.put", "report.put"} /\ Return(h)
      BY <1>13 DEF UpdateSessionStatusPut, ReportConnectionResultPut, At, recording
    <2>2. rpc[h].rec.Status = "terminated" =>
            rpc[h].rec.TerminatedAt /\ Recorded(s)'
      BY <1>2, <1>4, <1>5, <1>s, <2>1 DEF CopyRecorded
    <2> QED BY <1>4, <1>p, <2>1, <2>2, RecordStep
  <1> QED BY <1>6, <1>7, <1>8, <1>9, <1>10, <1>11, <1>12, <1>13 DEF Continue

\* Every step, as long as no failed write was applied and no record outlives the
\* process that was about to record its outcome.
LEMMA NextRecords ==
    ASSUME SharedRecords \/ MaxRestarts = 0, "applied" \notin PutFailures,
           RecordInv, [Next]_vars
    PROVE  RecordInv'
  <1>1. TypeOK /\ TypeOK'
    BY NextType DEF RecordInv
  <1>2. ASSUME NEW h \in Handlers, NEW s \in Sessions,
               \/ \E key \in BOOLEAN : CreateSession(h, s, key)
               \/ TerminateSession(h, s)
               \/ \E req \in StatusRequest : UpdateSessionStatus(h, s, req)
               \/ \E useRelay \in BOOLEAN : ReportConnectionResult(h, s, useRelay)
        PROVE  RecordInv'
    BY <1>1, <1>2, RequestRecords
  <1>3. ASSUME rpc' = rpc, outcomes' = outcomes,
               \A s \in Sessions : sessions'[s] = sessions[s] \/ sessions'[s].Status = "running"
        PROVE  RecordInv'
    <2>1. \A s \in Sessions : Recorded(s)' <=> Recorded(s)
      BY <1>3 DEF Recorded, recording, busy
    <2>2. \A s \in Sessions : fineRecord(s)'
      BY <1>3, <2>1 DEF RecordInv, fineRecord, stored
    <2>3. ASSUME NEW h \in Handlers, busy(h)' PROVE CopyRecorded(h)'
      <3>1. busy(h) /\ CopyRecorded(h)
        BY <1>3, <2>3 DEF RecordInv, busy
      <3>2. rpc[h].sid \in Sessions
        BY <1>1, <3>1, BusyCall
      <3> QED BY <1>3, <2>1, <3>1, <3>2 DEF CopyRecorded
    <2> QED BY <1>1, <2>2, <2>3 DEF RecordInv
  <1>4. ASSUME NEW h \in Handlers, NEW s \in Sessions, CreateSessionExhausted(h, s)
        PROVE  RecordInv'
    BY <1>3, <1>4 DEF CreateSessionExhausted
  <1>5. ASSUME NEW h \in Handlers, NEW s \in Sessions, NEW req \in StatusRequest,
               UpdateSessionStatusRejected(h, s, req)
        PROVE  RecordInv'
    <2> DEFINE rec == updatedSession(sessions[s], req)
    <2>1. /\ rpc' = rpc /\ outcomes' = outcomes /\ stored(s)
          /\ AssignFields(s, rec) /\ req.Status = "running"
      BY <1>5 DEF UpdateSessionStatusRejected, rejectedUpdate
    <2>2. rec.Status = "running"
      BY <1>1, <2>1 DEF updatedSession, TypeOK, stored, SessionRecord
    <2> HIDE DEF rec
    <2>3. \A t \in Sessions : sessions'[t] = sessions[t] \/ sessions'[t].Status = "running"
      BY <1>1, <2>1, <2>2 DEF AssignFields, TypeOK
    <2> QED BY <1>3, <2>1, <2>3
  <1>6. ASSUME NEW h \in Handlers, Continue(h)
        PROVE  RecordInv'
    BY <1>1, <1>6, ContinueRecords
  <1>7. ASSUME NEW h \in Handlers, NEW how \in PutFailures, PutSessionFails(h, how)
        PROVE  RecordInv'
    <2>1. ~SharedRecords
      BY <1>7, RegistryAssumption
    <2>2. /\ Return(h) /\ sessions' = sessions /\ outcomes' = outcomes
          /\ ~recording(h)
      BY <1>7, <2>1 DEF PutSessionFails, putSteps, recording
    <2>3. ~busy(h)' /\ \A g \in Handlers \ {h} : rpc'[g] = rpc[g]
      BY <1>1, <2>2, RpcEffect
    <2> QED BY <1>1, <2>2, <2>3, RecordStep
  <1>8. CASE \/ \E s \in Sessions, p \in Peers : ExchangeCandidates(s, p)
             \/ \E s \in Sessions : ReapIdleSession(s)
             \/ UNCHANGED vars
    BY <1>3, <1>8 DEF ExchangeCandidates, ReapIdleSession, vars
  <1>9. CASE Restart
    <2>1. SharedRecords
      BY <1>1, <1>9 DEF Restart, TypeOK
    <2>2. \A s \in Sessions : sessions'[s] = Absent
      BY <1>9, <2>1 DEF Restart
    <2>3. \A h \in Handlers : ~busy(h)'
      BY <1>9 DEF Restart, busy
    <2> QED BY <1>1, <2>2, <2>3 DEF RecordInv, fineRecord, stored
  <1> QED BY <1>2, <1>4, <1>5, <1>6, <1>7, <1>8, <1>9 DEF Next

\* A session shown as terminated has its time, and its outcome has been recorded or the
\* call at work is about to record it: UpdateSessionStatus records only on a first
\* termination, and that skips nobody's record.  A restart in between is excluded with
\* PostgresStore (MemoryStore's records do not survive it), and so is a write that is
\* applied and reported as failed.
THEOREM TerminationsRecorded ==
    ASSUME SharedRecords \/ MaxRestarts = 0, "applied" \notin PutFailures
    PROVE  Spec => []TerminatedRecorded
  <1>1. Init => RecordInv
    BY InitType DEF Init, RecordInv, fineRecord, stored, busy
  <1>2. RecordInv /\ [Next]_vars => RecordInv'
    BY NextRecords
  <1>3. RecordInv => TerminatedRecorded
    BY FineRecords DEF RecordInv
  <1> QED BY <1>1, <1>2, <1>3, PTL DEF Spec
=============================================================================
