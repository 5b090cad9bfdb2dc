------------------------------- MODULE Registry -------------------------------
(***************************************************************************)
(* The session RPCs of internal/registry/server.go.  gRPC runs each call   *)
(* in a goroutine of its own; the calls meet in the session store, in the  *)
(* candidate map, in the relay and in the tunnel allocator, each of which  *)
(* is atomic by itself.  A handler is a sequence of such steps, with the   *)
(* record it fetched in between: a handler that fetched a record writes    *)
(* back all of it, whatever others stored meanwhile.                       *)
(*                                                                         *)
(* A session's status, connection mode, WireGuard endpoint (set or not),   *)
(* termination time (set or not) and tunnel index are kept; the container  *)
(* ID, SSH endpoint and public key travel with the endpoint.  Checks that  *)
(* reject a call before it changes anything are no steps.                  *)
(***************************************************************************)
EXTENDS TunnelLeases

CONSTANTS
    Handlers,           \* RPC goroutines that can be in progress at once
    Peers, Renter,      \* ExchangeCandidates peer IDs; the session's renter
    Absent,             \* "no such record"
    SharedRecords,      \* MemoryStore hands out its own records (pointers),
                        \* PostgresStore hands out copies
    PutFailures,        \* how PutSession can fail: "lost", "applied"
    MaxRequests,        \* bound on the requests of a behaviour
    MaxRestarts         \* bound on registry restarts

VARIABLES
    sessions,           \* the store: session -> record, or Absent
    cand,               \* s.candidates: session -> peers with a candidateSet
    relay,              \* sessions whose token is registered with the relay
    outcomes,           \* sessions given to Reputation.RecordOutcome
    rpc,                \* handler -> its call: next step, session, record
    ending,             \* history: sessions some call was asked to terminate
    requests, restarts  \* how many there have been

vars == <<sessions, cand, relay, outcomes, rpc, ending, requests,
          restarts, leaseVars>>

SessionStatus == {"pending", "running", "terminated"}

SessionRecord ==
    [Status : SessionStatus, ConnectionMode : {"", "direct", "holepunch", "relay"},
     WGEndpoint : BOOLEAN, TerminatedAt : BOOLEAN, Index : tunnelIndex]

\* What agents and renters send in UpdateSessionStatus.
StatusRequest == [Status : {"running", "terminated"}, WgEndpoint : BOOLEAN]

Steps == {"create.put", "create.key", "terminate.put", "terminate.relay",
          "terminate.candidates", "terminate.reclaim", "update.reclaim",
          "update.put", "report.relay", "report.put"}

Call == [pc : Steps, sid : Sessions, rec : SessionRecord, key : BOOLEAN]

\* MemoryStore calls never fail.  Its records are written outside its lock, a
\* data race as soon as two calls overlap, so it is modelled for one call at a
\* time.
ASSUME RegistryAssumption ==
    /\ Renter \in Peers
    /\ Absent \notin SessionRecord \cup Call
    /\ SharedRecords \in BOOLEAN
    /\ PutFailures \subseteq {"lost", "applied"}
    /\ MaxRequests \in Nat /\ MaxRestarts \in Nat
    /\ SharedRecords => PutFailures = {} /\ Cardinality(Handlers) = 1

TypeOK ==
    /\ LeaseTypeOK
    /\ sessions \in [Sessions -> SessionRecord \cup {Absent}]
    /\ cand \in [Sessions -> SUBSET Peers]
    /\ relay \in SUBSET Sessions
    /\ outcomes \in SUBSET Sessions
    /\ rpc \in [Handlers -> Call \cup {Absent}]
    /\ ending \in SUBSET Sessions
    /\ requests \in 0..MaxRequests /\ restarts \in 0..MaxRestarts

Init ==
    /\ LeaseInit
    /\ sessions = [s \in Sessions |-> Absent]
    /\ cand = [s \in Sessions |-> {}]
    /\ relay = {} /\ outcomes = {} /\ ending = {}
    /\ rpc = [h \in Handlers |-> Absent]
    /\ requests = 0 /\ restarts = 0
-----------------------------------------------------------------------------
stored(s) == sessions[s] # Absent

busy(h) == rpc[h] # Absent

At(h, pc) == busy(h) /\ rpc[h].pc = pc

\* Some handler is working on s at one of the steps pcs.
Working(s, pcs) == \E h \in Handlers : busy(h) /\ rpc[h].sid = s /\ rpc[h].pc \in pcs

\* A request arrives.
Request ==
    /\ requests < MaxRequests
    /\ requests' = requests + 1

Begin(h, pc, s, rec, key) ==
    /\ Request
    /\ ~busy(h)
    /\ rpc' = [rpc EXCEPT ![h] = [pc |-> pc, sid |-> s, rec |-> rec, key |-> key]]

Goto(h, pc) == rpc' = [rpc EXCEPT ![h].pc = pc]

Return(h) == rpc' = [rpc EXCEPT ![h] = Absent]

\* A record changed after Get and before PutSession: visible at once when the
\* store hands out its own records.
AssignFields(s, rec) ==
    sessions' = IF SharedRecords THEN [sessions EXCEPT ![s] = rec] ELSE sessions

PutSession(h) == sessions' = [sessions EXCEPT ![rpc[h].sid] = rpc[h].rec]

\* uuid.NewString: an ID no call has used.
newSessionID(s) ==
    /\ ~stored(s) /\ lease[s] = NoSlot /\ s \notin denied \cup ending
    /\ \A h \in Handlers : busy(h) => rpc[h].sid # s
-----------------------------------------------------------------------------
(* CreateSession: allocate the tunnel, store the record, store the key.    *)

newSession(idx) ==
    [Status |-> "pending", ConnectionMode |-> "", WGEndpoint |-> FALSE,
     TerminatedAt |-> FALSE, Index |-> idx]

CreateSession(h, s, key) ==
    /\ newSessionID(s)
    /\ Grant(s)
    /\ Begin(h, "create.put", s, newSession(lease'[s]), key)
    /\ UNCHANGED <<sessions, cand, relay, outcomes, ending, restarts>>

\* Mutant: the error of allocateTunnelIPs is ignored.
CreateSessionExhausted_ignoresError(h, s) ==
    /\ newSessionID(s)
    /\ Deny(s)
    /\ Begin(h, "create.put", s, newSession(NoSlot), FALSE)
    /\ UNCHANGED <<sessions, cand, relay, outcomes, ending, restarts>>

CreateSessionExhausted(h, s) ==
    /\ Request
    /\ ~busy(h) /\ newSessionID(s)
    /\ Deny(s)
    /\ UNCHANGED <<sessions, cand, relay, outcomes, rpc, ending, restarts>>

\* Mutant: the new session is not stored.
CreateSessionPut_notStored(h) ==
    /\ At(h, "create.put")
    /\ IF rpc[h].key THEN Goto(h, "create.key") ELSE Return(h)
    /\ UNCHANGED <<sessions, cand, relay, outcomes, ending, requests, restarts, leaseVars>>

CreateSessionPut(h) ==
    /\ At(h, "create.put")
    /\ PutSession(h)
    /\ IF rpc[h].key THEN Goto(h, "create.key") ELSE Return(h)
    /\ UNCHANGED <<cand, relay, outcomes, ending, requests, restarts, leaseVars>>

CreateSessionKey(h) ==
    /\ At(h, "create.key")
    /\ cand' = [cand EXCEPT ![rpc[h].sid] = @ \cup {Renter}]
    /\ Return(h)
    /\ UNCHANGED <<sessions, relay, outcomes, ending, requests, restarts, leaseVars>>
-----------------------------------------------------------------------------
(* TerminateSession: store, record the outcome and invalidate the relay    *)
(* session, drop the candidates, reclaim the tunnel index.                 *)

TerminateSession(h, s) ==
    /\ stored(s)
    /\ LET rec == [sessions[s] EXCEPT !.Status = "terminated",
                                      !.TerminatedAt = TRUE]
       IN  Begin(h, "terminate.put", s, rec, FALSE) /\ AssignFields(s, rec)
    /\ ending' = ending \cup {s}
    /\ UNCHANGED <<cand, relay, outcomes, restarts, leaseVars>>

TerminateSessionPut(h) ==
    /\ At(h, "terminate.put")
    /\ PutSession(h)
    /\ Goto(h, "terminate.relay")
    /\ UNCHANGED <<cand, relay, outcomes, ending, requests, restarts, leaseVars>>

\* Mutant: the outcome is not recorded.
TerminateSessionRelay_noOutcome(h) ==
    /\ At(h, "terminate.relay")
    /\ relay' = relay \ {rpc[h].sid}
    /\ Goto(h, "terminate.candidates")
    /\ UNCHANGED <<sessions, cand, outcomes, ending, requests, restarts, leaseVars>>

TerminateSessionRelay(h) ==
    /\ At(h, "terminate.relay")
    /\ outcomes' = outcomes \cup {rpc[h].sid}
    /\ relay' = relay \ {rpc[h].sid}
    /\ Goto(h, "terminate.candidates")
    /\ UNCHANGED <<sessions, cand, ending, requests, restarts, leaseVars>>

TerminateSessionCandidates(h) ==
    /\ At(h, "terminate.candidates")
    /\ cand' = [cand EXCEPT ![rpc[h].sid] = {}]
    /\ Goto(h, "terminate.reclaim")
    /\ UNCHANGED <<sessions, relay, outcomes, ending, requests, restarts, leaseVars>>

\* Mutant: the tunnel index is not reclaimed.
TerminateSessionReclaim_keepsSlot(h) ==
    /\ At(h, "terminate.reclaim")
    /\ Return(h)
    /\ UNCHANGED <<sessions, cand, relay, outcomes, ending, requests, restarts, leaseVars>>

TerminateSessionReclaim(h) ==
    /\ At(h, "terminate.reclaim")
    /\ Release(rpc[h].sid)
    /\ Return(h)
    /\ UNCHANGED <<sessions, cand, relay, outcomes, ending, requests, restarts>>
-----------------------------------------------------------------------------
(* UpdateSessionStatus: a first termination records the outcome and        *)
(* reclaims the tunnel index before the record is stored; a running report *)
(* without an endpoint is rejected after the record's fields were set.     *)

updatedSession(rec, req) ==
    [rec EXCEPT
        !.Status = req.Status,
        !.TerminatedAt = @ \/ (req.Status = "terminated" /\ rec.Status # "terminated"),
        !.WGEndpoint = @ \/ req.WgEndpoint,
        !.ConnectionMode =
            IF req.Status = "running" /\ req.WgEndpoint /\ @ = ""
            THEN "direct" ELSE @]

\* Mutant: the endpoint is not required.
rejectedUpdate_never(req) == FALSE

rejectedUpdate(req) == req.Status = "running" /\ ~req.WgEndpoint

\* Mutant: every status report reclaims the tunnel index, not only a first
\* termination.
UpdateSessionStatus_alwaysReclaims(h, s, req) ==
    /\ stored(s)
    /\ ~rejectedUpdate(req)
    /\ LET rec == updatedSession(sessions[s], req)
       IN  Begin(h, "update.reclaim", s, rec, FALSE) /\ AssignFields(s, rec)
    /\ ending' = IF req.Status = "terminated" THEN ending \cup {s} ELSE ending
    /\ UNCHANGED <<cand, relay, outcomes, restarts, leaseVars>>

UpdateSessionStatus(h, s, req) ==
    /\ stored(s)
    /\ ~rejectedUpdate(req)
    /\ LET rec   == updatedSession(sessions[s], req)
           first == req.Status = "terminated" /\ sessions[s].Status # "terminated"
       IN  /\ Begin(h, IF first THEN "update.reclaim" ELSE "update.put", s, rec, FALSE)
           /\ AssignFields(s, rec)
    /\ ending' = IF req.Status = "terminated" THEN ending \cup {s} ELSE ending
    /\ UNCHANGED <<cand, relay, outcomes, restarts, leaseVars>>

UpdateSessionStatusRejected(h, s, req) ==
    /\ Request
    /\ ~busy(h) /\ stored(s)
    /\ rejectedUpdate(req)
    /\ AssignFields(s, updatedSession(sessions[s], req))
    /\ UNCHANGED <<cand, relay, outcomes, rpc, ending, restarts, leaseVars>>

\* Mutant: a termination by status report does not reclaim the tunnel index.
UpdateSessionStatusReclaim_keepsSlot(h) ==
    /\ At(h, "update.reclaim")
    /\ outcomes' = outcomes \cup {rpc[h].sid}
    /\ Goto(h, "update.put")
    /\ UNCHANGED <<sessions, cand, relay, ending, requests, restarts, leaseVars>>

UpdateSessionStatusReclaim(h) ==
    /\ At(h, "update.reclaim")
    /\ outcomes' = outcomes \cup {rpc[h].sid}
    /\ Release(rpc[h].sid)
    /\ Goto(h, "update.put")
    /\ UNCHANGED <<sessions, cand, relay, ending, requests, restarts>>

UpdateSessionStatusPut(h) ==
    /\ At(h, "update.put")
    /\ PutSession(h)
    /\ Return(h)
    /\ UNCHANGED <<cand, relay, outcomes, ending, requests, restarts, leaseVars>>
-----------------------------------------------------------------------------
(* ExchangeCandidates checks that the session exists and then works under  *)
(* s.mu; sessions are never deleted, so it is one step.  What it answers   *)
(* is left out here.                                                       *)
ExchangeCandidates(s, p) ==
    /\ Request
    /\ stored(s)
    /\ cand' = [cand EXCEPT ![s] = @ \cup {p}]
    /\ UNCHANGED <<sessions, relay, outcomes, rpc, ending, restarts, leaseVars>>

(* ReportConnectionResult: register with the relay if asked, then store.   *)
ReportConnectionResult(h, s, useRelay) ==
    /\ stored(s)
    /\ LET rec == [sessions[s] EXCEPT
                        !.ConnectionMode = IF useRelay THEN "relay" ELSE "holepunch"]
       IN  /\ Begin(h, IF useRelay THEN "report.relay" ELSE "report.put", s, rec, FALSE)
           /\ AssignFields(s, rec)
    /\ UNCHANGED <<cand, relay, outcomes, ending, restarts, leaseVars>>

ReportConnectionResultRelay(h) ==
    /\ At(h, "report.relay")
    /\ relay' = relay \cup {rpc[h].sid}
    /\ Goto(h, "report.put")
    /\ UNCHANGED <<sessions, cand, outcomes, ending, requests, restarts, leaseVars>>

ReportConnectionResultPut(h) ==
    /\ At(h, "report.put")
    /\ PutSession(h)
    /\ Return(h)
    /\ UNCHANGED <<cand, relay, outcomes, ending, requests, restarts, leaseVars>>
-----------------------------------------------------------------------------
putSteps == {"create.put", "terminate.put", "update.put", "report.put"}

\* PutSession returns an error and so does the RPC, without undoing its
\* earlier steps; the statement may have taken effect all the same.
PutSessionFails(h, how) ==
    /\ busy(h) /\ rpc[h].pc \in putSteps
    /\ IF how = "applied" THEN PutSession(h) ELSE UNCHANGED sessions
    /\ Return(h)
    /\ UNCHANGED <<cand, relay, outcomes, ending, requests, restarts, leaseVars>>

\* The relay's reaper removes a session without traffic (relay/server.go).
ReapIdleSession(s) ==
    /\ s \in relay
    /\ relay' = relay \ {s}
    /\ UNCHANGED <<sessions, cand, outcomes, rpc, ending, requests, restarts, leaseVars>>

\* The process stops, between any two steps, and NewServer starts over with
\* empty maps; a PostgresStore keeps its rows, a MemoryStore is gone.
Restart ==
    /\ restarts < MaxRestarts
    /\ restarts' = restarts + 1
    /\ nextTunnelHint' = firstTunnel
    /\ lease' = [s \in Sessions |-> NoSlot]
    /\ denied' = {}
    /\ cand' = [s \in Sessions |-> {}]
    /\ relay' = {}
    /\ rpc' = [h \in Handlers |-> Absent]
    /\ sessions' = IF SharedRecords THEN [s \in Sessions |-> Absent] ELSE sessions
    /\ UNCHANGED <<outcomes, ending, requests>>

Continue(h) ==
    \/ CreateSessionPut(h) \/ CreateSessionKey(h)
    \/ TerminateSessionPut(h) \/ TerminateSessionRelay(h)
    \/ TerminateSessionCandidates(h) \/ TerminateSessionReclaim(h)
    \/ UpdateSessionStatusReclaim(h) \/ UpdateSessionStatusPut(h)
    \/ ReportConnectionResultRelay(h) \/ ReportConnectionResultPut(h)

Next ==
    \/ \E h \in Handlers, s \in Sessions :
        \/ \E key \in BOOLEAN : CreateSession(h, s, key)
        \/ CreateSessionExhausted(h, s)
        \/ TerminateSession(h, s)
        \/ \E req \in StatusRequest :
            UpdateSessionStatus(h, s, req) \/ UpdateSessionStatusRejected(h, s, req)
        \/ \E useRelay \in BOOLEAN : ReportConnectionResult(h, s, useRelay)
    \/ \E h \in Handlers : Continue(h)
    \/ \E h \in Handlers, how \in PutFailures : PutSessionFails(h, how)
    \/ \E s \in Sessions, p \in Peers : ExchangeCandidates(s, p)
    \/ \E s \in Sessions : ReapIdleSession(s)
    \/ Restart

Spec == Init /\ [][Next]_vars

\* A handler that has begun is a goroutine the Go scheduler keeps running, and
\* the calls it makes return.  Nobody has to issue a request.
FairSpec == Spec /\ \A h \in Handlers : WF_vars(Continue(h))
-----------------------------------------------------------------------------
\* A handler that will release the slot of s is past the point of no return.
Releasing(s) ==
    Working(s, {"terminate.relay", "terminate.candidates", "terminate.reclaim"})
    \/ (SharedRecords /\ Working(s, {"terminate.put", "update.reclaim"}))

\* A session the store calls terminated has given its tunnel index back, or
\* the handler that terminated it is about to: TerminateSession stores first
\* and reclaims last, UpdateSessionStatus reclaims first and only on a first
\* termination, and a stale "terminated" may be written back by any other call.
TerminatedReleased ==
    \A s \in Sessions :
        stored(s) /\ sessions[s].Status = "terminated"
            => lease[s] = NoSlot \/ Releasing(s)

\* A session the store calls terminated has a termination time, and its
\* outcome has been given to RecordOutcome or is about to be.
TerminatedRecorded ==
    \A s \in Sessions :
        stored(s) /\ sessions[s].Status = "terminated"
            => /\ sessions[s].TerminatedAt
               /\ \/ s \in outcomes
                  \/ Working(s, {"terminate.relay"})
                  \/ SharedRecords /\ Working(s, {"terminate.put", "update.reclaim"})

\* A stored session that nobody has asked to terminate still holds exactly the
\* tunnel index its record shows to provider and renter.
UnendedKeepsSlot ==
    \A s \in Sessions :
        stored(s) /\ s \notin ending => lease[s] = sessions[s].Index

\* allocateTunnelIPs "assigns unique per-session tunnel IPs": two stored
\* sessions that nobody has asked to terminate never show the same index.
UniqueTunnelIPs ==
    \A s, t \in Sessions :
        /\ s # t
        /\ stored(s) /\ s \notin ending
        /\ stored(t) /\ t \notin ending
        => sessions[s].Index # sessions[t].Index

\* "Unique per-session tunnel IPs" as the peers see it: once no call is in
\* progress, two sessions shown as pending or running have different indices.
UniqueLiveTunnelIPs ==
    \A s, t \in Sessions :
        /\ s # t
        /\ \A h \in Handlers : ~busy(h)
        /\ stored(s) /\ sessions[s].Status # "terminated"
        /\ stored(t) /\ sessions[t].Status # "terminated"
        => sessions[s].Index # sessions[t].Index

\* "running sessions must include wg_endpoint" (the FailedPrecondition of
\* UpdateSessionStatus): a running session has an endpoint and a mode.
RunningHasEndpoint ==
    \A s \in Sessions :
        stored(s) /\ sessions[s].Status = "running"
            => sessions[s].WGEndpoint /\ sessions[s].ConnectionMode # ""

\* "ErrTunnelExhausted is returned when all tunnel IP slots are in use": when
\* CreateSession is denied, every index belongs to a session that is stored or
\* being created, so that terminating sessions can help.
ExhaustedOnlyInUse ==
    [][\A s \in denied' \ denied : \A i \in tunnelIndex :
            \E t \in Sessions :
                lease[t] = i /\ (stored(t) \/ Working(t, {"create.put"}))]_vars

\* Every request to terminate a session ends with its tunnel index free, also
\* when two such requests overlap and the second finds it already terminated.
EndReleases ==
    \A s \in Sessions : s \in ending ~> lease[s] = NoSlot
=============================================================================
