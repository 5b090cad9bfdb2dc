------------------------------- MODULE Stores -------------------------------
(***************************************************************************)
(* The two implementations of plugin.Store side by side: PostgresStore     *)
(* (store/postgres.go), whose rows the callers copy, and MemoryStore       *)
(* (plugin/defaults.go), whose records the callers share.  Both get the    *)
(* same calls, in the order in which Postgres executes them.  The callers  *)
(* are handlers of the registry: they look a record up by a prefix of its  *)
(* ID, assign to some of its fields, and put it back, or return before.    *)
(*                                                                         *)
(* MemoryStore looks up under its lock and is the reference for the        *)
(* lookup of PostgresStore, which consists of two queries.  Reads of       *)
(* Postgres can fail; failures of writes are in the Registry module.       *)
(* Providers and sessions share nothing: a behaviour is about one of the   *)
(* two tables.                                                             *)
(***************************************************************************)
EXTENDS Sequences, FiniteSets, Integers

CONSTANTS
    Ids,                \* UUIDs: sequences of one length
    Owners,             \* ProviderIDs of sessions
    Callers,
    Absent

ASSUME StoresAssumption ==
    /\ \A i, j \in Ids : i \in Seq(STRING) /\ Len(i) = Len(j)
    /\ Absent \notin Ids \cup Owners

VARIABLES
    of,                 \* "provider" or "session"
    rows,               \* Postgres: the table
    inMap,              \* MemoryStore: the keys of the map
    heap,               \* MemoryStore: the record made for each ID, in the map or not
    call,               \* what each caller is doing
    apart               \* IDs on which an update was abandoned or two overlapped

vars == <<of, rows, inMap, heap, call, apart>>

Prefixes == UNION {{SubSeq(id, 1, n) : n \in 0..Len(id)} : id \in Ids}
hasPrefix(id, p) == Len(p) <= Len(id) /\ SubSeq(id, 1, Len(p)) = p

\* Every status but "terminated" is "pending" here.
Status == {"pending", "terminated", "online", "offline"}
statuses(t) == IF t = "session" THEN {"pending", "terminated"}
               ELSE {"online", "offline"}
Mode == {"unset", "relay"}

\* owner stands for the columns that are written once, status and mode for two that
\* different handlers assign.
Record == [owner : Owners \cup {Absent}, status : Status, mode : Mode]

ASSUME AbsentAssumption == Absent \notin Record

Result == [err : {"nil", "not found", "ambiguous"}, id : Ids \cup {Absent}]
noResult == [err |-> "nil", id |-> Absent]

\* prefix: what is looked up; res, ref: what PostgresStore and MemoryStore found; cut:
\* the rows broke off; rec: the copy; stale: the row was written after it was copied.
Call == [pc : {"idle", "like", "found", "assigned", "done"}, prefix : Seq(STRING),
         res : Result, ref : Result, cut : BOOLEAN, rec : Record \cup {Absent},
         stale : BOOLEAN]
idleCall == [pc |-> "idle", prefix |-> <<>>, res |-> noResult, ref |-> noResult,
             cut |-> FALSE, rec |-> Absent, stale |-> FALSE]

TypeOK ==
    /\ of \in {"provider", "session"}
    /\ rows \in [Ids -> Record \cup {Absent}]
    /\ inMap \subseteq Ids
    /\ heap \in [Ids -> Record \cup {Absent}]
    /\ call \in [Callers -> Call]
    /\ apart \subseteq Ids

Init ==
    /\ of \in {"provider", "session"}
    /\ rows = [id \in Ids |-> Absent]
    /\ inMap = {} /\ heap = [id \in Ids |-> Absent]
    /\ call = [k \in Callers |-> idleCall]
    /\ apart = {}

assigned(k, id) == call[k].pc = "assigned" /\ call[k].res.id = id

\* The copies of a row that is written become stale.
outdated(c, id) ==
    [k \in Callers |-> IF c[k].pc \in {"found", "assigned"} /\ c[k].res.id = id
                       THEN [c[k] EXCEPT !.stale = TRUE] ELSE c[k]]
finished(k) == [call EXCEPT ![k] = idleCall]

\* How the record was found is forgotten.
assigning(k, rec) ==
    [call EXCEPT ![k] = [idleCall EXCEPT !.pc = "assigned", !.res = call[k].res,
                                         !.rec = rec, !.stale = call[k].stale]]
-----------------------------------------------------------------------------
(* Writes.                                                                 *)

\* Mutant: connection_mode is missing in the list of updated columns.
onConflict_noMode(old, new) == [old EXCEPT !.status = new.status]

\* ON CONFLICT DO UPDATE leaves the columns that are written once.
onConflict(old, new) == [new EXCEPT !.owner = old.owner]

putRow(id, rec) ==
    [rows EXCEPT ![id] = IF rows[id] = Absent THEN rec ELSE onConflict(rows[id], rec)]

\* RegisterProvider and CreateSession put a record with a new ID.
PutNew(id, owner) ==
    LET rec == [owner |-> owner, mode |-> "unset",
                status |-> IF of = "session" THEN "pending" ELSE "online"] IN
    /\ heap[id] = Absent
    /\ owner = Absent <=> of = "provider"
    /\ rows' = putRow(id, rec)
    /\ heap' = [heap EXCEPT ![id] = rec]
    /\ inMap' = inMap \cup {id}
    /\ UNCHANGED <<of, call, apart>>

\* A handler assigns to a field of the record it fetched: of its copy, or of the
\* shared record.
AssignStatus(k, status) ==
    LET id == call[k].res.id IN
    /\ call[k].pc = "found"
    /\ status \in statuses(of)
    /\ call' = assigning(k, [call[k].rec EXCEPT !.status = status])
    /\ heap' = [heap EXCEPT ![id].status = status]
    /\ apart' = IF call[k].stale \/ \E j \in Callers : assigned(j, id)
                THEN apart \cup {id} ELSE apart
    /\ UNCHANGED <<of, rows, inMap>>

\* ReportConnectionResult.
AssignMode(k) ==
    LET id == call[k].res.id IN
    /\ of = "session"
    /\ call[k].pc = "found"
    /\ call' = assigning(k, [call[k].rec EXCEPT !.mode = "relay"])
    /\ heap' = [heap EXCEPT ![id].mode = "relay"]
    /\ apart' = IF call[k].stale \/ \E j \in Callers : assigned(j, id)
                THEN apart \cup {id} ELSE apart
    /\ UNCHANGED <<of, rows, inMap>>

\* PutProvider or PutSession of the record that was fetched.
Put(k) ==
    LET id == call[k].res.id IN
    /\ call[k].pc = "assigned"
    /\ rows' = putRow(id, call[k].rec)
    /\ inMap' = inMap \cup {id}
    /\ call' = outdated(finished(k), id)
    /\ apart' = IF call[k].stale THEN apart \cup {id} ELSE apart
    /\ UNCHANGED <<of, heap>>

\* UpdateSessionStatus rejects what it has already assigned.
Reject(k) ==
    /\ of = "session"
    /\ call[k].pc = "assigned"
    /\ call' = finished(k)
    /\ apart' = apart \cup {call[k].res.id}
    /\ UNCHANGED <<of, rows, inMap, heap>>

\* Without a row, Postgres updates none; without an entry, MemoryStore returns an
\* error.
UpdateHeartbeat(k) ==
    LET id == call[k].res.id IN
    /\ of = "provider"
    /\ call[k].pc = "found"
    /\ rows' = IF rows[id] = Absent THEN rows ELSE [rows EXCEPT ![id].status = "online"]
    /\ heap' = IF id \in inMap THEN [heap EXCEPT ![id].status = "online"] ELSE heap
    /\ call' = outdated(finished(k), id)
    /\ UNCHANGED <<of, inMap, apart>>

\* DeleteProvider and DeleteSession, which the registry itself does not call.
Delete(id) ==
    /\ rows[id] # Absent
    /\ rows' = [rows EXCEPT ![id] = Absent]
    /\ inMap' = inMap \ {id}
    /\ call' = outdated(call, id)
    /\ UNCHANGED <<of, heap, apart>>
-----------------------------------------------------------------------------
(* Reads.                                                                  *)

stored == {id \in Ids : rows[id] # Absent}

\* The loop over the matches, in both stores: none, one, or a second one.
outcome(matches) ==
    IF matches = {} THEN [err |-> "not found", id |-> Absent]
    ELSE IF \E id \in Ids : matches = {id}
         THEN [err |-> "nil", id |-> CHOOSE id \in Ids : matches = {id}]
         ELSE [err |-> "ambiguous", id |-> Absent]

\* GetProviderByPrefix and GetSessionByPrefix of MemoryStore, under its lock.
memoryByPrefix(p) ==
    IF p \in inMap THEN [err |-> "nil", id |-> p]
    ELSE outcome({id \in inMap : hasPrefix(id, p)})

\* Mutant: one row is asked for.
Limit_one == 1

Limit == 2

\* Mutant: only the short form of the ID, as it is displayed, is compared.
like_short(p) == {id \in stored : hasPrefix(id, SubSeq(p, 1, Len(p) - 1))}

\* WHERE id LIKE prefix+"%".
like(p) == {id \in stored : hasPrefix(id, p)}

\* A caller has an answer.
answered(k, p, res, cut) ==
    [call EXCEPT ![k] =
        IF res.err = "nil"
        THEN [idleCall EXCEPT !.pc = "found", !.prefix = p, !.res = res,
                !.ref = memoryByPrefix(p), !.cut = cut, !.rec = rows[res.id]]
        ELSE [idleCall EXCEPT !.pc = "done", !.res = res, !.ref = memoryByPrefix(p),
                !.cut = cut]]

\* The first query: GetProvider or GetSession with the prefix as ID.  Any error, not
\* only ErrNotFound, leads to the second query.
GetByPrefix(k, p) ==
    /\ call[k].pc = "idle"
    /\ \/ /\ p \in stored
          /\ call' = answered(k, p, [err |-> "nil", id |-> p], FALSE)
       \/ call' = [call EXCEPT ![k].pc = "like", ![k].prefix = p]
    /\ UNCHANGED <<of, rows, inMap, heap, apart>>

\* The second query.  Next returns false at the end of the rows and when they break
\* off, and rows.Err is not asked.
GetByPrefixLike(k) ==
    /\ call[k].pc = "like"
    /\ \/ \E arrived \in SUBSET like(call[k].prefix) :
            LET all == like(call[k].prefix)
                complete == arrived = all \/ Cardinality(arrived) = Limit IN
            /\ Cardinality(arrived) <= Limit
            /\ call' = answered(k, call[k].prefix, outcome(arrived), ~complete)
       \/ call' = finished(k)
    /\ UNCHANGED <<of, rows, inMap, heap, apart>>

\* The handler returns without an assignment.
Return(k) ==
    /\ call[k].pc \in {"found", "done"}
    /\ call' = finished(k)
    /\ UNCHANGED <<of, rows, inMap, heap, apart>>

\* ListProviders and ListSessions: Absent and "" are filters that are not set.
ListRows(owner, status) ==
    {id \in stored : /\ owner # Absent => rows[id].owner = owner
                     /\ status # "" => rows[id].status = status}

ListMap(owner, status) ==
    {id \in inMap : ~ (\/ owner # Absent /\ heap[id].owner # owner
                       \/ status # "" /\ heap[id].status # status)}

\* Mutant: the provider is not compared.
TerminatedRows_anyProvider(ids, owner) ==
    {id \in stored \cap ids : rows[id].status = "terminated"}

\* GetTerminatedSessionIDs.
TerminatedRows(ids, owner) ==
    {id \in stored \cap ids : rows[id].owner = owner /\ rows[id].status = "terminated"}

TerminatedMap(ids, owner) ==
    {id \in ids \cap inMap : heap[id].owner = owner /\ heap[id].status = "terminated"}
-----------------------------------------------------------------------------
CallerStep(k) ==
    \/ \E p \in Prefixes : GetByPrefix(k, p)
    \/ GetByPrefixLike(k) \/ Return(k)
    \/ \E status \in Status : AssignStatus(k, status)
    \/ AssignMode(k) \/ Put(k) \/ Reject(k) \/ UpdateHeartbeat(k)

Next ==
    \/ \E k \in Callers : CallerStep(k)
    \/ \E id \in Ids : Delete(id) \/ \E owner \in Owners \cup {Absent} : PutNew(id, owner)

Spec == Init /\ [][Next]_vars
-----------------------------------------------------------------------------
\* IDs whose record no update is under way on, overlapped or was abandoned.
settled == {id \in Ids \ apart : \A k \in Callers : ~assigned(k, id)}

\* The stores can stand in for each other: they have the same IDs, and the same
\* record for each, unless an update of it is between assignment and put, or was
\* rejected after the assignment, or overlapped with another; then MemoryStore
\* has every assignment and Postgres the last copy that was put.
StoresAgree ==
    /\ inMap = stored
    /\ \A id \in settled \cap stored : heap[id] = rows[id]

\* The two queries of PostgresStore find what MemoryStore finds at the moment of the
\* last one: the record, that there is none or that there are several, also when
\* the first query failed or rows came and went between the two.  The exception is
\* an answer whose rows broke off.
LookupsAgree ==
    \A k \in Callers :
        call[k].pc \in {"found", "done"} /\ ~call[k].cut =>
            call[k].res = call[k].ref

\* A lookup by a full ID, as the agents and the registry do, never yields another
\* record, not even when queries fail or rows break off.
FullIDExact ==
    \A k \in Callers :
        call[k].pc = "found" /\ call[k].prefix \in Ids =>
            call[k].res.id = call[k].prefix

\* Lists and the answer to a heartbeat are the same from both stores, but for
\* records that are not settled.
AnswersAgree ==
    LET same(A, B) == A \cap settled = B \cap settled IN
    /\ \A owner \in Owners \cup {Absent}, status \in statuses(of) \cup {""} :
        same(ListRows(owner, status), ListMap(owner, status))
    /\ \A owner \in Owners : same(TerminatedRows(Ids, owner), TerminatedMap(Ids, owner))
=============================================================================
