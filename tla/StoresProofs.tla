---------------------------- MODULE StoresProofs ----------------------------
(***************************************************************************)
(* MemoryStore and PostgresStore can stand in for each other, for any      *)
(* number of handlers, records and owners.                                 *)
(***************************************************************************)
EXTENDS Stores, FiniteSetTheorems, TLAPS

(***************************************************************************)
(* StoresAgree alone is not inductive: that a put makes the row equal to   *)
(* the shared record depends on what the handlers have in hand.            *)
(***************************************************************************)

\* A row has a record in memory, with the same columns that are written once.
RowsKnown ==
    \A id \in stored : heap[id] \in Record /\ heap[id].owner = rows[id].owner

\* What a handler has in hand is a record of the ID it asked for, and before the
\* first assignment a copy that is not stale equals the row.
CopiesKnown ==
    \A k \in Callers : call[k].pc \in {"found", "assigned"} =>
        LET id == call[k].res.id IN
        /\ id \in Ids /\ call[k].rec \in Record /\ heap[id] \in Record
        /\ call[k].rec.owner = heap[id].owner
        /\ call[k].pc = "found" /\ ~call[k].stale => id \in stored /\ call[k].rec = rows[id]

\* Unless updates overlapped, only one handler has assigned to a record, and its copy
\* equals the shared record if it is not stale.
UpdatesSerial ==
    \A id \in Ids \ apart : \A k \in Callers : assigned(k, id) =>
        /\ \A j \in Callers : assigned(j, id) => j = k
        /\ ~call[k].stale => heap[id] = call[k].rec

AgreeInv == TypeOK /\ StoresAgree /\ RowsKnown /\ CopiesKnown /\ UpdatesSerial

-----------------------------------------------------------------------------
(* Facts about IDs and lookups.                                            *)

\* Prefixes of IDs are strings of characters.
LEMMA PrefixType == Prefixes \subseteq Seq(STRING)
  <1> SUFFICES ASSUME NEW id \in Ids, NEW n \in 0..Len(id)
               PROVE  SubSeq(id, 1, n) \in Seq(STRING)
    BY DEF Prefixes
  <1>1. id \in Seq(STRING)
    BY StoresAssumption
  <1> QED BY <1>1

\* No ID is a proper prefix of another.
LEMMA FullID ==
    ASSUME NEW id \in Ids, NEW p \in Ids, hasPrefix(id, p)
    PROVE  id = p
  <1>1. id \in Seq(STRING) /\ p \in Seq(STRING) /\ Len(id) = Len(p)
    BY StoresAssumption
  <1>2. SubSeq(id, 1, Len(id)) = id
    BY <1>1
  <1> QED BY <1>1, <1>2 DEF hasPrefix

LEMMA PrefixOfItself ==
    ASSUME NEW p \in Ids
    PROVE  hasPrefix(p, p)
  <1>1. p \in Seq(STRING)
    BY StoresAssumption
  <1>2. SubSeq(p, 1, Len(p)) = p /\ Len(p) \in Nat
    BY <1>1
  <1> QED BY <1>2 DEF hasPrefix

\* The loop over the matches returns a match or none.
LEMMA OutcomeType ==
    ASSUME NEW S \in SUBSET Ids
    PROVE  /\ outcome(S) \in Result
           /\ outcome(S).err = "nil" => outcome(S).id \in S
           /\ outcome(S).err # "nil" => outcome(S).id = Absent
  <1>1. CASE S = {}
    BY <1>1 DEF outcome, Result
  <1>2. CASE S # {} /\ \E id \in Ids : S = {id}
    <2>1. PICK d \in Ids : S = {d} /\ d = CHOOSE id \in Ids : S = {id}
      BY <1>2
    <2>2. outcome(S) = [err |-> "nil", id |-> d]
      BY <1>2, <2>1 DEF outcome
    <2>3. outcome(S) \in Result
      BY <2>2 DEF Result
    <2>4. outcome(S).err = "nil" /\ outcome(S).id = d
      BY <2>2
    <2> QED BY <2>1, <2>3, <2>4
  <1>3. CASE S # {} /\ ~ \E id \in Ids : S = {id}
    BY <1>3 DEF outcome, Result
  <1> QED BY <1>1, <1>2, <1>3

LEMMA OutcomeOne ==
    ASSUME NEW id \in Ids
    PROVE  outcome({id}) = [err |-> "nil", id |-> id]
  <1> DEFINE d == CHOOSE x \in Ids : {id} = {x}
  <1>1. d \in Ids /\ {id} = {d}
    OBVIOUS
  <1>2. d = id
    BY <1>1
  <1>3. {id} # {} /\ \E x \in Ids : {id} = {x}
    OBVIOUS
  <1>4. outcome({id}) = [err |-> "nil", id |-> d]
    BY <1>3 DEF outcome
  <1> QED BY <1>2, <1>4

\* What MemoryStore finds is an answer.
LEMMA MemoryType ==
    ASSUME inMap \subseteq Ids, NEW p
    PROVE  memoryByPrefix(p) \in Result
  <1>1. {id \in inMap : hasPrefix(id, p)} \in SUBSET Ids
    OBVIOUS
  <1> QED BY <1>1, OutcomeType DEF memoryByPrefix, Result
-----------------------------------------------------------------------------
(* Facts about the handlers.                                               *)

LEMMA IdleType == idleCall \in Call /\ idleCall.pc = "idle"
  BY DEF idleCall, Call, noResult, Result

LEMMA OutdatedFacts ==
    ASSUME NEW c \in [Callers -> Call], NEW id
    PROVE  /\ outdated(c, id) \in [Callers -> Call]
           /\ \A j \in Callers :
                /\ outdated(c, id)[j].pc = c[j].pc
                /\ outdated(c, id)[j].prefix = c[j].prefix
                /\ outdated(c, id)[j].res = c[j].res
                /\ outdated(c, id)[j].ref = c[j].ref
                /\ outdated(c, id)[j].cut = c[j].cut
                /\ outdated(c, id)[j].rec = c[j].rec
                /\ c[j].stale => outdated(c, id)[j].stale
                /\ c[j].pc \in {"found", "assigned"} /\ c[j].res.id = id
                     => outdated(c, id)[j].stale
  <1>1. ASSUME NEW j \in Callers
        PROVE  [c[j] EXCEPT !.stale = TRUE] \in Call
    BY DEF Call
  <1>2. outdated(c, id) \in [Callers -> Call]
    BY <1>1 DEF outdated
  <1>3. ASSUME NEW j \in Callers
        PROVE  /\ outdated(c, id)[j].pc = c[j].pc
               /\ outdated(c, id)[j].prefix = c[j].prefix
               /\ outdated(c, id)[j].res = c[j].res
               /\ outdated(c, id)[j].ref = c[j].ref
               /\ outdated(c, id)[j].cut = c[j].cut
               /\ outdated(c, id)[j].rec = c[j].rec
               /\ c[j].stale => outdated(c, id)[j].stale
               /\ c[j].pc \in {"found", "assigned"} /\ c[j].res.id = id
                    => outdated(c, id)[j].stale
    BY DEF outdated, Call
  <1> QED BY <1>2, <1>3

LEMMA FinishedFacts ==
    ASSUME call \in [Callers -> Call], NEW k \in Callers
    PROVE  /\ finished(k) \in [Callers -> Call]
           /\ finished(k)[k] = idleCall
           /\ \A j \in Callers \ {k} : finished(k)[j] = call[j]
  BY IdleType DEF finished
-----------------------------------------------------------------------------
\* Both stores start empty.
LEMMA InitAgree == Init => AgreeInv
  <1> SUFFICES ASSUME Init PROVE AgreeInv
    OBVIOUS
  <1>1. TypeOK
    BY IdleType DEF Init, TypeOK
  <1>2. stored = {} /\ \A k \in Callers : call[k].pc = "idle"
    BY IdleType DEF Init, stored
  <1> QED
    BY <1>1, <1>2 DEF Init, AgreeInv, StoresAgree, RowsKnown, CopiesKnown, UpdatesSerial,
       assigned
-----------------------------------------------------------------------------
(* Every action preserves the agreement.                                   *)

LEMMA PutNewAgree ==
    ASSUME AgreeInv, NEW id \in Ids, NEW owner \in Owners \cup {Absent}, PutNew(id, owner)
    PROVE  AgreeInv'
  <1> DEFINE rec == [owner |-> owner, mode |-> "unset",
                     status |-> IF of = "session" THEN "pending" ELSE "online"]
  <1>1. rec \in Record
    BY DEF Record, Mode, Status
  <1>2. heap[id] = Absent /\ heap[id] \notin Record
    BY AbsentAssumption DEF PutNew
  <1>3. rows[id] = Absent
    BY <1>2 DEF AgreeInv, RowsKnown, stored
  <1>4. /\ rows' = [rows EXCEPT ![id] = rec]
        /\ heap' = [heap EXCEPT ![id] = rec]
        /\ inMap' = inMap \cup {id}
        /\ UNCHANGED <<of, call, apart>>
    BY <1>3 DEF PutNew, putRow
  <1> HIDE DEF rec
  <1>5. TypeOK'
    BY <1>1, <1>4 DEF AgreeInv, TypeOK
  <1>6. stored' = stored \cup {id} /\ inMap' = stored'
    BY <1>1, <1>4, AbsentAssumption DEF AgreeInv, TypeOK, StoresAgree, stored
  <1>7. \A i \in Ids \ {id} : rows'[i] = rows[i] /\ heap'[i] = heap[i]
    BY <1>4 DEF AgreeInv, TypeOK
  <1>8. rows'[id] = rec /\ heap'[id] = rec
    BY <1>4 DEF AgreeInv, TypeOK
  <1>9. ASSUME NEW k \in Callers, call[k].pc \in {"found", "assigned"}
        PROVE  call[k].res.id \in Ids \ {id}
    BY <1>2, <1>9 DEF AgreeInv, CopiesKnown
  <1>10. StoresAgree'
    <2>1. settled' = settled
      BY <1>4 DEF settled, assigned
    <2> QED BY <1>6, <1>7, <1>8, <2>1 DEF AgreeInv, StoresAgree, settled
  <1>11. RowsKnown'
    BY <1>1, <1>6, <1>7, <1>8 DEF AgreeInv, RowsKnown, stored
  <1>12. CopiesKnown'
    BY <1>4, <1>6, <1>7, <1>9 DEF AgreeInv, CopiesKnown
  <1>13. UpdatesSerial'
    BY <1>4, <1>7, <1>9 DEF AgreeInv, UpdatesSerial, assigned
  <1> QED BY <1>5, <1>10, <1>11, <1>12, <1>13 DEF AgreeInv

\* An assignment is an update of the shared record and of the copy alike.
LEMMA AssignAgree ==
    ASSUME AgreeInv, NEW k \in Callers, call[k].pc = "found",
           NEW copy, NEW shared,
           copy \in Record, shared \in Record,
           copy.owner = call[k].rec.owner, shared.owner = heap[call[k].res.id].owner,
           heap[call[k].res.id] = call[k].rec => shared = copy,
           call' = assigning(k, copy),
           heap' = [heap EXCEPT ![call[k].res.id] = shared],
           apart' = IF call[k].stale \/ \E j \in Callers : assigned(j, call[k].res.id)
                    THEN apart \cup {call[k].res.id} ELSE apart,
           UNCHANGED <<of, rows, inMap>>
    PROVE  AgreeInv'
  <1> DEFINE id == call[k].res.id
  <1>1. id \in Ids /\ call[k] \in Call /\ heap[id] \in Record
        /\ call[k].rec \in Record /\ call[k].rec.owner = heap[id].owner
    BY DEF AgreeInv, TypeOK, CopiesKnown
  <1>2. /\ call'[k] \in Call
        /\ call'[k].pc = "assigned" /\ call'[k].res = call[k].res
        /\ call'[k].rec = copy /\ call'[k].stale = call[k].stale
    <2> DEFINE new == [idleCall EXCEPT !.pc = "assigned", !.res = call[k].res,
                                       !.rec = copy, !.stale = call[k].stale]
    <2>1. call'[k] = new
      BY DEF assigning, AgreeInv, TypeOK
    <2>2. /\ new \in Call /\ new.pc = "assigned" /\ new.res = call[k].res
          /\ new.rec = copy /\ new.stale = call[k].stale
      BY <1>1, IdleType DEF Call
    <2> HIDE DEF new
    <2> QED BY <2>1, <2>2
  <1>3. \A j \in Callers \ {k} : call'[j] = call[j]
    BY DEF assigning, AgreeInv, TypeOK
  <1>4. call' \in [Callers -> Call]
    <2>1. DOMAIN call' = Callers /\ call' = [j \in Callers |-> call'[j]]
      BY DEF assigning, AgreeInv, TypeOK
    <2>2. \A j \in Callers : call'[j] \in Call
      BY <1>2, <1>3 DEF AgreeInv, TypeOK
    <2> QED BY <2>1, <2>2
  <1>5. heap'[id] = shared /\ \A i \in Ids \ {id} : heap'[i] = heap[i]
    BY <1>1 DEF AgreeInv, TypeOK
  <1>6. apart \subseteq apart' /\ apart' \subseteq apart \cup {id}
    OBVIOUS
  <1>7. id \notin apart' => ~call[k].stale /\ \A j \in Callers : ~assigned(j, id)
    OBVIOUS
  <1>8. stored' = stored
    BY DEF stored
  <1> HIDE DEF id
  <1>9. TypeOK'
    BY <1>1, <1>4, <1>6 DEF AgreeInv, TypeOK, id
  <1>10. \A i \in Ids, j \in Callers \ {k} : assigned(j, i)' <=> assigned(j, i)
    BY <1>3 DEF assigned
  <1>11. \A i \in Ids : (assigned(k, i)' <=> i = id) /\ ~assigned(k, i)
    BY <1>2 DEF assigned, id
  <1>12. StoresAgree'
    <2>1. ASSUME NEW i \in settled'
          PROVE  i \in settled /\ i # id
      BY <2>1, <1>1, <1>6, <1>10, <1>11 DEF settled
    <2> QED BY <1>5, <1>8, <2>1 DEF AgreeInv, StoresAgree, settled
  <1>13. RowsKnown'
    <2>1. ASSUME NEW i \in stored
          PROVE  heap'[i] \in Record /\ heap'[i].owner = rows[i].owner
      BY <1>1, <1>5, <2>1 DEF AgreeInv, RowsKnown, stored, id
    <2> QED BY <1>8, <2>1 DEF RowsKnown
  <1>14. CopiesKnown'
    <2> SUFFICES ASSUME NEW j \in Callers, call'[j].pc \in {"found", "assigned"}
                 PROVE  /\ call'[j].res.id \in Ids /\ call'[j].rec \in Record
                        /\ heap'[call'[j].res.id] \in Record
                        /\ call'[j].rec.owner = heap'[call'[j].res.id].owner
                        /\ call'[j].pc = "found" /\ ~call'[j].stale =>
                             /\ call'[j].res.id \in stored'
                             /\ call'[j].rec = rows'[call'[j].res.id]
      BY DEF CopiesKnown
    <2>1. CASE j = k
      BY <1>1, <1>2, <1>5, <2>1 DEF id
    <2>2. CASE j # k
      <3>1. /\ call[j].res.id \in Ids /\ call[j].rec \in Record
            /\ heap[call[j].res.id] \in Record
            /\ call[j].rec.owner = heap[call[j].res.id].owner
            /\ call[j].pc = "found" /\ ~call[j].stale =>
                 call[j].res.id \in stored /\ call[j].rec = rows[call[j].res.id]
        BY <1>3, <2>2 DEF AgreeInv, CopiesKnown
      <3>2. heap'[call[j].res.id] \in Record
            /\ heap'[call[j].res.id].owner = heap[call[j].res.id].owner
        BY <1>1, <1>5, <3>1 DEF id
      <3> QED BY <1>3, <1>8, <2>2, <3>1, <3>2
    <2> QED BY <2>1, <2>2
  <1>15. UpdatesSerial'
    <2> SUFFICES ASSUME NEW i \in Ids \ apart', NEW j \in Callers, assigned(j, i)'
                 PROVE  /\ \A l \in Callers : assigned(l, i)' => l = j
                        /\ ~call'[j].stale => heap'[i] = call'[j].rec
      BY DEF UpdatesSerial
    <2>1. CASE i = id
      <3>1. j = k /\ \A l \in Callers : assigned(l, i)' => l = j
        BY <1>7, <1>10, <2>1
      <3>2. ~call[k].stale /\ id \in settled /\ id \in stored /\ call[k].rec = rows[id]
        BY <1>1, <1>6, <1>7, <2>1 DEF AgreeInv, CopiesKnown, settled, id
      <3>3. heap[id] = call[k].rec
        BY <3>2 DEF AgreeInv, StoresAgree
      <3> QED BY <1>2, <1>5, <2>1, <3>1, <3>3 DEF id
    <2>2. CASE i # id
      BY <1>3, <1>5, <1>6, <1>10, <1>11, <2>2 DEF AgreeInv, UpdatesSerial
    <2> QED BY <2>1, <2>2
  <1> QED BY <1>9, <1>12, <1>13, <1>14, <1>15 DEF AgreeInv

LEMMA AssignStatusAgree ==
    ASSUME AgreeInv, NEW k \in Callers, NEW status \in Status, AssignStatus(k, status)
    PROVE  AgreeInv'
  <1> DEFINE copy == [call[k].rec EXCEPT !.status = status]
             shared == [heap[call[k].res.id] EXCEPT !.status = status]
  <1>1. /\ call[k].res.id \in Ids /\ call[k].rec \in Record
        /\ heap[call[k].res.id] \in Record /\ call[k].pc = "found"
    BY DEF AssignStatus, AgreeInv, CopiesKnown
  <1>2. /\ copy \in Record /\ shared \in Record
        /\ copy.owner = call[k].rec.owner /\ shared.owner = heap[call[k].res.id].owner
        /\ heap[call[k].res.id] = call[k].rec => shared = copy
    BY <1>1 DEF Record
  <1>3. /\ call' = assigning(k, copy)
        /\ heap' = [heap EXCEPT ![call[k].res.id] = shared]
        /\ apart' = IF call[k].stale \/ \E j \in Callers : assigned(j, call[k].res.id)
                    THEN apart \cup {call[k].res.id} ELSE apart
        /\ UNCHANGED <<of, rows, inMap>>
    BY DEF AssignStatus
  <1> HIDE DEF copy, shared
  <1> QED BY <1>1, <1>2, <1>3, AssignAgree

LEMMA AssignModeAgree ==
    ASSUME AgreeInv, NEW k \in Callers, AssignMode(k)
    PROVE  AgreeInv'
  <1> DEFINE copy == [call[k].rec EXCEPT !.mode = "relay"]
             shared == [heap[call[k].res.id] EXCEPT !.mode = "relay"]
  <1>1. /\ call[k].res.id \in Ids /\ call[k].rec \in Record
        /\ heap[call[k].res.id] \in Record /\ call[k].pc = "found"
    BY DEF AssignMode, AgreeInv, CopiesKnown
  <1>2. /\ copy \in Record /\ shared \in Record
        /\ copy.owner = call[k].rec.owner /\ shared.owner = heap[call[k].res.id].owner
        /\ heap[call[k].res.id] = call[k].rec => shared = copy
    BY <1>1 DEF Record, Mode
  <1>3. /\ call' = assigning(k, copy)
        /\ heap' = [heap EXCEPT ![call[k].res.id] = shared]
        /\ apart' = IF call[k].stale \/ \E j \in Callers : assigned(j, call[k].res.id)
                    THEN apart \cup {call[k].res.id} ELSE apart
        /\ UNCHANGED <<of, rows, inMap>>
    BY DEF AssignMode
  <1> HIDE DEF copy, shared
  <1> QED BY <1>1, <1>2, <1>3, AssignAgree

\* A step of one handler that leaves both stores alone.
LEMMA QuietAgree ==
    ASSUME AgreeInv, NEW k \in Callers,
           call' \in [Callers -> Call],
           \A j \in Callers \ {k} : call'[j] = call[j],
           call'[k].pc # "assigned",
           call'[k].pc = "found" =>
               call'[k].res.id \in stored /\ call'[k].rec = rows[call'[k].res.id],
           apart \subseteq apart', apart' \subseteq Ids,
           \A i \in Ids : assigned(k, i) => i \in apart',
           UNCHANGED <<of, rows, inMap, heap>>
    PROVE  AgreeInv'
  <1>1. TypeOK'
    BY DEF AgreeInv, TypeOK
  <1>2. stored' = stored
    BY DEF stored
  <1>3. \A i \in Ids : ~assigned(k, i)'
    BY DEF assigned
  <1>4. \A i \in Ids, j \in Callers \ {k} : assigned(j, i)' <=> assigned(j, i)
    BY DEF assigned
  <1>5. StoresAgree'
    <2>1. settled' \subseteq settled
      BY <1>4 DEF settled
    <2> QED BY <1>2, <2>1 DEF AgreeInv, StoresAgree
  <1>6. RowsKnown'
    BY <1>2 DEF AgreeInv, RowsKnown
  <1>7. CopiesKnown'
    <2> SUFFICES ASSUME NEW j \in Callers, call'[j].pc \in {"found", "assigned"}
                 PROVE  /\ call'[j].res.id \in Ids /\ call'[j].rec \in Record
                        /\ heap[call'[j].res.id] \in Record
                        /\ call'[j].rec.owner = heap[call'[j].res.id].owner
                        /\ call'[j].pc = "found" /\ ~call'[j].stale =>
                             /\ call'[j].res.id \in stored
                             /\ call'[j].rec = rows[call'[j].res.id]
      BY <1>2 DEF CopiesKnown
    <2>1. CASE j = k
      <3>1. call'[k].res.id \in stored /\ call'[k].rec = rows[call'[k].res.id]
        BY <2>1
      <3>2. \A i \in stored : i \in Ids /\ rows[i] \in Record
                                /\ heap[i] \in Record /\ heap[i].owner = rows[i].owner
        BY DEF AgreeInv, TypeOK, RowsKnown, stored
      <3> QED BY <2>1, <3>1, <3>2
    <2>2. CASE j # k
      BY <2>2 DEF AgreeInv, CopiesKnown
    <2> QED BY <2>1, <2>2
  <1>8. UpdatesSerial'
    <2> SUFFICES ASSUME NEW i \in Ids \ apart', NEW j \in Callers, assigned(j, i)'
                 PROVE  /\ \A l \in Callers : assigned(l, i)' => l = j
                        /\ ~call'[j].stale => heap[i] = call'[j].rec
      BY DEF UpdatesSerial
    <2>1. j # k /\ assigned(j, i) /\ i \notin apart /\ call'[j] = call[j]
      BY <1>3, <1>4
    <2> QED BY <1>3, <1>4, <2>1 DEF AgreeInv, UpdatesSerial
  <1> QED BY <1>1, <1>5, <1>6, <1>7, <1>8 DEF AgreeInv

LEMMA RejectAgree ==
    ASSUME AgreeInv, NEW k \in Callers, Reject(k)
    PROVE  AgreeInv'
  <1>1. call \in [Callers -> Call]
    BY DEF AgreeInv, TypeOK
  <1>2. /\ call' \in [Callers -> Call]
        /\ \A j \in Callers \ {k} : call'[j] = call[j]
        /\ call'[k].pc = "idle"
    BY <1>1, FinishedFacts, IdleType DEF Reject
  <1>3. call[k].res.id \in Ids /\ apart \subseteq Ids
    BY DEF Reject, AgreeInv, CopiesKnown, TypeOK
  <1>4. /\ apart \subseteq apart' /\ apart' \subseteq Ids
        /\ \A i \in Ids : assigned(k, i) => i \in apart'
        /\ UNCHANGED <<of, rows, inMap, heap>>
    BY <1>3 DEF Reject, assigned
  <1> QED BY <1>2, <1>4, QuietAgree

LEMMA ReturnAgree ==
    ASSUME AgreeInv, NEW k \in Callers, Return(k)
    PROVE  AgreeInv'
  <1>1. call \in [Callers -> Call]
    BY DEF AgreeInv, TypeOK
  <1>2. /\ call' \in [Callers -> Call]
        /\ \A j \in Callers \ {k} : call'[j] = call[j]
        /\ call'[k].pc = "idle"
    BY <1>1, FinishedFacts, IdleType DEF Return
  <1>3. /\ apart' = apart /\ apart \subseteq Ids
        /\ \A i \in Ids : ~assigned(k, i)
        /\ UNCHANGED <<of, rows, inMap, heap>>
    BY DEF Return, assigned, AgreeInv, TypeOK
  <1> QED BY <1>2, <1>3, QuietAgree

\* After a write of one row: the handlers that have the record in hand are outdated.
LEMMA WriteCopies ==
    ASSUME AgreeInv, NEW id \in Ids,
           call' \in [Callers -> Call],
           \A j \in Callers : call'[j].pc \in {"found", "assigned"} =>
               /\ call'[j].pc = call[j].pc /\ call'[j].res = call[j].res
               /\ call'[j].rec = call[j].rec
               /\ call[j].stale => call'[j].stale
               /\ call[j].res.id = id => call'[j].stale,
           \A i \in Ids \ {id} : rows'[i] = rows[i] /\ heap'[i] = heap[i],
           heap[id] \in Record =>
               heap'[id] \in Record /\ heap'[id].owner = heap[id].owner
    PROVE  CopiesKnown'
  <1> SUFFICES ASSUME NEW j \in Callers, call'[j].pc \in {"found", "assigned"}
               PROVE  /\ call'[j].res.id \in Ids /\ call'[j].rec \in Record
                      /\ heap'[call'[j].res.id] \in Record
                      /\ call'[j].rec.owner = heap'[call'[j].res.id].owner
                      /\ call'[j].pc = "found" /\ ~call'[j].stale =>
                           /\ call'[j].res.id \in stored'
                           /\ call'[j].rec = rows'[call'[j].res.id]
    BY DEF CopiesKnown
  <1>1. /\ call[j].res.id \in Ids /\ call[j].rec \in Record
        /\ heap[call[j].res.id] \in Record
        /\ call[j].rec.owner = heap[call[j].res.id].owner
        /\ call[j].pc = "found" /\ ~call[j].stale =>
             call[j].res.id \in stored /\ call[j].rec = rows[call[j].res.id]
    BY DEF AgreeInv, CopiesKnown
  <1>2. CASE call[j].res.id = id
    BY <1>1, <1>2
  <1>3. CASE call[j].res.id # id
    BY <1>1, <1>3 DEF stored
  <1> QED BY <1>2, <1>3

LEMMA PutAgree ==
    ASSUME AgreeInv, NEW k \in Callers, Put(k)
    PROVE  AgreeInv'
  <1> DEFINE id == call[k].res.id
             rec == call[k].rec
  <1>1. /\ id \in Ids /\ rec \in Record /\ heap[id] \in Record
        /\ rec.owner = heap[id].owner /\ call[k].pc = "assigned"
    BY DEF Put, AgreeInv, CopiesKnown
  <1>2. rows[id] # Absent => onConflict(rows[id], rec) = rec
    <2>1. rows[id] # Absent => rows[id].owner = rec.owner
      BY <1>1 DEF AgreeInv, RowsKnown, stored
    <2> QED BY <1>1, <2>1 DEF onConflict, Record
  <1>3. /\ rows' = [rows EXCEPT ![id] = rec]
        /\ inMap' = inMap \cup {id}
        /\ apart' = IF call[k].stale THEN apart \cup {id} ELSE apart
        /\ UNCHANGED <<of, heap>>
    BY <1>2 DEF Put, putRow
  <1>4. call \in [Callers -> Call] /\ call' = outdated(finished(k), id)
    BY DEF Put, AgreeInv, TypeOK
  <1>5. call' \in [Callers -> Call] /\ call'[k].pc = "idle"
    BY <1>4, FinishedFacts, OutdatedFacts, IdleType
  <1>6. \A j \in Callers \ {k} :
          /\ call'[j].pc = call[j].pc /\ call'[j].res = call[j].res
          /\ call'[j].rec = call[j].rec /\ (call[j].stale => call'[j].stale)
          /\ call[j].pc \in {"found", "assigned"} /\ call[j].res.id = id => call'[j].stale
    BY <1>4, FinishedFacts, OutdatedFacts
  <1> HIDE DEF id, rec
  <1>7. rows'[id] = rec /\ \A i \in Ids \ {id} : rows'[i] = rows[i]
    BY <1>1, <1>3 DEF AgreeInv, TypeOK
  <1>8. stored' = stored \cup {id} /\ inMap' = stored'
    BY <1>1, <1>3, <1>7, AbsentAssumption DEF AgreeInv, StoresAgree, stored
  <1>9. TypeOK'
    BY <1>1, <1>3, <1>5 DEF AgreeInv, TypeOK
  <1>10. \A i \in Ids : ~assigned(k, i)'
    BY <1>5 DEF assigned
  <1>11. \A i \in Ids, j \in Callers \ {k} : assigned(j, i)' <=> assigned(j, i)
    BY <1>6 DEF assigned
  <1>12. \A i \in Ids : assigned(k, i) <=> i = id
    BY <1>1 DEF assigned, id
  <1>13. id \notin apart' => heap[id] = rec
    BY <1>1, <1>3, <1>12 DEF AgreeInv, UpdatesSerial, id, rec
  <1>14. StoresAgree'
    <2>1. ASSUME NEW i \in settled', i # id
          PROVE  i \in settled
      BY <2>1, <1>3, <1>11, <1>12 DEF settled
    <2>2. ASSUME NEW i \in settled' \cap stored'
          PROVE  heap'[i] = rows'[i]
      BY <1>3, <1>7, <1>8, <1>13, <2>1, <2>2 DEF AgreeInv, StoresAgree, settled
    <2> QED BY <1>8, <2>2 DEF StoresAgree
  <1>15. RowsKnown'
    BY <1>1, <1>3, <1>7, <1>8 DEF AgreeInv, RowsKnown, stored
  <1>16. CopiesKnown'
    BY <1>1, <1>3, <1>5, <1>6, <1>7, WriteCopies
  <1>17. UpdatesSerial'
    <2> SUFFICES ASSUME NEW i \in Ids \ apart', NEW j \in Callers, assigned(j, i)'
                 PROVE  /\ \A l \in Callers : assigned(l, i)' => l = j
                        /\ ~call'[j].stale => heap'[i] = call'[j].rec
      BY DEF UpdatesSerial
    <2>1. j # k /\ assigned(j, i) /\ i \notin apart
      BY <1>3, <1>10, <1>11
    <2> QED BY <1>3, <1>6, <1>10, <1>11, <2>1 DEF AgreeInv, UpdatesSerial
  <1> QED BY <1>9, <1>14, <1>15, <1>16, <1>17 DEF AgreeInv

LEMMA UpdateHeartbeatAgree ==
    ASSUME AgreeInv, NEW k \in Callers, UpdateHeartbeat(k)
    PROVE  AgreeInv'
  <1> DEFINE id == call[k].res.id
  <1>1. id \in Ids /\ heap[id] \in Record /\ call[k].pc = "found"
    BY DEF UpdateHeartbeat, AgreeInv, CopiesKnown
  <1>2. call \in [Callers -> Call] /\ call' = outdated(finished(k), id)
    BY DEF UpdateHeartbeat, AgreeInv, TypeOK
  <1>3. call' \in [Callers -> Call] /\ call'[k].pc = "idle"
    BY <1>2, FinishedFacts, OutdatedFacts, IdleType
  <1>4. \A j \in Callers \ {k} :
          /\ call'[j].pc = call[j].pc /\ call'[j].res = call[j].res
          /\ call'[j].rec = call[j].rec /\ (call[j].stale => call'[j].stale)
          /\ call[j].pc \in {"found", "assigned"} /\ call[j].res.id = id => call'[j].stale
    BY <1>2, FinishedFacts, OutdatedFacts
  <1>5. UNCHANGED <<of, inMap, apart>>
    BY DEF UpdateHeartbeat
  <1>6. \A i \in Ids \ {id} : rows'[i] = rows[i] /\ heap'[i] = heap[i]
    BY DEF UpdateHeartbeat, AgreeInv, TypeOK
  <1>7. CASE rows[id] = Absent
    <2>1. rows' = rows /\ heap' = heap
      BY <1>7 DEF UpdateHeartbeat, AgreeInv, StoresAgree, stored
    <2>2. stored' = stored
      BY <2>1 DEF stored
    <2>3. TypeOK'
      BY <1>3, <1>5, <2>1 DEF AgreeInv, TypeOK
    <2>4. \A i \in Ids, j \in Callers : assigned(j, i)' <=> assigned(j, i)
      BY <1>1, <1>3, <1>4 DEF assigned
    <2> HIDE DEF id
    <2>5. StoresAgree'
      BY <1>5, <2>1, <2>2, <2>4 DEF AgreeInv, StoresAgree, settled
    <2>6. RowsKnown'
      BY <2>1, <2>2 DEF AgreeInv, RowsKnown
    <2>7. CopiesKnown'
      BY <1>1, <1>3, <1>4, <2>1, WriteCopies
    <2>8. UpdatesSerial'
      <3> SUFFICES ASSUME NEW i \in Ids \ apart', NEW j \in Callers, assigned(j, i)'
                   PROVE  /\ \A l \in Callers : assigned(l, i)' => l = j
                          /\ ~call'[j].stale => heap'[i] = call'[j].rec
        BY DEF UpdatesSerial
      <3>1. j # k
        BY <1>3 DEF assigned
      <3> QED BY <1>4, <1>5, <2>1, <2>4, <3>1 DEF AgreeInv, UpdatesSerial
    <2> QED BY <2>3, <2>5, <2>6, <2>7, <2>8 DEF AgreeInv
  <1>8. CASE rows[id] # Absent
    <2> DEFINE row == [rows[id] EXCEPT !.status = "online"]
               shared == [heap[id] EXCEPT !.status = "online"]
    <2>1. id \in inMap /\ rows[id] \in Record /\ heap[id].owner = rows[id].owner
      BY <1>1, <1>8 DEF AgreeInv, StoresAgree, RowsKnown, TypeOK, stored
    <2>2. rows'[id] = row /\ heap'[id] = shared
          /\ rows' = [rows EXCEPT ![id] = row] /\ heap' = [heap EXCEPT ![id] = shared]
      BY <1>1, <1>8, <2>1 DEF UpdateHeartbeat, AgreeInv, TypeOK
    <2>3. /\ row \in Record /\ shared \in Record
          /\ row.owner = rows[id].owner /\ shared.owner = heap[id].owner
          /\ heap[id] = rows[id] => shared = row
      BY <1>1, <2>1 DEF Record, Status
    <2> HIDE DEF row, shared
    <2>4. TypeOK'
      BY <1>1, <1>3, <1>5, <2>2, <2>3 DEF AgreeInv, TypeOK
    <2> HIDE DEF id
    <2>5. stored' = stored
      BY <1>1, <1>6, <1>8, <2>2, <2>3, AbsentAssumption DEF stored
    <2>6. \A i \in Ids, j \in Callers : assigned(j, i)' <=> assigned(j, i)
      BY <1>1, <1>3, <1>4 DEF assigned
    <2>7. StoresAgree'
      <3>1. settled' = settled
        BY <1>5, <2>6 DEF settled
      <3> QED BY <1>5, <1>6, <2>2, <2>3, <2>5, <3>1 DEF AgreeInv, StoresAgree, settled
    <2>8. RowsKnown'
      BY <1>1, <1>6, <2>1, <2>2, <2>3, <2>5 DEF AgreeInv, RowsKnown, stored
    <2>9. CopiesKnown'
      BY <1>1, <1>3, <1>4, <1>6, <2>2, <2>3, WriteCopies
    <2>10. UpdatesSerial'
      <3> SUFFICES ASSUME NEW i \in Ids \ apart', NEW j \in Callers, assigned(j, i)'
                   PROVE  /\ \A l \in Callers : assigned(l, i)' => l = j
                          /\ ~call'[j].stale => heap'[i] = call'[j].rec
        BY DEF UpdatesSerial
      <3>1. j # k /\ (i = id => call'[j].stale)
        BY <1>3, <1>4 DEF assigned
      <3> QED BY <1>4, <1>5, <1>6, <2>6, <3>1 DEF AgreeInv, UpdatesSerial
    <2> QED BY <2>4, <2>7, <2>8, <2>9, <2>10 DEF AgreeInv
  <1> QED BY <1>7, <1>8

LEMMA DeleteAgree ==
    ASSUME AgreeInv, NEW id \in Ids, Delete(id)
    PROVE  AgreeInv'
  <1>1. call \in [Callers -> Call] /\ call' = outdated(call, id)
    BY DEF Delete, AgreeInv, TypeOK
  <1>2. call' \in [Callers -> Call]
    BY <1>1, OutdatedFacts
  <1>3. \A j \in Callers :
          /\ call'[j].pc = call[j].pc /\ call'[j].res = call[j].res
          /\ call'[j].rec = call[j].rec /\ (call[j].stale => call'[j].stale)
          /\ call[j].pc \in {"found", "assigned"} /\ call[j].res.id = id => call'[j].stale
    BY <1>1, OutdatedFacts
  <1>4. /\ rows'[id] = Absent /\ \A i \in Ids \ {id} : rows'[i] = rows[i]
        /\ inMap' = inMap \ {id} /\ UNCHANGED <<of, heap, apart>>
    BY DEF Delete, AgreeInv, TypeOK
  <1>5. TypeOK'
    BY <1>2 DEF Delete, AgreeInv, TypeOK
  <1>6. stored' = stored \ {id}
    BY <1>4 DEF stored
  <1>7. \A i \in Ids, j \in Callers : assigned(j, i)' <=> assigned(j, i)
    BY <1>3 DEF assigned
  <1>8. StoresAgree'
    <2>1. settled' = settled
      BY <1>4, <1>7 DEF settled
    <2> QED BY <1>4, <1>6, <2>1 DEF AgreeInv, StoresAgree, settled
  <1>9. RowsKnown'
    BY <1>4, <1>6 DEF AgreeInv, RowsKnown, stored
  <1>10. CopiesKnown'
    BY <1>2, <1>3, <1>4, WriteCopies
  <1>11. UpdatesSerial'
    BY <1>3, <1>4, <1>7 DEF AgreeInv, UpdatesSerial
  <1> QED BY <1>5, <1>8, <1>9, <1>10, <1>11 DEF AgreeInv
-----------------------------------------------------------------------------
(* Lookups.                                                                *)

\* LIKE with a full ID matches that ID alone.
LEMMA LikeFull ==
    ASSUME NEW p \in Ids
    PROVE  like(p) = {p} \cap stored
  <1>1. \A id \in stored : id \in Ids
    BY DEF stored
  <1> QED BY <1>1, FullID, PrefixOfItself DEF like

\* What answered leaves of a handler's state.
LEMMA AnsweredFacts ==
    ASSUME AgreeInv, NEW k \in Callers, NEW p \in Seq(STRING), NEW res \in Result,
           NEW cut \in BOOLEAN,
           res.err = "nil" => res.id \in stored,
           call' = answered(k, p, res, cut)
    PROVE  /\ call' \in [Callers -> Call]
           /\ \A j \in Callers \ {k} : call'[j] = call[j]
           /\ call'[k].pc \in {"found", "done"}
           /\ call'[k].pc = "found" =>
                /\ res.err = "nil" /\ call'[k].res.id \in stored
                /\ call'[k].rec = rows[call'[k].res.id] /\ call'[k].prefix = p
           /\ call'[k].res = res /\ call'[k].ref = memoryByPrefix(p)
           /\ call'[k].cut = cut
  <1> DEFINE hit == [idleCall EXCEPT !.pc = "found", !.prefix = p, !.res = res,
                       !.ref = memoryByPrefix(p), !.cut = cut, !.rec = rows[res.id]]
             miss == [idleCall EXCEPT !.pc = "done", !.res = res,
                       !.ref = memoryByPrefix(p), !.cut = cut]
  <1>1. memoryByPrefix(p) \in Result
    BY MemoryType DEF AgreeInv, TypeOK
  <1>2. \A i \in stored : rows[i] \in Record
    BY DEF AgreeInv, TypeOK, stored
  <1>3. /\ call \in [Callers -> Call]
        /\ call' = [call EXCEPT ![k] = IF res.err = "nil" THEN hit ELSE miss]
    BY DEF answered, AgreeInv, TypeOK
  <1>4. CASE res.err = "nil"
    <2>1. /\ hit \in Call /\ hit.pc = "found" /\ hit.prefix = p /\ hit.res = res
          /\ hit.ref = memoryByPrefix(p) /\ hit.cut = cut /\ hit.rec = rows[res.id]
      BY <1>1, <1>2, <1>4, IdleType DEF Call
    <2> HIDE DEF hit, miss
    <2> QED BY <1>3, <1>4, <2>1
  <1>5. CASE res.err # "nil"
    <2>1. /\ miss \in Call /\ miss.pc = "done" /\ miss.res = res
          /\ miss.ref = memoryByPrefix(p) /\ miss.cut = cut
      BY <1>1, IdleType DEF Call
    <2> HIDE DEF hit, miss
    <2> QED BY <1>3, <1>5, <2>1
  <1> QED BY <1>4, <1>5

\* The answer of a single handler is exact.
Exact(k) ==
    /\ call[k].pc \in {"found", "done"} /\ ~call[k].cut => call[k].res = call[k].ref
    /\ call[k].pc = "found" /\ call[k].prefix \in Ids => call[k].res.id = call[k].prefix

LEMMA GetByPrefixExact ==
    ASSUME AgreeInv, NEW k \in Callers, Exact(k), NEW p \in Prefixes, GetByPrefix(k, p)
    PROVE  AgreeInv' /\ Exact(k)' /\ \A j \in Callers \ {k} : call'[j] = call[j]
  <1>1. p \in Seq(STRING) /\ call \in [Callers -> Call] /\ call[k].pc = "idle"
    BY PrefixType DEF GetByPrefix, AgreeInv, TypeOK
  <1>2. /\ UNCHANGED <<of, rows, inMap, heap, apart>> /\ apart \subseteq Ids
        /\ \A i \in Ids : ~assigned(k, i)
    BY <1>1 DEF GetByPrefix, AgreeInv, TypeOK, assigned
  <1>3. CASE p \in stored /\ call' = answered(k, p, [err |-> "nil", id |-> p], FALSE)
    <2>1. p \in Ids /\ p \in inMap /\ p \in stored
      BY <1>3 DEF AgreeInv, StoresAgree, stored
    <2> DEFINE res == [err |-> "nil", id |-> p]
    <2>2. /\ res \in Result /\ res.err = "nil" /\ res.id = p
          /\ memoryByPrefix(p) = res
      BY <2>1 DEF Result, memoryByPrefix
    <2>3. PICK cut \in BOOLEAN : call' = answered(k, p, res, cut)
      BY <1>3
    <2> HIDE DEF res
    <2>4. /\ call' \in [Callers -> Call]
          /\ \A j \in Callers \ {k} : call'[j] = call[j]
          /\ call'[k].pc \in {"found", "done"}
          /\ call'[k].pc = "found" =>
                /\ call'[k].res.id \in stored
                /\ call'[k].rec = rows[call'[k].res.id] /\ call'[k].prefix = p
          /\ call'[k].res = res /\ call'[k].ref = memoryByPrefix(p)
      BY <1>1, <2>1, <2>2, <2>3, AnsweredFacts
    <2>5. AgreeInv'
      BY <1>2, <2>4, QuietAgree
    <2> QED BY <2>2, <2>4, <2>5 DEF Exact
  <1>4. CASE call' = [call EXCEPT ![k].pc = "like", ![k].prefix = p]
    <2> DEFINE new == [call[k] EXCEPT !.pc = "like", !.prefix = p]
    <2>0. new \in Call /\ new.pc = "like" /\ call' = [call EXCEPT ![k] = new]
      BY <1>1, <1>4 DEF Call
    <2> HIDE DEF new
    <2>1. call'[k] \in Call /\ call'[k].pc = "like"
      BY <1>1, <2>0
    <2>2. /\ call' \in [Callers -> Call]
          /\ \A j \in Callers \ {k} : call'[j] = call[j]
      BY <1>1, <2>0
    <2>3. AgreeInv'
      BY <1>2, <2>1, <2>2, QuietAgree
    <2> QED BY <2>1, <2>2, <2>3 DEF Exact
  <1> QED BY <1>3, <1>4 DEF GetByPrefix

LEMMA CardinalitySmall ==
    ASSUME NEW S, Cardinality(S) = 2
    PROVE  S # {} /\ \A x : S # {x}
  <1>1. Cardinality({}) = 0
    BY FS_EmptySet
  <1>2. \A x : Cardinality({x}) = 1
    BY FS_Singleton
  <1>3. S # {}
    BY <1>1
  <1>4. ASSUME NEW x, S = {x}
        PROVE  FALSE
    <2>1. Cardinality(S) = 1
      BY <1>2, <1>4
    <2> QED BY <2>1
  <1> QED BY <1>3, <1>4

LEMMA GetByPrefixLikeExact ==
    ASSUME AgreeInv, NEW k \in Callers, Exact(k), GetByPrefixLike(k)
    PROVE  AgreeInv' /\ Exact(k)' /\ \A j \in Callers \ {k} : call'[j] = call[j]
  <1> DEFINE p == call[k].prefix
  <1>1. p \in Seq(STRING) /\ call \in [Callers -> Call] /\ call[k].pc = "like"
    BY DEF GetByPrefixLike, AgreeInv, TypeOK, Call
  <1>2. /\ UNCHANGED <<of, rows, inMap, heap, apart>> /\ apart \subseteq Ids
        /\ \A i \in Ids : ~assigned(k, i)
    BY <1>1 DEF GetByPrefixLike, AgreeInv, TypeOK, assigned
  <1>3. like(p) \subseteq stored /\ stored \subseteq Ids /\ inMap = stored
    <2>1. inMap = stored
      BY DEF AgreeInv, StoresAgree
    <2> QED BY <2>1 DEF like, stored
  <1>4. ASSUME NEW arrived \in SUBSET like(p),
               call' = answered(k, p, outcome(arrived),
                                ~(arrived = like(p) \/ Cardinality(arrived) = 2))
        PROVE  AgreeInv' /\ Exact(k)' /\ \A j \in Callers \ {k} : call'[j] = call[j]
    <2> DEFINE cut == ~(arrived = like(p) \/ Cardinality(arrived) = 2)
               res == outcome(arrived)
    <2>1. /\ res \in Result /\ cut \in BOOLEAN
          /\ res.err = "nil" => res.id \in arrived
      <3>1. arrived \in SUBSET Ids
        BY <1>3
      <3>2. outcome(arrived) \in Result
            /\ (outcome(arrived).err = "nil" => outcome(arrived).id \in arrived)
        BY <3>1, OutcomeType
      <3> QED BY <3>2
    <2>2. call' = answered(k, p, res, cut)
      BY <1>4
    <2>3. ~cut => res = memoryByPrefix(p)
      <3>1. CASE p \in inMap
        <4>1. like(p) = {p} /\ p \in Ids
          BY <1>3, <3>1, LikeFull
        <4>2. ~cut => arrived = {p}
          <5>1. arrived = {} \/ arrived = {p}
            BY <4>1
          <5>2. Cardinality(arrived) = 2 => arrived # {}
            BY CardinalitySmall
          <5> QED BY <4>1, <5>1, <5>2
        <4>3. memoryByPrefix(p) = [err |-> "nil", id |-> p]
          BY <3>1 DEF memoryByPrefix
        <4> HIDE DEF p
        <4> QED BY <4>1, <4>2, <4>3, OutcomeOne
      <3>2. CASE p \notin inMap
        <4>1. memoryByPrefix(p) = outcome(like(p))
          BY <1>3, <3>2 DEF memoryByPrefix, like
        <4>2. ASSUME Cardinality(arrived) = 2
              PROVE  outcome(arrived) = outcome(like(p))
          <5>1. arrived # {} /\ \A x : arrived # {x}
            BY <4>2, CardinalitySmall
          <5>2. like(p) # {} /\ \A x : like(p) # {x}
            BY <5>1
          <5> QED BY <5>1, <5>2 DEF outcome
        <4> QED BY <4>1, <4>2
      <3> QED BY <3>1, <3>2
    <2>4. res.err = "nil" /\ p \in Ids => res.id = p
      <3>1. p \in Ids => arrived \subseteq {p}
        BY LikeFull
      <3> QED BY <2>1, <3>1
    <2> HIDE DEF cut, res, p
    <2>5. /\ call' \in [Callers -> Call]
          /\ \A j \in Callers \ {k} : call'[j] = call[j]
          /\ call'[k].pc \in {"found", "done"}
          /\ call'[k].pc = "found" =>
                /\ res.err = "nil" /\ call'[k].res.id \in stored
                /\ call'[k].rec = rows[call'[k].res.id] /\ call'[k].prefix = p
          /\ call'[k].res = res /\ call'[k].ref = memoryByPrefix(p)
          /\ call'[k].cut = cut
      BY <1>1, <1>3, <2>1, <2>2, AnsweredFacts
    <2>6. AgreeInv'
      BY <1>2, <2>5, QuietAgree
    <2>7. Exact(k)'
      BY <2>3, <2>4, <2>5 DEF Exact
    <2> QED BY <2>5, <2>6, <2>7
  <1>5. CASE call' = finished(k)
    <2>1. /\ call' \in [Callers -> Call] /\ call'[k].pc = "idle"
          /\ \A j \in Callers \ {k} : call'[j] = call[j]
      BY <1>1, <1>5, FinishedFacts, IdleType
    <2>2. AgreeInv'
      BY <1>2, <2>1, QuietAgree
    <2> QED BY <2>1, <2>2 DEF Exact
  <1>6. \/ \E arrived \in SUBSET like(p) :
             call' = answered(k, p, outcome(arrived),
                              ~(arrived = like(p) \/ Cardinality(arrived) = 2))
        \/ call' = finished(k)
    BY DEF GetByPrefixLike, Limit
  <1> QED BY <1>4, <1>5, <1>6
-----------------------------------------------------------------------------
ExactInv == \A k \in Callers : Exact(k)

\* What a handler was told stays what it was told.
LEMMA KeepsExact ==
    ASSUME ExactInv,
           \A j \in Callers : call'[j].pc \in {"found", "done"} =>
               /\ call'[j].pc = call[j].pc /\ call'[j].prefix = call[j].prefix
               /\ call'[j].res = call[j].res /\ call'[j].ref = call[j].ref
               /\ call'[j].cut = call[j].cut
    PROVE  ExactInv'
  BY DEF ExactInv, Exact

LEMMA StepExact ==
    ASSUME AgreeInv, ExactInv, NEW k \in Callers, CallerStep(k)
    PROVE  ExactInv'
  <1>1. call \in [Callers -> Call]
    BY DEF AgreeInv, TypeOK
  <1>2. ASSUME NEW c \in [Callers -> Call], c[k].pc \notin {"found", "done"},
               \A j \in Callers \ {k} : c[j] = call[j],
               call' = c \/ \E id : call' = outdated(c, id)
        PROVE  ExactInv'
    <2>1. \A j \in Callers :
            /\ call'[j].pc = c[j].pc /\ call'[j].prefix = c[j].prefix
            /\ call'[j].res = c[j].res /\ call'[j].ref = c[j].ref
            /\ call'[j].cut = c[j].cut
      BY <1>2, OutdatedFacts
    <2> QED BY <1>2, <2>1, KeepsExact
  <1>3. ASSUME \/ call' = finished(k)
               \/ \E id : call' = outdated(finished(k), id)
        PROVE  ExactInv'
    BY <1>1, <1>2, <1>3, FinishedFacts, IdleType
  <1>4. ASSUME NEW copy \in Record, call' = assigning(k, copy)
        PROVE  ExactInv'
    <2> DEFINE new == [idleCall EXCEPT !.pc = "assigned", !.res = call[k].res,
                                       !.rec = copy, !.stale = call[k].stale]
    <2>1. new \in Call /\ new.pc = "assigned"
      BY <1>1, IdleType DEF Call
    <2>2. call' = [call EXCEPT ![k] = new]
      BY <1>4 DEF assigning
    <2> HIDE DEF new
    <2> QED BY <1>1, <1>2, <2>1, <2>2
  <1>5. ASSUME call[k].pc = "found"
        PROVE  call[k].rec \in Record
    BY <1>5 DEF AgreeInv, CopiesKnown
  <1>6. ASSUME NEW p \in Prefixes, GetByPrefix(k, p)
        PROVE  ExactInv'
    <2>1. Exact(k)' /\ \A j \in Callers \ {k} : call'[j] = call[j]
      BY <1>6, GetByPrefixExact DEF ExactInv
    <2> QED BY <2>1 DEF ExactInv, Exact
  <1>7. ASSUME GetByPrefixLike(k)
        PROVE  ExactInv'
    <2>1. Exact(k)' /\ \A j \in Callers \ {k} : call'[j] = call[j]
      BY <1>7, GetByPrefixLikeExact DEF ExactInv
    <2> QED BY <2>1 DEF ExactInv, Exact
  <1>8. ASSUME NEW status \in Status, AssignStatus(k, status)
        PROVE  ExactInv'
    <2>1. /\ call[k].pc = "found"
          /\ call' = assigning(k, [call[k].rec EXCEPT !.status = status])
      BY <1>8 DEF AssignStatus
    <2>2. [call[k].rec EXCEPT !.status = status] \in Record
      BY <1>5, <2>1 DEF Record
    <2> QED BY <1>4, <2>1, <2>2
  <1>9. ASSUME AssignMode(k)
        PROVE  ExactInv'
    <2>1. /\ call[k].pc = "found"
          /\ call' = assigning(k, [call[k].rec EXCEPT !.mode = "relay"])
      BY <1>9 DEF AssignMode
    <2>2. [call[k].rec EXCEPT !.mode = "relay"] \in Record
      BY <1>5, <2>1 DEF Record, Mode
    <2> QED BY <1>4, <2>1, <2>2
  <1>10. CASE Return(k) \/ Reject(k)
    BY <1>3, <1>10 DEF Return, Reject
  <1>11. CASE Put(k)
    BY <1>3, <1>11 DEF Put
  <1>12. CASE UpdateHeartbeat(k)
    BY <1>3, <1>12 DEF UpdateHeartbeat
  <1> QED
    BY <1>6, <1>7, <1>8, <1>9, <1>10, <1>11, <1>12 DEF CallerStep

LEMMA StepAgree ==
    ASSUME AgreeInv, ExactInv, NEW k \in Callers, CallerStep(k)
    PROVE  AgreeInv'
  <1>1. Exact(k)
    BY DEF ExactInv
  <1>2. ASSUME NEW p \in Prefixes, GetByPrefix(k, p)
        PROVE  AgreeInv'
    BY <1>1, <1>2, GetByPrefixExact
  <1>3. CASE GetByPrefixLike(k)
    BY <1>1, <1>3, GetByPrefixLikeExact
  <1>4. ASSUME NEW status \in Status, AssignStatus(k, status)
        PROVE  AgreeInv'
    BY <1>4, AssignStatusAgree
  <1>5. CASE Return(k)
    BY <1>5, ReturnAgree
  <1>6. CASE AssignMode(k)
    BY <1>6, AssignModeAgree
  <1>7. CASE Put(k)
    BY <1>7, PutAgree
  <1>8. CASE Reject(k)
    BY <1>8, RejectAgree
  <1>9. CASE UpdateHeartbeat(k)
    BY <1>9, UpdateHeartbeatAgree
  <1> QED
    BY <1>2, <1>3, <1>4, <1>5, <1>6, <1>7, <1>8, <1>9 DEF CallerStep

LEMMA NextAgree ==
    ASSUME AgreeInv, ExactInv, [Next]_vars
    PROVE  AgreeInv' /\ ExactInv'
  <1>1. ASSUME NEW k \in Callers, CallerStep(k)
        PROVE  AgreeInv' /\ ExactInv'
    BY <1>1, StepAgree, StepExact
  <1>2. ASSUME NEW id \in Ids, Delete(id)
        PROVE  AgreeInv' /\ ExactInv'
    <2>1. call \in [Callers -> Call] /\ call' = outdated(call, id)
      BY <1>2 DEF Delete, AgreeInv, TypeOK
    <2> QED BY <1>2, <2>1, DeleteAgree, OutdatedFacts, KeepsExact
  <1>3. ASSUME NEW id \in Ids, NEW owner \in Owners \cup {Absent}, PutNew(id, owner)
        PROVE  AgreeInv' /\ ExactInv'
    <2>1. call' = call
      BY <1>3 DEF PutNew
    <2> QED BY <1>3, <2>1, PutNewAgree, KeepsExact
  <1>4. CASE UNCHANGED vars
    <2>1. ExactInv'
      BY <1>4, KeepsExact DEF vars
    <2>2. stored' = stored
      BY <1>4 DEF vars, stored
    <2>3. settled' = settled
      BY <1>4 DEF vars, settled, assigned
    <2>4. TypeOK' /\ StoresAgree' /\ RowsKnown'
      BY <1>4, <2>2, <2>3 DEF vars, AgreeInv, TypeOK, StoresAgree, RowsKnown
    <2>5. CopiesKnown' /\ UpdatesSerial'
      BY <1>4, <2>2 DEF vars, AgreeInv, CopiesKnown, UpdatesSerial, assigned
    <2> QED BY <2>1, <2>4, <2>5 DEF AgreeInv
  <1> QED BY <1>1, <1>2, <1>3, <1>4 DEF Next
-----------------------------------------------------------------------------
(* The theorems.                                                           *)

LEMMA InitExact == Init => ExactInv
  BY IdleType DEF Init, ExactInv, Exact

LEMMA StoresInductive == Spec => [](AgreeInv /\ ExactInv)
  <1>1. Init => AgreeInv /\ ExactInv
    BY InitAgree, InitExact
  <1>2. AgreeInv /\ ExactInv /\ [Next]_vars => (AgreeInv /\ ExactInv)'
    BY NextAgree
  <1> QED BY <1>1, <1>2, PTL DEF Spec

\* The variables of the two stores and of the handlers keep their types.
THEOREM StoresTyped == Spec => []TypeOK
  <1>1. AgreeInv => TypeOK
    BY DEF AgreeInv
  <1> QED BY <1>1, StoresInductive, PTL

\* MemoryStore and PostgresStore hold the same records, whatever PutSession,
\* PutProvider, UpdateHeartbeat and the deletions are called on by however many
\* handlers, for every record on which no update overlapped or was abandoned.
THEOREM StoresInterchangeable == Spec => []StoresAgree
  <1>1. AgreeInv => StoresAgree
    BY DEF AgreeInv
  <1> QED BY <1>1, StoresInductive, PTL

\* GetProviderByPrefix and GetSessionByPrefix of PostgresStore, two queries with
\* writes in between, give the answer of MemoryStore's, one step under its lock,
\* unless the rows broke off.
THEOREM LookupsInterchangeable == Spec => []LookupsAgree
  <1>1. ExactInv => LookupsAgree
    BY DEF ExactInv, Exact, LookupsAgree
  <1> QED BY <1>1, StoresInductive, PTL

\* A lookup with a full ID never returns another record, even if rows.Err, which is
\* not asked, would have told that the rows broke off.
THEOREM FullIDsExact == Spec => []FullIDExact
  <1>1. ExactInv => FullIDExact
    BY DEF ExactInv, Exact, FullIDExact
  <1> QED BY <1>1, StoresInductive, PTL

\* ListProviders, ListSessions and GetTerminatedSessionIDs, in SQL and as loops over a
\* map, select the same settled records.
THEOREM AnswersInterchangeable == Spec => []AnswersAgree
  <1>1. ASSUME StoresAgree
        PROVE  AnswersAgree
    <2>1. \A id \in settled : (id \in stored <=> id \in inMap)
                              /\ (id \in stored => heap[id] = rows[id])
      BY <1>1 DEF StoresAgree
    <2>2. ASSUME NEW owner, NEW status
          PROVE  ListRows(owner, status) \cap settled = ListMap(owner, status) \cap settled
      BY <2>1 DEF ListRows, ListMap
    <2>3. ASSUME NEW owner
          PROVE  TerminatedRows(Ids, owner) \cap settled
                   = TerminatedMap(Ids, owner) \cap settled
      BY <2>1 DEF TerminatedRows, TerminatedMap, settled
    <2> QED BY <2>2, <2>3 DEF AnswersAgree
  <1>2. StoresAgree => AnswersAgree
    BY <1>1
  <1> QED BY <1>2, StoresInterchangeable, PTL
=============================================================================
