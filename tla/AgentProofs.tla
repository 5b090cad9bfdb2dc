----------------------------- MODULE AgentProofs -----------------------------
(***************************************************************************)
(* Agent, for every number of sessions, starts, stops, crashes and         *)
(* shutdowns.  The inductive invariant says for each start what it has     *)
(* made and can still cancel (StartInv), for each stop what it has taken   *)
(* and what is left of it (StopInv), and that only a start that got past   *)
(* its reservation is tracked.  A step of one goroutine is Quiet for the   *)
(* starts that other goroutines execute; the lemmas about Quiet carry      *)
(* their part of the invariant over the step.                              *)
(***************************************************************************)
EXTENDS Agent, TLAPS

Tracked ==
    \A s \in Sessions : tracked[s] # None =>
        start[tracked[s]].sid = s /\ start[tracked[s]].pc \notin {"unused", "reserve"}

FailedPC == {"fail.wgdown", "fail.config", "fail.report", "failed"}
WithContainer == {"connect", "config", "wgup", "proxy", "report", "done"}

\* A relay client can be cancelled by its own start's relayCancel, a proxy too if the
\* start was tracked when the proxy began; a proxy never outlives a failed start.
StartInv(g) ==
    /\ start[g].pc # "unused" => start[g].sid # None
    /\ <<g, "relay">> \in helpers =>
        start[g].pc # "unused" /\ <<g, "relay">> \in start[g].relayCancel
    /\ <<g, "proxy">> \in helpers => start[g].pc \in {"report", "done"}
    /\ <<g, "proxy">> \in helpers /\ tracked[start[g].sid] = g =>
        <<g, "proxy">> \in start[g].relayCancel
    /\ start[g].pc \in WithContainer => start[g].containerID
    /\ start[g].pc \in FailedPC /\ ~ctxDone =>
        /\ start[g].containerID => g \notin containers
        /\ <<g, "relay">> \notin helpers

\* What a stop has taken is no longer tracked, and was not taken by another.
StopInv(k) ==
    /\ stop[k].pc # "unused" => stop[k].sid # None
    /\ stop[k].rs # None <=> stop[k].pc \notin {"unused", "lookup"}
    /\ stop[k].rs # None =>
        /\ \A s \in Sessions : tracked[s] # stop[k].rs
        /\ start[stop[k].rs].pc \notin {"unused", "reserve"}
    /\ stop[k].completed =>
        /\ stop[k].rs # None /\ start[stop[k].rs].pc = "done"
        /\ <<stop[k].rs, "proxy">> \in helpers =>
            <<stop[k].rs, "proxy">> \in start[stop[k].rs].relayCancel
    /\ stop[k].completed /\ stop[k].pc \in {"container", "wgdown", "config", "report"} =>
        <<stop[k].rs, "relay">> \notin helpers /\ <<stop[k].rs, "proxy">> \notin helpers
    /\ stop[k].completed /\ stop[k].pc \in {"wgdown", "config", "report"} =>
        stop[k].rs \notin containers

AgentInv ==
    /\ TypeOK /\ Tracked /\ ExclusiveStop
    /\ \A g \in Starts : StartInv(g)
    /\ \A k \in Stops : StopInv(k)

\* A step that does nothing to h but cancel or remove.
Quiet(h) ==
    /\ start'[h].pc = start[h].pc /\ start'[h].sid = start[h].sid
    /\ start'[h].containerID = start[h].containerID
    /\ start[h].relayCancel \subseteq start'[h].relayCancel
    /\ <<h, "relay">> \in helpers' => <<h, "relay">> \in helpers
    /\ <<h, "proxy">> \in helpers' => <<h, "proxy">> \in helpers
    /\ h \in containers' => h \in containers
    /\ \A s \in Sessions : tracked'[s] = h => tracked[s] = h
    /\ ctxDone => ctxDone'

LEMMA InitInv == Init => AgentInv
<1> SUFFICES ASSUME Init PROVE AgentInv
  OBVIOUS
<1> USE AgentAssumption DEF Init
<1>1. TypeOK
  BY DEF TypeOK, newStart, newStop, newMain, Start, Stop, StartPC, StopPC, Helper
<1>2. Tracked /\ ExclusiveStop
  BY DEF Tracked, ExclusiveStop, newStop
<1>3. \A g \in Starts : StartInv(g)
  BY DEF StartInv, newStart, WithContainer, FailedPC
<1>4. \A k \in Stops : StopInv(k)
  BY DEF StopInv, newStop
<1> QED BY <1>1, <1>2, <1>3, <1>4 DEF AgentInv

LEMMA QuietStart ==
    ASSUME TypeOK, NEW h \in Starts, StartInv(h), Quiet(h)
    PROVE  StartInv(h)'
<1>1. start[h].pc # "unused" => start[h].sid \in Sessions
  BY DEF TypeOK, Start, StartInv
<1>2. <<h, "proxy">> \in helpers /\ tracked'[start[h].sid] = h =>
        tracked[start[h].sid] = h
  BY <1>1 DEF StartInv, Quiet
<1> QED BY <1>2 DEF StartInv, Quiet

LEMMA QuietStop ==
    ASSUME TypeOK, NEW k \in Stops, StopInv(k), stop'[k] = stop[k],
           stop[k].rs # None => Quiet(stop[k].rs)
    PROVE  StopInv(k)'
<1>1. CASE stop[k].rs = None
  BY <1>1 DEF StopInv
<1>2. CASE stop[k].rs # None
  BY <1>2 DEF StopInv, Quiet
<1> QED BY <1>1, <1>2

\* A stop that has taken the object of a start still at work.
LEMMA BusyStop ==
    ASSUME TypeOK, NEW k \in Stops, StopInv(k), stop'[k] = stop[k], stop[k].rs # None,
           start[stop[k].rs].pc # "done",
           start'[stop[k].rs].pc \notin {"unused", "reserve"},
           \A s \in Sessions : tracked'[s] # stop[k].rs
    PROVE  StopInv(k)'
BY DEF StopInv

\* What a step of start g has to be for the invariant to survive it.
StartStepOK(g) ==
    /\ TypeOK' /\ StartInv(g)'
    /\ \A h \in Starts : h # g => Quiet(h)
    /\ stop' = stop
    /\ start[g].pc # "done" /\ start'[g].pc \notin {"unused", "reserve"}
    /\ start'[g].sid = start[g].sid
    /\ \A s \in Sessions :
        \/ tracked'[s] \in {tracked[s], None}
        \/ tracked'[s] = g /\ s = start[g].sid /\ start[g].pc = "reserve"

LEMMA StartStepKeeps ==
    ASSUME AgentInv, NEW g \in Starts, StartStepOK(g)
    PROVE  AgentInv'
<1> USE AgentAssumption
<1>1. TypeOK /\ Tracked /\ ExclusiveStop
  BY DEF AgentInv
<1>2. \A h \in Starts : StartInv(h)'
  BY QuietStart DEF AgentInv, StartStepOK
<1>3. Tracked'
  <2> SUFFICES ASSUME NEW s \in Sessions, tracked'[s] # None
               PROVE  /\ start'[tracked'[s]].sid = s
                      /\ start'[tracked'[s]].pc \notin {"unused", "reserve"}
    BY DEF Tracked
  <2>1. CASE tracked'[s] = g
    BY <1>1, <2>1 DEF StartStepOK, Tracked, TypeOK
  <2>2. CASE tracked'[s] # g
    <3>1. tracked'[s] = tracked[s] /\ tracked[s] \in Starts
      BY <1>1, <2>2 DEF StartStepOK, TypeOK
    <3>2. Quiet(tracked[s])
      BY <2>2, <3>1 DEF StartStepOK
    <3>3. /\ start[tracked[s]].sid = s
          /\ start[tracked[s]].pc \notin {"unused", "reserve"}
      BY <1>1, <3>1 DEF Tracked
    <3>4. /\ start'[tracked[s]].sid = start[tracked[s]].sid
          /\ start'[tracked[s]].pc = start[tracked[s]].pc
      BY <3>2 DEF Quiet
    <3> QED BY <3>1, <3>3, <3>4
  <2> QED BY <2>1, <2>2
<1>4. ASSUME NEW k \in Stops PROVE StopInv(k)'
  <2>1. StopInv(k) /\ stop'[k] = stop[k]
    BY DEF AgentInv, StartStepOK
  <2>2. CASE stop[k].rs = g
    <3>1. ASSUME NEW s \in Sessions PROVE tracked'[s] # g
      <4>1. tracked[s] # g /\ start[g].pc # "reserve" /\ g # None
        BY <2>1, <2>2 DEF StopInv
      <4> QED BY <4>1 DEF StartStepOK
    <3> QED BY <1>1, <2>1, <2>2, <3>1, BusyStop DEF StartStepOK
  <2>3. CASE stop[k].rs # g
    BY <1>1, <2>1, <2>3, QuietStop DEF StartStepOK, TypeOK, Stop
  <2> QED BY <2>2, <2>3
<1>5. ExclusiveStop'
  BY <1>1 DEF ExclusiveStop, StartStepOK
<1> QED BY <1>2, <1>3, <1>4, <1>5 DEF AgentInv, StartStepOK

\* What a step of stop k has to be.
StopStepOK(k) ==
    /\ TypeOK' /\ StopInv(k)'
    /\ \A h \in Starts : Quiet(h)
    /\ \A j \in Stops : j # k => stop'[j] = stop[j]
    /\ \A s \in Sessions : tracked'[s] \in {tracked[s], None}
    /\ \/ stop'[k].rs \in {stop[k].rs, None}
       \/ \E s \in Sessions : tracked[s] = stop'[k].rs

LEMMA StopStepKeeps ==
    ASSUME AgentInv, NEW k \in Stops, StopStepOK(k)
    PROVE  AgentInv'
<1> USE AgentAssumption
<1>1. TypeOK /\ Tracked /\ ExclusiveStop
  BY DEF AgentInv
<1>2. \A h \in Starts : StartInv(h)'
  BY QuietStart DEF AgentInv, StopStepOK
<1>3. Tracked'
  <2> SUFFICES ASSUME NEW s \in Sessions, tracked'[s] # None
               PROVE  /\ start'[tracked'[s]].sid = s
                      /\ start'[tracked'[s]].pc \notin {"unused", "reserve"}
    BY DEF Tracked
  <2>1. tracked'[s] = tracked[s] /\ tracked[s] \in Starts
    BY <1>1 DEF StopStepOK, TypeOK
  <2>2. Quiet(tracked[s])
    BY <2>1 DEF StopStepOK
  <2> QED BY <1>1, <2>1, <2>2 DEF Tracked, Quiet
<1>4. ASSUME NEW j \in Stops PROVE StopInv(j)'
  <2>1. CASE j = k
    BY <2>1 DEF StopStepOK
  <2>2. CASE j # k
    <3>1. StopInv(j) /\ stop'[j] = stop[j]
      BY <2>2 DEF AgentInv, StopStepOK
    <3>2. stop[j].rs # None => Quiet(stop[j].rs)
      BY <1>1 DEF StopStepOK, TypeOK, Stop
    <3> QED BY <1>1, <3>1, <3>2, QuietStop
  <2> QED BY <2>1, <2>2
<1>5. ExclusiveStop'
  <2> SUFFICES ASSUME NEW i \in Stops, NEW j \in Stops, i # j, stop'[i].rs # None,
                      stop'[i].rs = stop'[j].rs
               PROVE  FALSE
    BY DEF ExclusiveStop
  <2>1. \A l \in Stops : StopInv(l)
    BY DEF AgentInv
  <2>2. CASE i # k /\ j # k
    BY <1>1, <2>2 DEF ExclusiveStop, StopStepOK
  <2>3. ASSUME NEW l \in Stops, l # k, stop'[l].rs = stop'[k].rs, stop'[k].rs # None
        PROVE  FALSE
    <3>1. stop[l].rs = stop'[k].rs
      BY <2>3 DEF StopStepOK
    <3>2. \A s \in Sessions : tracked[s] # stop[l].rs
      BY <2>1, <2>3, <3>1 DEF StopInv
    <3>3. stop[k].rs # stop[l].rs
      BY <1>1, <2>3, <3>1 DEF ExclusiveStop
    <3> QED BY <2>3, <3>1, <3>2, <3>3 DEF StopStepOK
  <2> QED BY <2>2, <2>3
<1> QED BY <1>2, <1>3, <1>4, <1>5 DEF AgentInv, StopStepOK

-----------------------------------------------------------------------------
(* Every step of startSession is such a step.                              *)

LEMMA ReserveStep ==
    ASSUME AgentInv, NEW g \in Starts, Reserve(g)
    PROVE  StartStepOK(g)
<1> USE AgentAssumption
<1>1. TypeOK /\ StartInv(g) /\ start[g].sid \in Sessions
  BY DEF AgentInv, StartInv, TypeOK, Start, Reserve, StartAt
<1>2. PICK pc \in {"duplicate", "fail.untrack", "container"} :
        start' = [start EXCEPT ![g].pc = pc]
  BY DEF Reserve, GotoStart
<1>3. TypeOK'
  BY <1>1, <1>2 DEF Reserve, TypeOK, Start, StartPC, dockerAndWG
<1>4. StartInv(g)'
  BY <1>1, <1>2 DEF Reserve, StartAt, StartInv, TypeOK, Start, WithContainer, FailedPC,
      ctxDone, dockerAndWG
<1>5. \A h \in Starts : h # g => Quiet(h)
  BY <1>1, <1>2 DEF Reserve, Quiet, TypeOK, ctxDone, dockerAndWG
<1>6. StartStepOK(g)
  BY <1>1, <1>2, <1>3, <1>4, <1>5 DEF StartStepOK, Reserve, StartAt, TypeOK, Start
<1> QED BY <1>6

LEMMA ContainerStep ==
    ASSUME AgentInv, NEW g \in Starts, StartContainer(g) \/ StartContainerFails(g)
    PROVE  StartStepOK(g)
<1> USE AgentAssumption DEF StartContainer, StartContainerFails
<1>1. TypeOK /\ StartInv(g) /\ start[g].pc = "container"
  BY DEF AgentInv, StartAt
<1>2. \/ start' = [start EXCEPT ![g].pc = "connect", ![g].containerID = TRUE]
      \/ start' = [start EXCEPT ![g].pc = "fail.untrack"]
  BY DEF GotoStart
<1>3. containers' \subseteq containers \cup {g}
  BY DEF otherContainers
<1>4. UNCHANGED <<status, loops, tracked, stop, helpers, iface, conf, main, ends>>
  OBVIOUS
<1> HIDE DEF StartContainer, StartContainerFails
<1>5. TypeOK'
  BY <1>1, <1>2, <1>3, <1>4 DEF TypeOK, Start, StartPC
<1>6. StartInv(g)'
  BY <1>1, <1>2, <1>4 DEF StartInv, TypeOK, Start, WithContainer, FailedPC
<1>7. \A h \in Starts : h # g => Quiet(h)
  BY <1>1, <1>2, <1>3, <1>4 DEF Quiet, TypeOK, ctxDone
<1>8. StartStepOK(g)
  BY <1>1, <1>2, <1>4, <1>5, <1>6, <1>7 DEF StartStepOK, TypeOK, Start
<1> QED BY <1>8

LEMMA ConnectStep ==
    ASSUME AgentInv, NEW g \in Starts, Connect(g)
    PROVE  StartStepOK(g)
<1> USE AgentAssumption
<1>1. TypeOK /\ StartInv(g) /\ start[g].pc = "connect"
  BY DEF AgentInv, StartAt, Connect
<1>2. UNCHANGED <<status, loops, tracked, stop, main, ends, containers, iface, conf>>
  BY DEF Connect, dockerAndWG
<1>3. \/ /\ start' = [start EXCEPT ![g].pc = "config"]
         /\ helpers' = helpers
      \/ /\ start' = [start EXCEPT ![g].pc = "fail.untrack"]
         /\ helpers' = helpers
      \/ /\ start' = [start EXCEPT ![g].pc = "config", ![g].relayCancel = {<<g, "relay">>}]
         /\ helpers' \subseteq helpers \cup {<<g, "relay">>}
  BY DEF Connect, GotoStart, withHelper
<1>4. TypeOK'
  <2>1. {<<g, "relay">>} \subseteq Helper
    BY DEF Helper
  <2>2. start' \in [Starts -> Start]
    BY <1>1, <1>3, <2>1 DEF TypeOK, Start, StartPC
  <2>3. helpers' \subseteq Helper
    BY <1>1, <1>3, <2>1 DEF TypeOK
  <2> QED BY <1>1, <1>2, <2>2, <2>3 DEF TypeOK
<1>5. <<g, "proxy">> \notin helpers' /\ <<g, "proxy">> \notin helpers
  BY <1>1, <1>3 DEF StartInv
<1>6. StartInv(g)'
  BY <1>1, <1>2, <1>3, <1>5 DEF StartInv, TypeOK, Start, WithContainer, FailedPC
<1>7. \A h \in Starts : h # g => Quiet(h)
  BY <1>1, <1>2, <1>3 DEF Quiet, TypeOK, ctxDone
<1>8. StartStepOK(g)
  BY <1>1, <1>2, <1>3, <1>4, <1>6, <1>7 DEF StartStepOK, TypeOK, Start
<1> QED BY <1>8

\* Steps that only touch files and interfaces.
LEMMA ConfigStep ==
    ASSUME AgentInv, NEW g \in Starts,
           WriteConfig(g) \/ WGUp(g) \/ FailWGDown(g) \/ FailRemoveConfig(g)
    PROVE  StartStepOK(g)
<1> USE AgentAssumption
<1>1. TypeOK /\ StartInv(g)
  BY DEF AgentInv
<1>2. UNCHANGED <<status, loops, tracked, stop, main, ends, containers, helpers>>
  BY DEF WriteConfig, WGUp, FailWGDown, FailRemoveConfig
<1>3. \/ /\ start[g].pc \in {"config", "wgup"}
         /\ \/ start' = [start EXCEPT ![g].pc = "wgup", ![g].wgConfPath = TRUE]
            \/ start' = [start EXCEPT ![g].pc = "proxy"]
            \/ start' = [start EXCEPT ![g].pc = "fail.untrack"]
      \/ /\ start[g].pc = "fail.wgdown"
         /\ start' = [start EXCEPT ![g].pc = "fail.config"]
      \/ /\ start[g].pc = "fail.config"
         /\ start' = [start EXCEPT ![g].pc = "fail.report"]
  BY DEF WriteConfig, WGUp, FailWGDown, FailRemoveConfig, GotoStart, StartAt
<1>4. TypeOK'
  <2>1. start' \in [Starts -> Start]
    BY <1>1, <1>3 DEF TypeOK, Start, StartPC
  <2>2. start[g].sid \in Sessions
    BY <1>1, <1>3 DEF StartInv, TypeOK, Start
  <2>3. iface' \subseteq Sessions /\ conf' \subseteq Sessions
    BY <1>1, <2>2 DEF TypeOK, WriteConfig, WGUp, FailWGDown, FailRemoveConfig, WGDown
  <2> QED BY <1>1, <1>2, <2>1, <2>3 DEF TypeOK
<1>5. StartInv(g)'
  BY <1>1, <1>2, <1>3 DEF StartInv, TypeOK, Start, WithContainer, FailedPC, ctxDone
<1>6. \A h \in Starts : h # g => Quiet(h)
  BY <1>1, <1>2, <1>3 DEF Quiet, TypeOK, ctxDone
<1>7. StartStepOK(g)
  BY <1>1, <1>2, <1>3, <1>4, <1>5, <1>6 DEF StartStepOK, TypeOK, Start
<1> QED BY <1>7

\* The proxy's cancel function goes to the object that is tracked, which may be
\* another start's.
LEMMA ProxyStep ==
    ASSUME AgentInv, NEW g \in Starts, StartProxy(g)
    PROVE  StartStepOK(g)
<1> USE AgentAssumption
<1>1. TypeOK /\ StartInv(g) /\ start[g].pc = "proxy"
  BY DEF AgentInv, StartAt, StartProxy
<1>2. UNCHANGED <<status, loops, tracked, stop, main, ends, containers, iface, conf>>
  BY DEF StartProxy, dockerAndWG
<1>3. helpers' \subseteq helpers \cup {<<g, "proxy">>}
  BY DEF StartProxy, withHelper
<1> PICK current : current = tracked[start[g].sid]
  OBVIOUS
<1>4. start' = [r \in Starts |->
            [start[r] EXCEPT
                !.pc = IF r = g THEN "report" ELSE @,
                !.relayCancel = IF r = current THEN @ \cup {<<g, "proxy">>} ELSE @]]
  BY DEF StartProxy
<1>5. ASSUME NEW r \in Starts
      PROVE  /\ start'[r] \in Start
             /\ start'[r].pc = IF r = g THEN "report" ELSE start[r].pc
             /\ start'[r].sid = start[r].sid
             /\ start'[r].containerID = start[r].containerID
             /\ start'[r].relayCancel = IF r = current
                    THEN start[r].relayCancel \cup {<<g, "proxy">>}
                    ELSE start[r].relayCancel
  <2>1. start[r] \in Start /\ <<g, "proxy">> \in Helper
    BY <1>1 DEF TypeOK, Helper
  <2>2. start'[r] = [start[r] EXCEPT
            !.pc = IF r = g THEN "report" ELSE start[r].pc,
            !.relayCancel = IF r = current THEN start[r].relayCancel \cup {<<g, "proxy">>}
                            ELSE start[r].relayCancel]
    BY <1>4, <2>1 DEF Start
  <2>3. PICK pc \in StartPC : pc = IF r = g THEN "report" ELSE start[r].pc
    BY <2>1 DEF Start, StartPC
  <2>4. PICK rc \in SUBSET Helper :
            rc = IF r = current THEN start[r].relayCancel \cup {<<g, "proxy">>}
                 ELSE start[r].relayCancel
    BY <2>1 DEF Start
  <2>5. start'[r] = [start[r] EXCEPT !.pc = pc, !.relayCancel = rc]
    BY <2>2, <2>3, <2>4
  <2>6. /\ start'[r] \in Start /\ start'[r].pc = pc /\ start'[r].relayCancel = rc
        /\ start'[r].sid = start[r].sid /\ start'[r].containerID = start[r].containerID
    BY <2>1, <2>5 DEF Start
  <2> QED BY <2>3, <2>4, <2>6
<1>6. TypeOK'
  <2>1. start' \in [Starts -> Start]
    BY <1>4, <1>5
  <2>2. helpers' \subseteq Helper
    BY <1>1, <1>3 DEF TypeOK, Helper
  <2> QED BY <1>1, <1>2, <2>1, <2>2 DEF TypeOK
<1>7. StartInv(g)'
  BY <1>1, <1>2, <1>3, <1>5 DEF StartInv, WithContainer, FailedPC
<1>8. \A h \in Starts : h # g => Quiet(h)
  BY <1>2, <1>3, <1>5 DEF Quiet, ctxDone
<1>9. StartStepOK(g)
  BY <1>1, <1>2, <1>5, <1>6, <1>7, <1>8 DEF StartStepOK
<1> QED BY <1>9

LEMMA ReportStep ==
    ASSUME AgentInv, NEW g \in Starts, ReportRunning(g) \/ FailReport(g) \/ FailUntrack(g)
    PROVE  StartStepOK(g)
<1> USE AgentAssumption
<1>1. TypeOK /\ StartInv(g)
  BY DEF AgentInv
<1>2. UNCHANGED <<loops, stop, main, ends, helpers, containers, iface, conf>>
  BY DEF ReportRunning, FailReport, FailUntrack, dockerAndWG
<1>3. \/ /\ start[g].pc = "report" /\ tracked' = tracked
         /\ start' = [start EXCEPT ![g].pc = "done"]
      \/ /\ start[g].pc = "fail.report" /\ tracked' = tracked
         /\ start' = [start EXCEPT ![g].pc = "failed"]
      \/ /\ start[g].pc = "fail.untrack"
         /\ tracked' = [tracked EXCEPT ![start[g].sid] = None]
         /\ start' = [start EXCEPT ![g].pc = "fail.container"]
  BY DEF ReportRunning, FailReport, FailUntrack, GotoStart, StartAt
<1>4. start[g].sid \in Sessions
  BY <1>1, <1>3 DEF StartInv, TypeOK, Start
<1>5. TypeOK'
  <2>1. start' \in [Starts -> Start]
    BY <1>1, <1>3 DEF TypeOK, Start, StartPC
  <2>2. tracked' \in [Sessions -> Starts \cup {None}]
    BY <1>1, <1>3 DEF TypeOK
  <2>3. status' \in [Sessions -> {"none", "pending", "running", "terminated"}]
    BY <1>1, <1>4 DEF TypeOK, ReportRunning, FailReport, FailUntrack, updateStatus
  <2> QED BY <1>1, <1>2, <2>1, <2>2, <2>3 DEF TypeOK
<1>6. StartInv(g)'
  BY <1>1, <1>2, <1>3, <1>4 DEF StartInv, TypeOK, Start, WithContainer, FailedPC, ctxDone
<1>7. \A h \in Starts : h # g => Quiet(h)
  BY <1>1, <1>2, <1>3 DEF Quiet, TypeOK, ctxDone
<1>8. StartStepOK(g)
  BY <1>1, <1>2, <1>3, <1>5, <1>6, <1>7 DEF StartStepOK, TypeOK, Start
<1> QED BY <1>8

LEMMA FailContainerStep ==
    ASSUME AgentInv, NEW g \in Starts, FailContainer(g)
    PROVE  StartStepOK(g)
<1> USE AgentAssumption
<1>1. TypeOK /\ StartInv(g) /\ start[g].pc = "fail.container"
  BY DEF AgentInv, FailContainer, StartAt
<1>2. /\ UNCHANGED <<status, loops, tracked, stop, iface, conf, main, ends>>
      /\ helpers' = helpers \ start[g].relayCancel
      /\ start' = [start EXCEPT ![g].pc = "fail.wgdown"]
  BY DEF FailContainer, GotoStart
<1>3. /\ containers' \subseteq containers
      /\ ~ctxDone /\ start[g].containerID => g \notin containers'
  BY DEF FailContainer, StopFailedContainer
<1>4. TypeOK'
  BY <1>1, <1>2, <1>3 DEF TypeOK, Start, StartPC
<1>5. StartInv(g)'
  BY <1>1, <1>2, <1>3 DEF StartInv, TypeOK, Start, WithContainer, FailedPC, ctxDone
<1>6. \A h \in Starts : h # g => Quiet(h)
  BY <1>1, <1>2, <1>3 DEF Quiet, TypeOK, ctxDone
<1>7. StartStepOK(g)
  BY <1>1, <1>2, <1>4, <1>5, <1>6 DEF StartStepOK, TypeOK, Start
<1> QED BY <1>7

LEMMA StartSteps ==
    ASSUME AgentInv, NEW g \in Starts, StartStep(g)
    PROVE  StartStepOK(g)
BY ReserveStep, ContainerStep, ConnectStep, ConfigStep, ProxyStep, ReportStep,
    FailContainerStep DEF StartStep
-----------------------------------------------------------------------------
(* stopSession.                                                            *)

LEMMA LookupStep ==
    ASSUME AgentInv, NEW k \in Stops, StopLookup(k)
    PROVE  AgentInv'
<1> USE AgentAssumption
<1>1. /\ TypeOK /\ Tracked /\ StopInv(k) /\ stop[k].pc = "lookup"
      /\ stop[k] \in Stop /\ stop[k].sid \in Sessions
  BY DEF AgentInv, StopInv, TypeOK, Stop, StopLookup, StopAt
<1>2. UNCHANGED <<status, loops, start, helpers, main, ends, containers, iface, conf>>
  BY DEF StopLookup, dockerAndWG
<1>3. \A h \in Starts : Quiet(h)
  BY <1>1, <1>2 DEF Quiet, TypeOK, Start, ctxDone, StopLookup
<1>4. CASE tracked[stop[k].sid] = None
  <2>1. stop' = [stop EXCEPT ![k] = newStop("unused", None)] /\ tracked' = tracked
    BY <1>4 DEF StopLookup
  <2>2. TypeOK'
    BY <1>1, <1>2, <2>1 DEF TypeOK, newStop, Stop, StopPC
  <2>3. StopInv(k)'
    BY <1>1, <2>1 DEF TypeOK, StopInv, newStop
  <2> QED BY <1>1, <1>3, <2>1, <2>2, <2>3, StopStepKeeps DEF StopStepOK, TypeOK, newStop
<1>5. CASE tracked[stop[k].sid] # None
  <2> PICK g \in Starts : g = tracked[stop[k].sid]
    BY <1>1, <1>5 DEF TypeOK
  <2> PICK b \in BOOLEAN : b = (start[g].pc = "done")
    OBVIOUS
  <2>1. /\ stop' = [stop EXCEPT ![k].pc = "cancel", ![k].rs = g, ![k].completed = b]
        /\ tracked' = [tracked EXCEPT ![stop[k].sid] = None]
    BY <1>5 DEF StopLookup
  <2>2. /\ stop'[k].pc = "cancel" /\ stop'[k].rs = g /\ stop'[k].completed = b
        /\ stop'[k].sid = stop[k].sid /\ stop'[k] \in Stop
        /\ \A j \in Stops : j # k => stop'[j] = stop[j]
    BY <1>1, <2>1 DEF TypeOK, Stop, StopPC
  <2>3. TypeOK'
    BY <1>1, <1>2, <2>1, <2>2 DEF TypeOK, Stop, StopPC
  <2>4. start[g].sid = stop[k].sid /\ start[g].pc \notin {"unused", "reserve"} /\ StartInv(g)
    BY <1>1 DEF Tracked, AgentInv
  <2>5. \A s \in Sessions : tracked'[s] # g
    BY <1>1, <2>1, <2>4 DEF Tracked, TypeOK
  <2>6. <<g, "proxy">> \in helpers => <<g, "proxy">> \in start[g].relayCancel
    BY <2>4 DEF StartInv
  <2>7. StopInv(k)'
    BY <1>1, <1>2, <2>2, <2>4, <2>5, <2>6 DEF StopInv
  <2>8. StopStepOK(k)
    BY <1>1, <1>3, <2>1, <2>2, <2>3, <2>7 DEF StopStepOK, TypeOK
  <2> QED BY <2>8, StopStepKeeps
<1> QED BY <1>4, <1>5

LEMMA TearDownStep ==
    ASSUME AgentInv, NEW k \in Stops,
           \/ StopCancel(k) \/ StopContainer(k) \/ StopWGDown(k) \/ StopRemoveConfig(k)
           \/ StopReport(k)
    PROVE  AgentInv'
<1> USE AgentAssumption
<1>1. /\ TypeOK /\ StopInv(k) /\ stop[k] \in Stop
      /\ stop[k].pc \in {"cancel", "container", "wgdown", "config", "report"}
  BY DEF AgentInv, TypeOK, StopAt, StopCancel, StopContainer, StopWGDown, StopRemoveConfig,
      StopReport
<1> PICK g \in Starts : g = stop[k].rs
  BY <1>1 DEF StopInv, Stop
<1>2. stop[k].sid \in Sessions /\ StartInv(g)
  BY <1>1 DEF StopInv, Stop, AgentInv
<1>3. /\ UNCHANGED <<loops, tracked, start, main, ends>>
      /\ helpers' \subseteq helpers /\ containers' \subseteq containers
      /\ iface' \subseteq iface /\ conf' \subseteq conf
  BY DEF StopCancel, StopContainer, StopWGDown, StopRemoveConfig, StopReport, WGDown,
      dockerAndWG
<1>4. \/ stop' = [stop EXCEPT ![k] = newStop("unused", None)]
      \/ \E pc \in {"container", "wgdown", "config", "report"} :
            stop' = [stop EXCEPT ![k].pc = pc]
  BY DEF StopCancel, StopContainer, StopWGDown, StopRemoveConfig, StopReport, GotoStop
<1>5. TypeOK'
  <2>1. stop' \in [Stops -> Stop]
    <3>1. CASE stop' = [stop EXCEPT ![k] = newStop("unused", None)]
      BY <1>1, <3>1 DEF TypeOK, Stop, StopPC, newStop
    <3>2. ASSUME NEW pc \in {"container", "wgdown", "config", "report"},
                 stop' = [stop EXCEPT ![k].pc = pc]
          PROVE  stop' \in [Stops -> Stop]
      BY <1>1, <3>2 DEF TypeOK, Stop, StopPC
    <3> QED BY <1>4, <3>1, <3>2
  <2>2. status' \in [Sessions -> {"none", "pending", "running", "terminated"}]
    BY <1>1, <1>2 DEF TypeOK, StopCancel, StopContainer, StopWGDown, StopRemoveConfig,
        StopReport, updateStatus
  <2> QED BY <1>1, <1>3, <2>1, <2>2 DEF TypeOK
<1>6. \A h \in Starts : Quiet(h)
  BY <1>1, <1>3 DEF Quiet, TypeOK, Start, ctxDone
<1>7. \A j \in Stops : j # k => stop'[j] = stop[j]
  BY <1>1, <1>4 DEF TypeOK
<1>8. StopInv(k)'
  <2>1. CASE StopReport(k)
    <3>1. stop'[k] = newStop("unused", None)
      BY <1>1, <2>1 DEF StopReport, TypeOK
    <3> QED BY <3>1 DEF StopInv, newStop
  <2>2. CASE StopCancel(k)
    <3>1. /\ stop'[k] = [stop[k] EXCEPT !.pc = "container"] /\ stop[k].pc = "cancel"
          /\ helpers' = helpers \ start[g].relayCancel
      BY <1>1, <2>2 DEF StopCancel, GotoStop, StopAt, TypeOK
    <3> QED BY <1>1, <1>2, <1>3, <3>1 DEF StopInv, StartInv, Stop
  <2>3. CASE StopContainer(k)
    <3>1. /\ stop'[k] = [stop[k] EXCEPT !.pc = "wgdown"] /\ stop[k].pc = "container"
          /\ containers' = IF start[g].containerID THEN containers \ {g} ELSE containers
      BY <1>1, <2>3 DEF StopContainer, GotoStop, StopAt, TypeOK
    <3> QED BY <1>1, <1>2, <1>3, <3>1 DEF StopInv, StartInv, Stop, WithContainer
  <2>4. CASE StopWGDown(k) \/ StopRemoveConfig(k)
    <3>1. /\ \/ stop'[k] = [stop[k] EXCEPT !.pc = "config"] /\ stop[k].pc = "wgdown"
             \/ stop'[k] = [stop[k] EXCEPT !.pc = "report"] /\ stop[k].pc = "config"
      BY <1>1, <2>4 DEF StopWGDown, StopRemoveConfig, GotoStop, StopAt, TypeOK
    <3> QED BY <1>1, <1>3, <3>1 DEF StopInv, Stop
  <2> QED BY <2>1, <2>2, <2>3, <2>4
<1>9. stop'[k].rs \in {stop[k].rs, None}
  BY <1>1, <1>4 DEF TypeOK, Stop, newStop
<1>10. StopStepOK(k)
  BY <1>3, <1>5, <1>6, <1>7, <1>8, <1>9 DEF StopStepOK
<1> QED BY <1>10, StopStepKeeps

\* A goroutine, or cleanup, begins to stop a session.
LEMMA BeginStop ==
    ASSUME AgentInv, NEW k \in Stops, NEW s \in Sessions,
           HeartbeatStops(s, k) \/ CleanupStops(s, k)
    PROVE  AgentInv'
<1> USE AgentAssumption
<1>1. TypeOK
  BY DEF AgentInv
<1>2. /\ stop' = [stop EXCEPT ![k] = newStop("lookup", s)]
      /\ UNCHANGED <<status, tracked, start, helpers, ends, containers, iface, conf>>
  BY DEF HeartbeatStops, CleanupStops, dockerAndWG
<1>3. loops' \in [polled : SUBSET Sessions, activeIDs : SUBSET Sessions]
  BY <1>1 DEF TypeOK, HeartbeatStops, CleanupStops
<1>4. /\ main' \in [pc : {"down", "up", "cancelled", "cleanup"}, ids : SUBSET Sessions,
                    stopping : Stops \cup {None}]
      /\ main'.pc = main.pc
  <2>1. CASE HeartbeatStops(s, k)
    BY <1>1, <2>1 DEF TypeOK, HeartbeatStops
  <2>2. CASE CleanupStops(s, k)
    BY <1>1, <2>2 DEF TypeOK, CleanupStops
  <2> QED BY <2>1, <2>2
<1>5. TypeOK'
  BY <1>1, <1>2, <1>3, <1>4 DEF TypeOK, newStop, Stop, StopPC
<1>6. \A h \in Starts : Quiet(h)
  BY <1>1, <1>2, <1>4 DEF Quiet, TypeOK, Start, ctxDone
<1>7. StopInv(k)'
  BY <1>1, <1>2 DEF StopInv, newStop, TypeOK
<1>8. StopStepOK(k)
  BY <1>1, <1>2, <1>5, <1>6, <1>7 DEF StopStepOK, newStop, TypeOK
<1> QED BY <1>8, StopStepKeeps
-----------------------------------------------------------------------------
(* The loops, the renters and the process.                                 *)

\* Nothing happens to starts, stops and the map.
LEMMA OutsideStep ==
    ASSUME AgentInv, TypeOK', UNCHANGED <<tracked, start, stop, containers>>,
           helpers' \subseteq helpers, ctxDone => ctxDone'
    PROVE  AgentInv'
<1>1. TypeOK
  BY DEF AgentInv
<1>2. \A h \in Starts : Quiet(h)
  BY <1>1 DEF Quiet, TypeOK, Start
<1>3. \A h \in Starts : StartInv(h)'
  BY <1>1, <1>2, QuietStart DEF AgentInv
<1>4. ASSUME NEW k \in Stops PROVE StopInv(k)'
  <2>1. stop[k].rs # None => Quiet(stop[k].rs)
    BY <1>1, <1>2 DEF TypeOK, Stop
  <2> QED BY <1>1, <2>1, QuietStop DEF AgentInv
<1>5. Tracked' /\ ExclusiveStop'
  BY DEF AgentInv, Tracked, ExclusiveStop
<1> QED BY <1>3, <1>4, <1>5 DEF AgentInv

LEMMA SessionStep ==
    ASSUME AgentInv, NEW s \in Sessions,
           RenterCreates(s) \/ RenterTerminates(s) \/ PollSkips(s) \/ HeartbeatSkips(s)
    PROVE  AgentInv'
<1> USE AgentAssumption
<1>1. TypeOK
  BY DEF AgentInv
<1>2. UNCHANGED <<tracked, start, stop, containers, helpers, main, ends, iface, conf>>
  BY DEF RenterCreates, RenterTerminates, PollSkips, HeartbeatSkips, dockerAndWG
<1>3. status' \in [Sessions -> {"none", "pending", "running", "terminated"}]
  BY <1>1 DEF RenterCreates, RenterTerminates, PollSkips, HeartbeatSkips, TypeOK
<1>4. loops' \in [polled : SUBSET Sessions, activeIDs : SUBSET Sessions]
  BY <1>1 DEF RenterCreates, RenterTerminates, PollSkips, HeartbeatSkips, TypeOK
<1>5. TypeOK'
  BY <1>1, <1>2, <1>3, <1>4 DEF TypeOK
<1> QED BY <1>2, <1>5, OutsideStep DEF ctxDone

LEMMA LoopStep ==
    ASSUME AgentInv, PollReply \/ HeartbeatSend
    PROVE  AgentInv'
<1> USE AgentAssumption
<1>1. TypeOK
  BY DEF AgentInv
<1>2. UNCHANGED <<status, tracked, start, stop, containers, helpers, main, ends, iface, conf>>
  BY DEF PollReply, HeartbeatSend, dockerAndWG
<1>3. loops' \in [polled : SUBSET Sessions, activeIDs : SUBSET Sessions]
  BY <1>1 DEF PollReply, HeartbeatSend, TypeOK, ListProviderSessions
<1>4. TypeOK'
  BY <1>1, <1>2, <1>3 DEF TypeOK
<1> QED BY <1>2, <1>4, OutsideStep DEF ctxDone

LEMMA ProcessStep ==
    ASSUME AgentInv, Shutdown \/ cleanup \/ Run
    PROVE  AgentInv'
<1> USE AgentAssumption
<1>1. TypeOK
  BY DEF AgentInv
<1>2. /\ UNCHANGED <<status, loops, tracked, start, stop, containers>>
      /\ helpers' \subseteq helpers /\ iface' \subseteq iface /\ conf' \subseteq conf
  BY DEF Shutdown, cleanup, Run, CleanupStaleInterfaces, dockerAndWG
<1>3. /\ main' \in [pc : {"down", "up", "cancelled", "cleanup"}, ids : SUBSET Sessions,
                    stopping : Stops \cup {None}]
      /\ ctxDone => ctxDone'
  <2>1. CASE Shutdown
    BY <2>1 DEF Shutdown, newMain, ctxDone
  <2>2. CASE cleanup
    BY <1>1, <2>2 DEF cleanup, ctxDone, TypeOK
  <2>3. CASE Run
    BY <2>3 DEF Run, newMain, ctxDone, running
  <2> QED BY <2>1, <2>2, <2>3
<1>4. ends' \in [crashes : 0..MaxCrashes, shutdowns : 0..MaxShutdowns]
  BY <1>1 DEF Shutdown, cleanup, Run, TypeOK
<1>5. TypeOK'
  BY <1>1, <1>2, <1>3, <1>4 DEF TypeOK
<1> QED BY <1>2, <1>3, <1>5, OutsideStep

LEMMA PollStartsStep ==
    ASSUME AgentInv, NEW s \in Sessions, NEW g \in Starts, PollStarts(s, g)
    PROVE  AgentInv'
<1> USE AgentAssumption
<1>1. TypeOK /\ Tracked /\ ExclusiveStop /\ StartInv(g)
  BY DEF AgentInv
<1>2. /\ start' = [start EXCEPT ![g] = newStart("reserve", s)] /\ start[g].pc = "unused"
      /\ UNCHANGED <<status, tracked, stop, helpers, main, ends, containers, iface, conf>>
  BY DEF PollStarts, dockerAndWG
<1>3. TypeOK'
  <2>1. start' \in [Starts -> Start]
    BY <1>1, <1>2 DEF TypeOK, newStart, Start, StartPC
  <2>2. loops' \in [polled : SUBSET Sessions, activeIDs : SUBSET Sessions]
    BY <1>1 DEF TypeOK, PollStarts
  <2> QED BY <1>1, <1>2, <2>1, <2>2 DEF TypeOK
<1>4. StartInv(g)'
  BY <1>1, <1>2 DEF StartInv, newStart, TypeOK, WithContainer, FailedPC
<1>5. \A h \in Starts : h # g => Quiet(h)
  BY <1>1, <1>2 DEF Quiet, TypeOK, Start, ctxDone
<1>6. \A h \in Starts : StartInv(h)'
  BY <1>1, <1>4, <1>5, QuietStart DEF AgentInv
<1>7. ASSUME NEW k \in Stops PROVE StopInv(k)'
  <2>1. StopInv(k) /\ stop'[k] = stop[k]
    BY <1>2 DEF AgentInv
  <2>2. stop[k].rs # g
    BY <1>2, <2>1 DEF StopInv
  <2>3. stop[k].rs # None => Quiet(stop[k].rs)
    BY <1>1, <1>5, <2>2 DEF TypeOK, Stop
  <2> QED BY <1>1, <2>1, <2>3, QuietStop
<1>8. Tracked'
  <2> SUFFICES ASSUME NEW u \in Sessions, tracked'[u] # None
               PROVE  /\ start'[tracked'[u]].sid = u
                      /\ start'[tracked'[u]].pc \notin {"unused", "reserve"}
    BY DEF Tracked
  <2>1. tracked'[u] = tracked[u] /\ tracked[u] \in Starts /\ tracked[u] # g
    BY <1>1, <1>2 DEF TypeOK, Tracked
  <2> QED BY <1>1, <1>2, <2>1 DEF TypeOK, Tracked
<1>9. ExclusiveStop'
  BY <1>1, <1>2 DEF ExclusiveStop
<1> QED BY <1>3, <1>6, <1>7, <1>8, <1>9 DEF AgentInv

LEMMA EndStep ==
    ASSUME AgentInv, Crash \/ RunReturns
    PROVE  AgentInv'
<1> USE AgentAssumption
<1>1. TypeOK /\ \A g \in Starts : StartInv(g)
  BY DEF AgentInv
<1>2. processEnds /\ ends' \in [crashes : 0..MaxCrashes, shutdowns : 0..MaxShutdowns]
  BY <1>1 DEF Crash, RunReturns, TypeOK
<1>3. TypeOK'
  BY <1>1, <1>2 DEF processEnds, TypeOK, newMain, newStart, newStop, Start, Stop, StartPC,
      StopPC, dockerAndWG
<1>4. Tracked' /\ ExclusiveStop'
  BY <1>2 DEF processEnds, Tracked, ExclusiveStop, newStop
<1>5. ASSUME NEW g \in Starts PROVE StartInv(g)'
  BY <1>1, <1>2 DEF processEnds, StartInv, newStart, TypeOK, Start, WithContainer, FailedPC
<1>6. ASSUME NEW k \in Stops PROVE StopInv(k)'
  BY <1>2 DEF processEnds, StopInv, newStop
<1> QED BY <1>3, <1>4, <1>5, <1>6 DEF AgentInv

LEMMA NextStep == AgentInv /\ [Next]_vars => AgentInv'
<1> SUFFICES ASSUME AgentInv, [Next]_vars PROVE AgentInv'
  OBVIOUS
<1>1. CASE UNCHANGED vars
  <2>1. /\ UNCHANGED <<tracked, start, stop, containers, helpers, main>> /\ TypeOK'
    BY <1>1 DEF vars, AgentInv, TypeOK
  <2> QED BY <2>1, OutsideStep DEF ctxDone
<1>2. ASSUME NEW g \in Starts, StartStep(g) PROVE AgentInv'
  BY <1>2, StartSteps, StartStepKeeps
<1>3. ASSUME NEW k \in Stops, StopStep(k) PROVE AgentInv'
  BY <1>3, LookupStep, TearDownStep DEF StopStep
<1> QED
  BY <1>1, <1>2, <1>3, SessionStep, LoopStep, ProcessStep, PollStartsStep, BeginStop, EndStep
      DEF Next, MainStep

LEMMA Invariance == Spec => []AgentInv
BY InitInv, NextStep, PTL DEF Spec

\* The agent's maps, goroutines, containers and interfaces keep their types.
THEOREM AgentTyped == Spec => []TypeOK
BY Invariance, PTL DEF AgentInv

\* With any number of heartbeats that name a session, starts of it, crashes and
\* shutdowns, no two stopSession calls work on the same runningSession.
THEOREM StopsExclusive == Spec => []ExclusiveStop
BY Invariance, PTL DEF AgentInv

\* A failed start has removed its container and ended its relay client, unless a
\* shutdown cancelled the context of its clean-up, however many starts and stops of
\* the same and other sessions run beside it.
THEOREM FailedStartsClean == Spec => []FailedStartCleans
<1>1. AgentInv => FailedStartCleans
  BY DEF AgentInv, StartInv, FailedStartCleans, FailedPC
<1> QED BY <1>1, Invariance, PTL

\* stopSession of a session whose start had completed removes its container, its
\* relay client and its SSH proxy.
THEOREM CompletedStopsClean == Spec => []CompletedStopCleans
<1>1. AgentInv => CompletedStopCleans
  BY DEF AgentInv, StopInv, CompletedStopCleans
<1> QED BY <1>1, Invariance, PTL
-----------------------------------------------------------------------------
(* Shutdown.  While cleanup runs, a tracked session is still to be         *)
(* stopped, is the one cleanup's stopSession is about to look up, or has   *)
(* failed because the context is cancelled.                                *)

InHand(s) ==
    /\ main.stopping # None
    /\ stop[main.stopping].pc = "lookup" /\ stop[main.stopping].sid = s

Collected ==
    main.pc = "cleanup" =>
        \A s \in Sessions :
            tracked[s] # None /\ start[tracked[s]].pc # "fail.untrack" =>
                s \in main.ids \/ InHand(s)

LEMMA CollectedStep ==
    ASSUME AgentInv, Collected, [Next]_vars
    PROVE  Collected'
<1> USE AgentAssumption
<1> SUFFICES ASSUME main'.pc = "cleanup", NEW s \in Sessions, tracked'[s] # None,
                    start'[tracked'[s]].pc # "fail.untrack"
             PROVE  s \in main'.ids \/ InHand(s)'
  BY DEF Collected
<1>1. TypeOK /\ Tracked /\ (\A k \in Stops : StopInv(k))
  BY DEF AgentInv
<1>2. CASE UNCHANGED vars
  BY <1>2 DEF vars, Collected, InHand
<1>3. ASSUME NEW g \in Starts, StartStep(g) PROVE s \in main'.ids \/ InHand(s)'
  <2>1. StartStepOK(g)
    BY <1>3, StartSteps
  <2>2. main' = main /\ stop' = stop
    BY <1>3 DEF StartStep, Reserve, StartContainer, StartContainerFails, Connect, WriteConfig,
        WGUp, StartProxy, ReportRunning, FailUntrack, FailContainer, FailWGDown,
        FailRemoveConfig, FailReport
  <2>3. tracked'[s] = tracked[s]
    <3> SUFFICES ASSUME tracked'[s] # tracked[s] PROVE FALSE
      OBVIOUS
    <3>1. tracked'[s] = g /\ s = start[g].sid /\ start[g].pc = "reserve"
      BY <2>1 DEF StartStepOK
    <3>2. Reserve(g)
      BY <1>3, <3>1 DEF StartStep, StartAt, StartContainer, StartContainerFails, Connect,
          WriteConfig, WGUp, StartProxy, ReportRunning, FailUntrack, FailContainer,
          FailWGDown, FailRemoveConfig, FailReport
    <3>3. ctxDone
      BY <2>2 DEF ctxDone
    <3> QED BY <1>1, <3>1, <3>2, <3>3 DEF Reserve, GotoStart, TypeOK, Start
  <2>4. start[tracked[s]].pc # "fail.untrack"
    <3>1. CASE tracked[s] = g
      <4> SUFFICES ASSUME start[g].pc = "fail.untrack" PROVE FALSE
        BY <3>1
      <4>1. FailUntrack(g)
        BY <1>3 DEF StartStep, StartAt, Reserve, StartContainer, StartContainerFails,
            Connect, WriteConfig, WGUp, StartProxy, ReportRunning, FailContainer,
            FailWGDown, FailRemoveConfig, FailReport
      <4>2. start[g].sid = s
        BY <1>1, <3>1 DEF Tracked
      <4> QED BY <1>1, <4>1, <4>2 DEF FailUntrack, TypeOK
    <3>2. CASE tracked[s] # g
      <4>1. tracked[s] \in Starts
        BY <1>1, <2>3 DEF TypeOK
      <4>2. Quiet(tracked[s])
        BY <2>1, <3>2, <4>1 DEF StartStepOK
      <4> QED BY <2>3, <4>2 DEF Quiet
    <3> QED BY <3>1, <3>2
  <2> QED BY <2>2, <2>3, <2>4 DEF Collected, InHand
<1>4. ASSUME NEW k \in Stops, StopStep(k) PROVE s \in main'.ids \/ InHand(s)'
  <2>1. main' = main /\ start' = start
    BY <1>4 DEF StopStep, StopLookup, StopCancel, StopContainer, StopWGDown,
        StopRemoveConfig, StopReport
  <2>2. tracked'[s] = tracked[s]
    BY <1>1, <1>4 DEF StopStep, StopLookup, StopCancel, StopContainer, StopWGDown,
        StopRemoveConfig, StopReport, TypeOK
  <2>3. \A j \in Stops : j # k => stop'[j] = stop[j]
    BY <1>1, <1>4 DEF StopStep, StopLookup, StopCancel, StopContainer, StopWGDown,
        StopRemoveConfig, StopReport, GotoStop, TypeOK
  <2>4. s \in main.ids \/ InHand(s)
    BY <2>1, <2>2 DEF Collected
  <2>5. CASE InHand(s) /\ main.stopping = k
    <3>1. StopLookup(k)
      BY <1>4, <2>5 DEF InHand, StopStep, StopAt, StopCancel, StopContainer, StopWGDown,
          StopRemoveConfig, StopReport
    <3>2. stop[k].sid = s
      BY <2>5 DEF InHand
    <3>3. tracked'[s] = None
      BY <1>1, <3>1, <3>2 DEF StopLookup, TypeOK
    <3> QED BY <3>3
  <2>6. CASE InHand(s) /\ main.stopping # k
    BY <1>1, <2>1, <2>3, <2>6 DEF InHand, TypeOK
  <2> QED BY <2>1, <2>4, <2>5, <2>6
<1>5. ASSUME NEW u \in Sessions, NEW k \in Stops, HeartbeatStops(u, k)
      PROVE  s \in main'.ids \/ InHand(s)'
  <2>1. /\ UNCHANGED <<main, tracked, start>> /\ k # main.stopping
        /\ \A j \in Stops : j # k => stop'[j] = stop[j]
    BY <1>1, <1>5 DEF HeartbeatStops, TypeOK
  <2> QED BY <1>1, <2>1 DEF Collected, InHand, TypeOK
<1>6. ASSUME NEW u \in Sessions, NEW k \in Stops, CleanupStops(u, k)
      PROVE  s \in main'.ids \/ InHand(s)'
  <2>1. /\ UNCHANGED <<tracked, start>> /\ main.pc = "cleanup" /\ stopReturned
        /\ main' = [main EXCEPT !.ids = main.ids \ {u}, !.stopping = k]
        /\ stop' = [stop EXCEPT ![k] = newStop("lookup", u)]
    BY <1>6 DEF CleanupStops
  <2>2. s \in main.ids
    BY <2>1 DEF Collected, InHand, stopReturned
  <2>3. main'.ids = main.ids \ {u} /\ main'.stopping = k /\ k # None
    BY <1>1, <2>1 DEF TypeOK
  <2>4. stop'[k].pc = "lookup" /\ stop'[k].sid = u
    BY <1>1, <2>1 DEF TypeOK, newStop
  <2>5. CASE s = u
    BY <2>3, <2>4, <2>5 DEF InHand
  <2>6. CASE s # u
    BY <2>2, <2>3, <2>6
  <2> QED BY <2>5, <2>6
<1>7. CASE cleanup
  BY <1>1, <1>7 DEF cleanup, TypeOK
<1>8. ASSUME NEW u \in Sessions, NEW g \in Starts, PollStarts(u, g)
      PROVE  s \in main'.ids \/ InHand(s)'
  <2>1. /\ UNCHANGED <<main, tracked, stop>> /\ start[g].pc = "unused"
        /\ start' = [start EXCEPT ![g] = newStart("reserve", u)]
    BY <1>8 DEF PollStarts
  <2>2. tracked[s] # g /\ tracked[s] \in Starts
    BY <1>1, <2>1 DEF Tracked, TypeOK
  <2>3. start'[tracked[s]] = start[tracked[s]]
    BY <1>1, <2>1, <2>2 DEF TypeOK
  <2> QED BY <2>1, <2>3 DEF Collected, InHand
<1>9. ASSUME NEW u \in Sessions,
             RenterCreates(u) \/ RenterTerminates(u) \/ PollSkips(u) \/ HeartbeatSkips(u)
      PROVE  s \in main'.ids \/ InHand(s)'
  BY <1>9 DEF RenterCreates, RenterTerminates, PollSkips, HeartbeatSkips, Collected, InHand
<1>10. CASE PollReply \/ HeartbeatSend
  BY <1>10 DEF PollReply, HeartbeatSend, Collected, InHand
<1>11. CASE Crash \/ RunReturns \/ Shutdown \/ Run
  BY <1>11 DEF Crash, RunReturns, Shutdown, Run, processEnds, newMain
<1> QED
  BY <1>2, <1>3, <1>4, <1>5, <1>6, <1>7, <1>8, <1>9, <1>10, <1>11 DEF Next, MainStep

\* Once cleanup has returned, nothing that got as far as a container is still tracked,
\* whatever starts and stops the signal came upon.
THEOREM ShutdownComplete == Spec => ShutdownStopsAll
<1>1. Init => Collected
  BY DEF Init, Collected, newMain
<1>2. AgentInv /\ Collected /\ [Next]_vars => Collected'
  BY CollectedStep
<1>3. AgentInv /\ Collected =>
        [cleanedUp /\ ~running' => \A s \in Sessions :
            tracked[s] # None => start[tracked[s]].pc = "fail.untrack"]_vars
  BY DEF Collected, cleanedUp, stopReturned, InHand
<1> QED BY <1>1, <1>2, <1>3, Invariance, PTL DEF Spec, ShutdownStopsAll
=============================================================================
