-------------------------------- MODULE Agent --------------------------------
(***************************************************************************)
(* The provider agent of agent/daemon.go: the poll loop starts a           *)
(* startSession goroutine for every pending session it does not track, the *)
(* heartbeat loop starts a stopSession goroutine for every tracked session *)
(* the registry calls terminated.  The goroutines meet in d.sessions       *)
(* (under d.mu), in the *runningSession objects (under no lock), in Docker *)
(* and in the WireGuard interfaces and configuration files, which are      *)
(* named after the session.                                                *)
(*                                                                         *)
(* The registry is a status per session, updated atomically.  A Docker or  *)
(* WireGuard command is one step with the outcomes it can have; StopContainer  *)
(* is assumed to work.  Networks go with their containers.                 *)
(***************************************************************************)
EXTENDS Integers, FiniteSets

CONSTANTS
    Sessions,
    Starts,             \* startSession goroutines, each with its object rs
    Stops,              \* stopSession goroutines
    None,
    MaxCrashes,         \* bound on crashes of the agent
    MaxShutdowns        \* bound on its shutdowns

ASSUME AgentAssumption ==
    /\ None \notin Starts \cup Sessions \cup Stops
    /\ MaxCrashes \in Nat /\ MaxShutdowns \in Nat

VARIABLES
    status,             \* the registry: session -> status
    loops,              \* polled: sessions of the poll loop's last reply still
                        \* to come; activeIDs: the sessions a heartbeat names
                        \* whose answer is still to come
    tracked,            \* d.sessions: session -> the start whose rs is there
    start,              \* start -> goroutine and its runningSession
    stop,               \* stop goroutine -> session and the rs it took
    containers,         \* starts whose container exists
    helpers,            \* running relay clients and SSH proxies
    iface, conf,        \* sessions with a WireGuard interface, a config file
    main, ends          \* Run and, at the end of the process, cleanup

vars == <<status, loops, tracked, start, stop, containers, helpers, iface, conf,
          main, ends>>
dockerAndWG == <<containers, iface, conf>>

StartPC == {"unused", "reserve", "container", "connect", "config", "wgup", "proxy",
            "report", "done", "duplicate", "fail.untrack", "fail.container",
            "fail.wgdown", "fail.config", "fail.report", "failed", "dead"}
StopPC == {"unused", "lookup", "cancel", "container", "wgdown", "config", "report"}
Helper == Starts \X {"relay", "proxy"}

\* A startSession goroutine with its runningSession, and a stopSession goroutine.
Start == [pc : StartPC, sid : Sessions \cup {None}, containerID : BOOLEAN,
          wgConfPath : BOOLEAN, relayCancel : SUBSET Helper]
Stop == [pc : StopPC, sid : Sessions \cup {None}, rs : Starts \cup {None},
         completed : BOOLEAN]

TypeOK ==
    /\ status \in [Sessions -> {"none", "pending", "running", "terminated"}]
    /\ loops \in [polled : SUBSET Sessions, activeIDs : SUBSET Sessions]
    /\ tracked \in [Sessions -> Starts \cup {None}]
    /\ start \in [Starts -> Start]
    /\ stop \in [Stops -> Stop]
    /\ containers \subseteq Starts /\ helpers \subseteq Helper
    /\ iface \subseteq Sessions /\ conf \subseteq Sessions
    /\ main \in [pc : {"down", "up", "cancelled", "cleanup"}, ids : SUBSET Sessions,
                 stopping : Stops \cup {None}]
    /\ ends \in [crashes : 0..MaxCrashes, shutdowns : 0..MaxShutdowns]

newStart(pc, s) ==
    [pc |-> pc, sid |-> s, containerID |-> FALSE, wgConfPath |-> FALSE,
     relayCancel |-> {}]

newStop(pc, s) == [pc |-> pc, sid |-> s, rs |-> None, completed |-> FALSE]

\* ids: sessions cleanup has still to stop; stopping: its call of stopSession.
newMain(pc) == [pc |-> pc, ids |-> {}, stopping |-> None]

Init ==
    /\ status = [s \in Sessions |-> "none"]
    /\ loops = [polled |-> {}, activeIDs |-> {}]
    /\ tracked = [s \in Sessions |-> None]
    /\ start = [g \in Starts |-> newStart("unused", None)]
    /\ stop = [k \in Stops |-> newStop("unused", None)]
    /\ containers = {} /\ helpers = {} /\ iface = {} /\ conf = {}
    /\ main = newMain("up") /\ ends = [crashes |-> 0, shutdowns |-> 0]

running == main.pc # "down"

\* The context of Run is cancelled.  Calls made with it fail from then on; one that
\* is under way may still take effect.
ctxDone == main.pc \in {"cancelled", "cleanup"}
-----------------------------------------------------------------------------
(* The registry and its users.                                             *)

RenterCreates(s) ==
    /\ status[s] = "none"
    /\ status' = [status EXCEPT ![s] = "pending"]
    /\ UNCHANGED <<loops, tracked, start, stop, helpers, main, ends, dockerAndWG>>

RenterTerminates(s) ==
    /\ status[s] \in {"pending", "running"}
    /\ status' = [status EXCEPT ![s] = "terminated"]
    /\ UNCHANGED <<loops, tracked, start, stop, helpers, main, ends, dockerAndWG>>

\* updateStatus: UpdateSessionStatus takes any status whatever the stored one;
\* after three failed attempts the agent only logs a warning.
updateStatus(s, st) == status' \in {status, [status EXCEPT ![s] = st]}
-----------------------------------------------------------------------------
(* The loops.  Between the reply of an RPC and the first step of the       *)
(* goroutine started for it anything can happen.                           *)

\* What ListProviderSessions answers to StatusFilter "pending".
ListProviderSessions == {s \in Sessions : status[s] = "pending"}

\* What the registry names in the answer to a heartbeat.
GetTerminatedSessionIDs(ids) == {s \in ids : status[s] = "terminated"}

PollReply ==
    /\ main.pc = "up"
    /\ loops.polled = {}
    /\ loops' = [loops EXCEPT !.polled = ListProviderSessions]
    /\ UNCHANGED <<status, tracked, start, stop, helpers, main, ends, dockerAndWG>>

PollSkips(s) ==
    /\ running
    /\ s \in loops.polled /\ tracked[s] # None
    /\ loops' = [loops EXCEPT !.polled = @ \ {s}]
    /\ UNCHANGED <<status, tracked, start, stop, helpers, main, ends, dockerAndWG>>

PollStarts(s, g) ==
    /\ running
    /\ s \in loops.polled /\ tracked[s] = None
    /\ loops' = [loops EXCEPT !.polled = @ \ {s}]
    /\ start[g].pc = "unused"
    /\ start' = [start EXCEPT ![g] = newStart("reserve", s)]
    /\ UNCHANGED <<status, tracked, stop, helpers, main, ends, dockerAndWG>>

HeartbeatSend ==
    /\ main.pc = "up"
    /\ loops.activeIDs = {}
    /\ loops' = [loops EXCEPT !.activeIDs = {s \in Sessions : tracked[s] # None}]
    /\ UNCHANGED <<status, tracked, start, stop, helpers, main, ends, dockerAndWG>>

\* The answer names s, and a goroutine is started to stop it.
HeartbeatStops(s, k) ==
    /\ running
    /\ s \in GetTerminatedSessionIDs(loops.activeIDs)
    /\ loops' = [loops EXCEPT !.activeIDs = @ \ {s}]
    /\ stop[k].pc = "unused" /\ k # main.stopping
    /\ stop' = [stop EXCEPT ![k] = newStop("lookup", s)]
    /\ UNCHANGED <<status, tracked, start, helpers, main, ends, dockerAndWG>>

\* The answer does not name s, or all three attempts failed.
HeartbeatSkips(s) ==
    /\ running
    /\ s \in loops.activeIDs
    /\ loops' = [loops EXCEPT !.activeIDs = @ \ {s}]
    /\ UNCHANGED <<status, tracked, start, stop, helpers, main, ends, dockerAndWG>>
-----------------------------------------------------------------------------
(* startSession.                                                           *)

StartAt(g, pc) == running /\ start[g].pc = pc

GotoStart(g, pc) == start' = [start EXCEPT ![g].pc = pc]

\* WGDown runs wg-quick down on the config file and fails without it.
WGDown(s) == iface' = IF s \in conf THEN iface \ {s} ELSE iface

\* Mutant: a container is started although the context is cancelled.
Reserve_ignoresContext(g) ==
    /\ StartAt(g, "reserve")
    /\ IF tracked[start[g].sid] # None
       THEN GotoStart(g, "duplicate") /\ UNCHANGED tracked
       ELSE /\ tracked' = [tracked EXCEPT ![start[g].sid] = g]
            /\ GotoStart(g, "container")
    /\ UNCHANGED <<status, loops, stop, helpers, main, ends, dockerAndWG>>

\* With a cancelled context StartContainer fails without an effect.
Reserve(g) ==
    /\ StartAt(g, "reserve")
    /\ IF tracked[start[g].sid] # None
       THEN GotoStart(g, "duplicate") /\ UNCHANGED tracked
       ELSE /\ tracked' = [tracked EXCEPT ![start[g].sid] = g]
            /\ GotoStart(g, IF ctxDone THEN "fail.untrack" ELSE "container")
    /\ UNCHANGED <<status, loops, stop, helpers, main, ends, dockerAndWG>>

\* A container of the same name is removed before the new one is created.
otherContainers(s) == {c \in containers : start[c].sid # s}

StartContainer(g) ==
    /\ StartAt(g, "container")
    /\ containers' = otherContainers(start[g].sid) \cup {g}
    /\ start' = [start EXCEPT ![g].pc = "connect", ![g].containerID = TRUE]
    /\ UNCHANGED <<status, loops, tracked, stop, helpers, iface, conf, main, ends>>

\* Network or pull failed; create failed, with the old container gone; or start
\* or inspection did, with a container left whose ID startSession does not keep.
StartContainerFails(g) ==
    /\ StartAt(g, "container")
    /\ \/ UNCHANGED containers
       \/ containers' = otherContainers(start[g].sid)
       \/ containers' = otherContainers(start[g].sid) \cup {g}
    /\ GotoStart(g, "fail.untrack")
    /\ UNCHANGED <<status, loops, tracked, stop, helpers, iface, conf, main, ends>>

\* Relay clients and proxies end with the context.
withHelper(h) == IF ctxDone THEN helpers ELSE helpers \cup {h}

\* Key generation, candidate exchange and hole punching end in a direct or
\* punched connection, in a relay client, or in failSessionStart.
Connect(g) ==
    /\ StartAt(g, "connect")
    /\ \/ GotoStart(g, "config") /\ UNCHANGED helpers
       \/ /\ helpers' = withHelper(<<g, "relay">>)
          /\ start' = [start EXCEPT ![g].pc = "config",
                                    ![g].relayCancel = {<<g, "relay">>}]
       \/ GotoStart(g, "fail.untrack") /\ UNCHANGED helpers
    /\ UNCHANGED <<status, loops, tracked, stop, main, ends, dockerAndWG>>

WriteConfig(g) ==
    /\ StartAt(g, "config")
    /\ \/ /\ conf' = conf \cup {start[g].sid}
          /\ start' = [start EXCEPT ![g].pc = "wgup", ![g].wgConfPath = TRUE]
       \/ GotoStart(g, "fail.untrack") /\ UNCHANGED conf
    /\ UNCHANGED <<status, loops, tracked, stop, containers, helpers, iface, main, ends>>

\* wg-quick up needs the file and an interface name that is not in use.
WGUp(g) ==
    /\ StartAt(g, "wgup")
    /\ \/ /\ start[g].sid \in conf \ iface
          /\ iface' = iface \cup {start[g].sid}
          /\ GotoStart(g, "proxy")
       \/ GotoStart(g, "fail.untrack") /\ UNCHANGED iface
    /\ UNCHANGED <<status, loops, tracked, stop, containers, helpers, conf, main, ends>>

\* Mutant: the proxy's cancel function replaces the relay client's.
StartProxy_overwrites(g) ==
    LET current == tracked[start[g].sid] IN
    /\ StartAt(g, "proxy")
    /\ helpers' = withHelper(<<g, "proxy">>)
    /\ start' = [r \in Starts |->
            [start[r] EXCEPT
                !.pc = IF r = g THEN "report" ELSE @,
                !.relayCancel = IF r = current THEN {<<g, "proxy">>} ELSE @]]
    /\ UNCHANGED <<status, loops, tracked, stop, main, ends, dockerAndWG>>

\* The proxy's cancel function is chained into the object found in d.sessions,
\* if there is one; the proxy starts in any case.
StartProxy(g) ==
    LET current == tracked[start[g].sid] IN
    /\ StartAt(g, "proxy")
    /\ helpers' = withHelper(<<g, "proxy">>)
    /\ start' = [r \in Starts |->
            [start[r] EXCEPT
                !.pc = IF r = g THEN "report" ELSE @,
                !.relayCancel = IF r = current THEN @ \cup {<<g, "proxy">>} ELSE @]]
    /\ UNCHANGED <<status, loops, tracked, stop, main, ends, dockerAndWG>>

ReportRunning(g) ==
    /\ StartAt(g, "report")
    /\ updateStatus(start[g].sid, "running")
    /\ GotoStart(g, "done")
    /\ UNCHANGED <<loops, tracked, stop, helpers, main, ends, dockerAndWG>>

(* cleanupFailedStart and the report that follows it.                      *)

FailUntrack(g) ==
    /\ StartAt(g, "fail.untrack")
    /\ tracked' = [tracked EXCEPT ![start[g].sid] = None]
    /\ GotoStart(g, "fail.container")
    /\ UNCHANGED <<status, loops, stop, helpers, main, ends, dockerAndWG>>

\* cleanupFailedStart works with the context of Run.
StopFailedContainer(g) ==
    \/ containers' = IF start[g].containerID THEN containers \ {g} ELSE containers
    \/ ctxDone /\ UNCHANGED containers

\* Mutant: the relay client of a failed start is not cancelled.
FailContainer_noCancel(g) ==
    /\ StartAt(g, "fail.container")
    /\ StopFailedContainer(g)
    /\ GotoStart(g, "fail.wgdown")
    /\ UNCHANGED <<status, loops, tracked, stop, helpers, iface, conf, main, ends>>

FailContainer(g) ==
    /\ StartAt(g, "fail.container")
    /\ helpers' = helpers \ start[g].relayCancel
    /\ StopFailedContainer(g)
    /\ GotoStart(g, "fail.wgdown")
    /\ UNCHANGED <<status, loops, tracked, stop, iface, conf, main, ends>>

FailWGDown(g) ==
    /\ StartAt(g, "fail.wgdown")
    /\ \/ IF start[g].wgConfPath THEN WGDown(start[g].sid) ELSE UNCHANGED iface
       \/ ctxDone /\ UNCHANGED iface
    /\ GotoStart(g, "fail.config")
    /\ UNCHANGED <<status, loops, tracked, stop, containers, helpers, conf, main, ends>>

FailRemoveConfig(g) ==
    /\ StartAt(g, "fail.config")
    /\ conf' = conf \ {start[g].sid}
    /\ GotoStart(g, "fail.report")
    /\ UNCHANGED <<status, loops, tracked, stop, containers, helpers, iface, main, ends>>

\* Mutant: a status the registry has no rule for.
FailReport_failed(g) ==
    /\ StartAt(g, "fail.report")
    /\ updateStatus(start[g].sid, "failed")
    /\ GotoStart(g, "failed")
    /\ UNCHANGED <<loops, tracked, stop, helpers, main, ends, dockerAndWG>>

FailReport(g) ==
    /\ StartAt(g, "fail.report")
    /\ updateStatus(start[g].sid, "terminated")
    /\ GotoStart(g, "failed")
    /\ UNCHANGED <<loops, tracked, stop, helpers, main, ends, dockerAndWG>>
-----------------------------------------------------------------------------
(* stopSession.  After the lookup it reads the fields of rs without a      *)
(* lock, while the start that owns rs may still be writing them.           *)

StopAt(k, pc) == running /\ stop[k].pc = pc

GotoStop(k, pc) == stop' = [stop EXCEPT ![k].pc = pc]

\* Mutant: the session stays in d.sessions while it is being stopped.
StopLookup_noDelete(k) ==
    LET s == stop[k].sid IN
    /\ StopAt(k, "lookup")
    /\ IF tracked[s] = None
       THEN stop' = [stop EXCEPT ![k] = newStop("unused", None)]
       ELSE stop' = [stop EXCEPT ![k].pc = "cancel", ![k].rs = tracked[s],
                                 ![k].completed = start[tracked[s]].pc = "done"]
    /\ UNCHANGED <<status, loops, tracked, start, helpers, main, ends, dockerAndWG>>

\* completed is history: the start whose object is taken had finished.
StopLookup(k) ==
    LET s == stop[k].sid IN
    /\ StopAt(k, "lookup")
    /\ IF tracked[s] = None
       THEN stop' = [stop EXCEPT ![k] = newStop("unused", None)] /\ UNCHANGED tracked
       ELSE /\ stop' = [stop EXCEPT ![k].pc = "cancel", ![k].rs = tracked[s],
                                    ![k].completed = start[tracked[s]].pc = "done"]
            /\ tracked' = [tracked EXCEPT ![s] = None]
    /\ UNCHANGED <<status, loops, start, helpers, main, ends, dockerAndWG>>

StopCancel(k) ==
    /\ StopAt(k, "cancel")
    /\ helpers' = helpers \ start[stop[k].rs].relayCancel
    /\ GotoStop(k, "container")
    /\ UNCHANGED <<status, loops, tracked, start, main, ends, dockerAndWG>>

StopContainer(k) ==
    /\ StopAt(k, "container")
    /\ containers' = IF start[stop[k].rs].containerID
                     THEN containers \ {stop[k].rs} ELSE containers
    /\ GotoStop(k, "wgdown")
    /\ UNCHANGED <<status, loops, tracked, start, helpers, iface, conf, main, ends>>

StopWGDown(k) ==
    /\ StopAt(k, "wgdown")
    /\ IF start[stop[k].rs].wgConfPath THEN WGDown(stop[k].sid) ELSE UNCHANGED iface
    /\ GotoStop(k, "config")
    /\ UNCHANGED <<status, loops, tracked, start, containers, helpers, conf, main, ends>>

StopRemoveConfig(k) ==
    /\ StopAt(k, "config")
    /\ conf' = conf \ {stop[k].sid}
    /\ GotoStop(k, "report")
    /\ UNCHANGED <<status, loops, tracked, start, containers, helpers, iface, main, ends>>

StopReport(k) ==
    /\ StopAt(k, "report")
    /\ updateStatus(stop[k].sid, "terminated")
    /\ stop' = [stop EXCEPT ![k] = newStop("unused", None)]
    /\ UNCHANGED <<loops, tracked, start, helpers, main, ends, dockerAndWG>>
-----------------------------------------------------------------------------
\* Goroutines, relay clients and proxies end with the process; containers,
\* interfaces and files stay.
processEnds ==
    /\ main' = newMain("down")
    /\ loops' = [polled |-> {}, activeIDs |-> {}]
    /\ tracked' = [s \in Sessions |-> None]
    /\ start' = [g \in Starts |->
            IF start[g].pc = "unused" THEN start[g] ELSE newStart("dead", start[g].sid)]
    /\ stop' = [k \in Stops |-> newStop("unused", None)]
    /\ helpers' = {}
    /\ UNCHANGED <<status, dockerAndWG>>

\* An end before the first start changes nothing, and is not considered.
started == \E g \in Starts : start[g].pc # "unused"

Crash ==
    /\ running /\ started /\ ends.crashes < MaxCrashes
    /\ ends' = [ends EXCEPT !.crashes = @ + 1]
    /\ processEnds

\* A signal cancels the context of Run, and with it relay clients and proxies.
Shutdown ==
    /\ main.pc = "up" /\ started /\ ends.shutdowns < MaxShutdowns
    /\ ends' = [ends EXCEPT !.shutdowns = @ + 1]
    /\ main' = newMain("cancelled")
    /\ helpers' = {}
    /\ UNCHANGED <<status, loops, tracked, start, stop, dockerAndWG>>

\* Both branches of Run's select are ready once a loop has returned: it may call
\* cleanup, which collects the tracked sessions, or return without it.
cleanup ==
    /\ main.pc = "cancelled"
    /\ main' = [main EXCEPT !.pc = "cleanup",
                            !.ids = {s \in Sessions : tracked[s] # None}]
    /\ UNCHANGED <<status, loops, tracked, start, stop, helpers, ends, dockerAndWG>>

\* stopSession is called for one session after the other.
stopReturned == main.stopping # None => stop[main.stopping].pc = "unused"

CleanupStops(s, k) ==
    /\ main.pc = "cleanup" /\ s \in main.ids /\ stopReturned
    /\ stop[k].pc = "unused"
    /\ stop' = [stop EXCEPT ![k] = newStop("lookup", s)]
    /\ main' = [main EXCEPT !.ids = @ \ {s}, !.stopping = k]
    /\ UNCHANGED <<status, loops, tracked, start, helpers, ends, dockerAndWG>>

cleanedUp == main.pc = "cleanup" /\ main.ids = {} /\ stopReturned

RunReturns ==
    /\ main.pc = "cancelled" \/ cleanedUp
    /\ processEnds
    /\ UNCHANGED ends

\* Every interface that has a config file is taken down, then the file removed.
CleanupStaleInterfaces ==
    /\ iface' = iface \ conf
    /\ conf' = {}

\* The agent starts again, cleans up, registers and starts its loops.
Run ==
    /\ ~running
    /\ main' = newMain("up")
    /\ CleanupStaleInterfaces
    /\ UNCHANGED <<status, loops, tracked, start, stop, containers, helpers, ends>>

StartStep(g) ==
    \/ Reserve(g) \/ StartContainer(g) \/ StartContainerFails(g) \/ Connect(g)
    \/ WriteConfig(g) \/ WGUp(g) \/ StartProxy(g) \/ ReportRunning(g)
    \/ FailUntrack(g) \/ FailContainer(g) \/ FailWGDown(g) \/ FailRemoveConfig(g)
    \/ FailReport(g)

StopStep(k) ==
    \/ StopLookup(k) \/ StopCancel(k) \/ StopContainer(k) \/ StopWGDown(k)
    \/ StopRemoveConfig(k) \/ StopReport(k)

MainStep ==
    cleanup \/ (\E s \in Sessions, k \in Stops : CleanupStops(s, k)) \/ RunReturns

Next ==
    \/ \E s \in Sessions :
        \/ RenterCreates(s) \/ RenterTerminates(s)
        \/ PollSkips(s) \/ HeartbeatSkips(s)
        \/ \E g \in Starts : PollStarts(s, g)
        \/ \E k \in Stops : HeartbeatStops(s, k)
    \/ \E g \in Starts : StartStep(g)
    \/ \E k \in Stops : StopStep(k)
    \/ PollReply \/ HeartbeatSend \/ Crash \/ Shutdown \/ MainStep \/ Run

Spec == Init /\ [][Next]_vars

\* The heartbeat ticker keeps firing, a heartbeat returns, one that would name a
\* terminated session gets through eventually, stopSession goroutines run on, and so
\* does a shutdown.
\* Nothing is assumed of starts and polls, which may hang in Docker or in an RPC.
FairSpec ==
    /\ Spec
    /\ WF_vars(HeartbeatSend)
    /\ \A s \in Sessions : WF_vars(HeartbeatSkips(s))
    /\ \A s \in Sessions : SF_vars(\E k \in Stops : HeartbeatStops(s, k))
    /\ \A k \in Stops : WF_vars(StopStep(k))
    /\ WF_vars(MainStep)
-----------------------------------------------------------------------------
\* Two stopSession goroutines never tear down the same runningSession, although
\* heartbeats keep asking for it until it is gone: lookup and delete are one
\* critical section.
ExclusiveStop ==
    \A j, k \in Stops : j # k /\ stop[j].rs # None => stop[j].rs # stop[k].rs

\* cleanupFailedStart leaves no container and no relay client of the failed
\* start behind, whatever stops, restarts and other starts of the session come
\* in between, except a container whose ID StartContainer returned with an error,
\* and unless a shutdown has cancelled the context that the clean-up uses.
FailedStartCleans ==
    \A g \in Starts :
        start[g].pc \in {"fail.wgdown", "fail.config", "fail.report", "failed"} /\ ~ctxDone =>
            /\ start[g].containerID => g \notin containers
            /\ <<g, "relay">> \notin helpers /\ <<g, "proxy">> \notin helpers

\* stopSession of a completed start leaves neither its container nor its relay
\* client nor its SSH proxy behind: the chained relayCancel reaches all of them.
CompletedStopCleans ==
    \A k \in Stops :
        stop[k].completed /\ stop[k].pc \in {"wgdown", "config", "report"} =>
            /\ stop[k].rs \notin containers
            /\ <<stop[k].rs, "relay">> \notin helpers
            /\ <<stop[k].rs, "proxy">> \notin helpers

\* When Run returns after cleanup no session that got as far as a container is still
\* tracked: starts that were under way when the sessions were collected have been
\* taken out by stopSession, and starts that came later have failed.
ShutdownStopsAll ==
    [][cleanedUp /\ ~running' => \A s \in Sessions :
            tracked[s] # None => start[tracked[s]].pc = "fail.untrack"]_vars

\* A session the registry calls terminated does not stay tracked: a heartbeat
\* names it and stopSession takes it out, unless a late report revives it.
TerminatedUntracked ==
    \A s \in Sessions :
        status[s] = "terminated" /\ tracked[s] # None
            ~> tracked[s] = None \/ status[s] # "terminated"
=============================================================================
