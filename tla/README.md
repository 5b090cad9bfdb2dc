# A TLA+ verification of peer_compute

peer_compute rents out containers on other people's machines. This directory
holds TLA+ models of its stateful parts, the TLC configurations that check them
on small instances, and TLAPS proofs of the most important results for every
instance. `PROJECT.json` lists components, runs, theorems, findings and hazards,
and maps every definition to the lines it models.

## The system

| Part | Source | Process |
|---|---|---|
| registry: provider and session RPCs | `internal/registry/server.go` | registry |
| tunnel index allocator | `internal/registry/server.go` | registry |
| stores, plugins | `store/`, `plugin/` | registry |
| relay server | `internal/relay/server.go` | registry, or its own |
| agent: registration, poll and heartbeat loops, start and stop of sessions | `agent/` | agent |
| relay client | `internal/relay/client.go` | agent |
| candidates, STUN, hole punching | `internal/nat/` | agent, CLI |
| renter CLI | `internal/cli/` | peerctl |
| retry, logging, wiring | `internal/retry/`, `internal/logging/`, `serve/`, `cmd/` | all |

An agent registers with the registry and sends heartbeats. A renter lists the
providers and creates a session on one; the registry allocates a tunnel index,
from which both sides' WireGuard addresses follow, and stores the session as
pending. The agent polls for pending sessions, starts a container, exchanges
candidates, brings up WireGuard directly, through a punched hole or through the
relay, and reports the session running. A renter terminates it at the registry,
and the answer to the agent's next heartbeat names it; or the agent reports its
end itself. Every RPC is a goroutine of its own, and the handlers meet in the
store, in the allocator, in the candidate map and in the relay without a common
lock: this is where most of the hazards are.

## Modules

| Module | Models | Lines up with the code as follows |
|---|---|---|
| `TunnelIndex` | the index, `advanceTunnel` | uint8 arithmetic is modulo 256 |
| `TunnelPool` | `allocateTunnelIPs`, `reclaimTunnelIndex` | the two maps, the hint, `tunnelMu`, and the scan one slot at a time |
| `TunnelLeases` | what the allocator promises | one atomic step: the nearest free index after the hint, or a denial when there is none |
| `Registry` | the session RPCs | `EXTENDS TunnelLeases`: the allocator it uses is the abstract one, which `TunnelPool` is shown to implement. One step per access to shared state; between steps a handler holds the record it fetched |
| `Providers` | the provider RPCs and the agent's registration | handlers hold the records they are going to write; timestamps are ages |
| `Agent` | poll loop, heartbeat loop, `startSession`, `stopSession`, crash, graceful shutdown and restart | one step per Docker, WireGuard or registry operation and per critical section of `d.mu`; a `*runningSession` is named after the start that made it |
| `Relay` | the relay server and the relay clients | one step per critical section of `rs.mu` and per socket operation; a client is its address, the WireGuard address it has learned and its packets that can still arrive |
| `Rendezvous` | how renter and provider find each other: `session create` and `session connect`, `doConnect`, `GatherCandidates`, `ExchangeCandidates`, `Probe`, the fall-back, and the agent's part of it | a process stands for the key it generates; one step per RPC and per packet received; a packet once sent can arrive at any time, any number of times or never |
| `Stores` | `PostgresStore` and `MemoryStore` | both get the same calls: rows that callers copy beside records that callers share; a lookup by prefix in Postgres is two queries |
| `MC*` | | constants and symmetry for TLC |
| `*Proofs` | | theorems and lemmas |

Names follow the source. A definition whose name has a suffix after an underscore
(`exhausted_offByOne`) is a faulty variant of the definition that follows it, not
used by any specification: it documents which mistake a property catches.

### What is abstracted

- Session records keep status, connection mode, whether the WireGuard endpoint
  and the termination time are set, and the tunnel index. Provider records keep
  status and last heartbeat. Other fields do not influence control.
- In `Registry` and `Providers` a lookup by ID prefix is a lookup by ID; `Stores`
  has the lookup itself, with IDs as sequences of characters.
- Checks that reject a request before anything has changed are not steps.
- In `Registry`, `SharedRecords` tells the stores apart: `MemoryStore` hands out
  pointers to its records, so that an assignment takes effect at once,
  `PostgresStore` hands out copies. Overlapping calls on a `MemoryStore` are data
  races; it is modelled for one call at a time.
- `PutFailures` says how `PutSession` can fail: `"lost"` (not stored) or
  `"applied"` (stored, but the caller sees an error).
- In `Agent` the registry is a status per session. `StopContainer` is assumed to
  work; every other Docker, WireGuard and registry operation may fail.
- In `Relay` a packet is its sender, and a session may be found idle at any time.
- In `Rendezvous` an address is an end and a kind: an interface's own address, the
  server-reflexive one that STUN reported, or the mapping of the WireGuard port in
  a NAT. A server-reflexive address leads nowhere, because `GatherCandidates` asks
  with port 0 and thus from another socket than WireGuard's. Of the registry it
  has the status and the candidates of one session.
- In `Stores` a record has one column that is written once and two that different
  handlers assign; a behaviour is about providers or about sessions, which share
  nothing. Writes always succeed there; their failures are in `Registry` and
  `Providers`.
- Time appears only as ages in `Providers`. Everywhere else a timeout may fire at
  any moment.
- In `Providers` all ages grow together and stop at the first stale one: no
  decision depends on how much older a timestamp is.

## Runs

Passing runs:

| Run | Question | Instance |
|---|---|---|
| `tunnel_pool` | do both maps stay inverse, does the scan neither pass a free slot nor run forever, does the pool implement the leases | 2 majors x 2 minors at the edge of uint8, 5 sessions: either octet wraps, the space runs full |
| `registry_concurrent` | are indices released on termination, kept before it and never shared; is exhaustion real; do running sessions have an endpoint; does every request to terminate end with the index free | 2 overlapping calls, 5 requests, fair handlers, 2 sessions, 1 index: a release too early hands the index on, a missing one exhausts the space |
| `registry_faults` | the release and endpoint invariants under lost writes and one restart between any two steps | 5 requests |
| `agent_start_stop` | is a session torn down by one stop only; do failed starts and stops of completed ones leave nothing behind | 1 session, 2 starts, 2 stops, 1 crash (1,967,237 states); sessions share nothing but `d.mu` |
| `agent_liveness` | does a terminated session stop being tracked; does a shutdown that gets to `cleanup` leave no session running | 1 session, 1 start, 2 stops, 1 shutdown (69,199 states) |
| `relay_forwarding` | do packets stay within their session; is only what is registered served; is there a return path; who owns a raw socket; does a client pass on what is routed to it | 2 tokens, 3 session objects (a token can be registered twice), 3 relay clients, 2 raw clients (1,503,930 states) |
| `rendezvous` | does the agent serve a renter's key only; are the ends of a first connection paired; do the exchanges meet; does a punched address lead to the peer; does the negotiation end | 2 invocations, 1 start, 1 crash, 2 polling attempts, either end behind a NAT or not, with and without candidates (438,528 states) |
| `stores` | do the stores agree on records, lookups and lists; is a full ID exact | 2 callers, 2 IDs with a common prefix, 2 owners (1,217,155 states) |
| `providers` | is an offline provider really stale, a listed one really alive, a running agent's ID known; does an agent that was marked offline come back | 1 agent, 2 IDs, 2 handlers, a timeout of one tick |

Bounds: two handlers suffice for one call to act between the fetch and the write
of another. Two invocations of peerctl suffice for one to find what another left
behind, two polling attempts for a first and a last one. Two IDs with a common
prefix give every outcome of a lookup: none, one, several. Two stops suffice for
one of a heartbeat to meet one of `cleanup`. The proofs below do without these
bounds. The registry, agent and rendezvous runs do not check deadlock: all may
rest when nobody asks for anything and the bounded requests, goroutines or
processes are used up. Symmetry is used over sessions, handlers, goroutines, relay
objects, callers and owners, and in no liveness run.

Larger instances of the agent have been checked by hand, beyond what the
configurations do: two starts and one stop with a shutdown (`TerminatedUntracked`,
5.2 million states), and two starts and two stops with a crash or a shutdown (the
invariants and `ShutdownStopsAll`, 10.2 million states).

Violation runs each check one sentence of the repository that the code does not
live up to; `PROJECT.json` quotes it and names the line.

| Run | Sentence | What happens |
|---|---|---|
| `registry_late_running` | "unique per-session tunnel IPs" | a late running report revives a session whose index is taken |
| `registry_leaked_slot` | "all tunnel IP slots are in use" | a `CreateSession` whose write fails keeps its index |
| `relay_invalidated` | "refusing to forward any further packets" | a replaced registration's raw socket lives on |

Other places where the models behave as the code does and not as one might expect,
without a run of their own:

- `CreateSession` trusts the stored status of a provider, which only a list marks
  offline: a session can be created on a provider that has long been gone;
- an outcome may be recorded more than once for a session (by `TerminateSession`
  and by the agent's report); `TerminatedRecorded` shows that it is recorded;
- the relay's reaper removes a session that is quiet for a minute, and nothing
  registers it again;
- when `GetSession` fails `doConnect` configures the default tunnel addresses,
  whatever the session's index;
- a restarted registry hands out the indices of stored sessions again
  (`NewServer` does not read the store);
- a session that ends by its agent's report keeps its relay session until the
  reaper comes (`UpdateSessionStatus` does not invalidate it);
- `parseTunnelIndex` makes sessions with the same minor and different majors share
  a WireGuard port, which `agent/daemon.go:405` calls collision-free;
- an interface whose config file is gone survives `CleanupStaleInterfaces`;
- two tokens may hash to one raw port, and the second session then has none:
  `Isolation` is checked for distinct ports;
- peerA is whichever relay client sends first, not always the provider's, and a
  delayed packet of a client that has ended can take the place of a live one;
- `UpdateSessionStatus` assigns the status before the check that may reject the
  update with "running sessions must include wg_endpoint"
  (`internal/registry/server.go:536`); with `MemoryStore`, whose records are shared,
  the rejected session is running all the same (`SharedRecords` in `Registry`, `Reject`
  in `Stores`);
- `cleanupFailedStart` gives up the reservation first and the report comes last, so
  that the next poll can start the session again beside a start that is still
  cleaning up, although the reservation is there "to avoid duplicate concurrent
  starts" (`agent/daemon.go:348`);
- on shutdown `Run` may return without `cleanup`, because its loops return as soon as
  the context is cancelled and both branches of the `select` are ready; and a start
  that fails because of the shutdown cleans up with the cancelled context;
- every `session connect` makes a new key, while the agent keeps the one it was
  given when it started the session: after a second invocation the ends no longer
  have each other's keys (`FirstConnectPairs` is about the first);
- a failed last poll of `doConnect` replaces an earlier answer by nothing, and with it
  the relay's address;
- one end may have punched a hole while the other fell back to the relay: a probe
  counts as success where it arrives, and its answer may be lost;
- the comment on `DiscoverEndpoint` says that the local port "should match the
  WireGuard listen port" (`internal/nat/stun.go:19`), `GatherCandidates` passes 0;
- a crash between truncating and writing `provider.json` loses the identity.

### Fairness

- `TunnelPool`: the goroutine that holds `tunnelMu` runs on.
- `Registry`: a handler that has begun runs on, and the calls it makes return.
  No request has to arrive.
- `Agent`: the heartbeat ticker fires and heartbeats return (weak fairness);
  heartbeats that would name a terminated session are not lost for ever (strong
  fairness), as the loop repeats them at every tick; `stopSession` goroutines run
  on, and so does `Run` once it is shutting down. Nothing is assumed of starts and
  polls, which may hang in Docker or in an RPC.
- `Rendezvous`: processes run on, RPCs return with an answer or an error, and the
  timer of `Probe` fires. Nothing is assumed of users, of the agent's polling or of
  packets, not even that one ever arrives.
- `Providers`: handlers run on; a running agent's ticker keeps firing and the
  store does not fail all of its heartbeats (strong fairness). Nothing is assumed
  of the agent's other steps or of time.

## Proofs

| Theorem | Module | Statement |
|---|---|---|
| `PoolSafety` | `TunnelProofs` | `Spec => [](TypeOK /\ MapsInverse /\ ScanSound)` |
| `PoolTyped`, `ScanSkipsNothing` | `TunnelProofs` | `Spec => []P` for `TypeOK`, `ScanSound` |
| `ScanBounded` | `TunnelProofs` | `Spec => [](iterations \in 0..(maxTunnelSlots - 1)) /\ ScanAdvances` |
| `PoolImplementsLeases` | `TunnelProofs` | `Spec => ImplementsLeases` |
| `RegistryTypeCorrect` | `RegistryProofs` | `Spec => []TypeOK` |
| `RegistryReleases` | `RegistryProofs` | `"applied" \notin PutFailures` implies `Spec => []TerminatedReleased` |
| `EndingsRelease` | `RegistryProofs` | `PutFailures = {}` implies `Spec => []EndingIsReleased` |
| `CallsMoveOn` | `RegistryProofs` | `Spec => CallsAdvance` |
| `ExhaustedInUse` | `RegistryProofs` | `"lost" \notin PutFailures` implies `Spec => ExhaustedOnlyInUse` |
| `RegistryUsesLeases` | `RegistryProofs` | `MaxRestarts = 0` implies `Spec => LeaseSpec` |
| `UnendedKeeps`, `RegistryUniqueIPs` | `RegistrySessionProofs` | `SharedRecords \/ MaxRestarts = 0` implies `Spec => []P` for `UnendedKeepsSlot`, `UniqueTunnelIPs` |
| `RunningComplete` | `RegistrySessionProofs` | `~SharedRecords` implies `Spec => []RunningHasEndpoint` |
| `TerminationsRecorded` | `RegistrySessionProofs` | `SharedRecords \/ MaxRestarts = 0` and `"applied" \notin PutFailures` imply `Spec => []TerminatedRecorded` |
| `ProvidersTyped`, `RunningStored`, `OfflineStale`, `ListedAlive` | `ProvidersProofs` | `Spec => []P` for `TypeOK`, `RunningIsStored`, `OfflineIsStale`, `ListedWasAlive` |
| `StoresTyped`, `StoresInterchangeable`, `LookupsInterchangeable`, `FullIDsExact`, `AnswersInterchangeable` | `StoresProofs` | `Spec => []P` for `TypeOK`, `StoresAgree`, `LookupsAgree`, `FullIDExact`, `AnswersAgree` |
| `RendezvousTyped`, `TunnelHasPeer`, `FirstConnectPaired`, `ExchangesAlwaysMeet`, `PunchedAddressReaches` | `RendezvousProofs` | `Spec => []P` for `TypeOK`, `ServesRenter`, `FirstConnectPairs`, `ExchangesMeet`, `PunchedReaches` |
| `ProcessesMoveOn` | `RendezvousProofs` | `Spec => ProcessesAdvance /\ [](\A x \in Procs : stepsLeft(proc[x]) \in 0..(MaxAttempts + 8))` |
| `RelayTyped`, `SocketsOwned`, `ForwardsRegistered`, `RoutedArrives`, `PeersReachEachOther` | `RelayProofs` | `Spec => []P` for `TypeOK`, `SocketOwner`, `MainForwardsRegistered`, `RoutedIsPassedOn`, `ReturnPath` |
| `SessionsIsolated` | `RelayProofs` | `DistinctPorts` implies `Spec => []Isolation` |
| `AgentTyped`, `StopsExclusive`, `FailedStartsClean`, `CompletedStopsClean` | `AgentProofs` | `Spec => []P` for `TypeOK`, `ExclusiveStop`, `FailedStartCleans`, `CompletedStopCleans` |
| `ShutdownComplete` | `AgentProofs` | `Spec => ShutdownStopsAll` |

All constants are arbitrary within the named assumptions of the modules; the
finite sets and ranges are those of the code. The assumptions say that model values
for "nothing" are none of the others, that bounds are natural numbers, that an
address belongs to one socket (`RelayAssumption`) and that IDs have one length
(`StoresAssumption`).

- **Allocator.** `TunnelProofs` gives every index a position on a ring and
  shows that `advanceTunnel` moves one position on, modulo the number of slots,
  whatever the ranges. The conjunction of the three properties is
  inductive: while a call scans, some slot is free and everything it has passed
  is taken, which needs the two maps to agree, and the test before the scan means
  that no slot is free exactly when it fails (`ExhaustedIffFull`). The distance from
  the hint counts the iterations of the loop; it grows by one with each and cannot
  come around, since a free slot lies ahead (`ScanBounded`).
  The refinement maps the end of a scan to `Grant`: the candidate is then the
  nearest free index after the hint.
- **Release.** `TerminatedReleased` alone is not inductive: a handler may hold a
  copy of a terminated record and write it back later. `ReleaseInv` adds that
  every copy with status terminated in a handler that will store it belongs to a
  session whose index is free or will be freed by a handler still on its way. The
  assumption excludes the one known exception: a write that is applied
  although an error is returned leaves a terminated session with its index, and
  no handler on its way. `EndingIsReleased` starts from the request in place of the
  record: whoever has asked to end a session, its index is free or a call that
  releases it is on its way. It also covers a request that finds the session already
  terminated, and rests on no write failing.
- **Exhaustion.** `InUseInv` says that every held index is of a session in the store
  or of one whose creating call is about to store it. A `PutSession` that fails
  without writing leaves an index with nobody; that exception is the one
  `registry_leaked_slot` shows, so it is excluded.
- **Composition of registry and allocator.** `Registry` uses the abstract allocator.
  `RegistryUsesLeases` shows that its behaviours, seen through the allocator's
  variables, are those of `TunnelLeases`: it asks only for sessions without an index.
  With `PoolImplementsLeases` the scanning allocator and its caller meet in the same
  specification. A restart replaces the allocator by a new one, which is no step of
  it.
- **Uniqueness.** `IndexInv` follows an index from the allocation through the
  creating handler's record to the store. Uniqueness follows from the leases being
  disjoint. Restarts are excluded with `PostgresStore`, since the property fails with
  them: a restarted registry does not know the indices of the sessions in the store.
  With `MemoryStore` (`SharedRecords`) the sessions go with the process, and the
  theorems hold across restarts.
- **What a session shows.** Records are stored after they were read, so what holds
  of the store has to hold of the records in hand. `EndpointInv` says that every
  one that is running has an endpoint and a mode. `RecordInv` says that a terminated
  one that another call than `TerminateSession` will store is of a session whose
  outcome is recorded or about to be. `TerminateSession` stores first and records
  next, so a restart between the two, if the record survives it, or a write that is
  applied although an error is returned, leaves a terminated session without
  outcome: both are excluded.
- **Providers.** Handlers write whole records they fetched earlier, so here too what
  holds of the store has to hold of the records in hand. `RecordsFit` says that no
  record, stored or in hand, is younger than the provider's latest contact, and that
  one that says offline is stale. A late write can then set a provider back only to a
  record that was true, and a list never shows one that is out of contact.
  `RunningIsStored` is inductive together with the types: an agent learns its
  ID only after the row exists, and no RPC deletes one.
- **Progress.** Liveness needs fairness, but that a call cannot go on for ever does
  not. `CallsMoveOn` and `ProcessesMoveOn` give each call and each process a number
  (`stepsLeft`) that every step of its own lowers and no step of another raises. With
  the scheduler's fairness, which the proofs do not use, `ScanTerminates` (from
  `ScanBounded`), `EndReleases` (from `CallsMoveOn` and `EndingsRelease`) and
  `NegotiationEnds` (from `ProcessesMoveOn`) are what remains to be concluded; TLC
  checks them as they stand.
- **Stores.** That a put makes the row equal to the shared record depends on what
  the handler has in hand. `AgreeInv` adds that a copy that is not stale equals the
  row before its first assignment (`CopiesKnown`) and the shared record after it
  (`UpdatesSerial`), and that the columns written once agree everywhere
  (`RowsKnown`). That the second query finds what `MemoryStore` finds rests on two
  facts: no full ID is a prefix of another, and two rows are enough to tell that
  there are several (`LIMIT 2`).
- **Rendezvous.** `RInv` says that keys at the registry and in answers are of the
  other end and of processes that ran, that the registry's set for the renter is
  the one the process sent, and that a packet's source is the address at which its
  sender is seen. `ExchangesMeet` is part of it: whichever exchange comes second is
  answered with the set of the first.
- **Relay.** `RelayInv` ties the map, the objects and the sockets to each other
  (`Owned`, `SocketOwner`) and says that every address of a relay client that
  the relay holds, or that is on its way to it, is of a client that has learned its
  WireGuard's address (`PeersKnown`). For isolation every address an object holds has
  to be of its token, which fails as soon as two tokens share a raw port: hence
  `DistinctPorts`.
- **Agent.** `AgentInv` says for each start what it has made and can still cancel,
  for each stop what it has taken and what is left of it, and that what a stop
  took nobody tracks any more. The steps of one goroutine are `Quiet` for all the
  others: they may cancel and remove what belongs to another start, and never add
  to it. For the shutdown `Collected` says that whatever is tracked while `cleanup`
  works is still on its list, is the one it is stopping, or has failed
  because the context is cancelled.

The type invariants of `Stores`, `Rendezvous` and `Relay` are only proved, those of
the other modules are also checked by a run.

Only model-checked: liveness (`ScanTerminates`, `EndReleases`, `TerminatedUntracked`,
`ComesBackOnline`, `NegotiationEnds`). Its fairness is about when a step is enabled,
and the prover has no rule for `ENABLED`. Every safety invariant and action property
that a passing run checks is also the statement of a theorem.
`SharedRecords = TRUE` in `Registry` is covered by no run, and by the proofs of all
theorems about `Registry` but `RunningComplete`, which is about `PostgresStore`.

## Not modelled, and why

- The STUN server (`internal/nat/stunserver.go`) and the STUN wire format: each
  answer is a function of one packet.
- The commands of peerctl that make one RPC and print the answer.
- The back-off arithmetic of `internal/retry`: it decides how long a step takes, and
  the models have no time.
- One composition of everything. The modules meet where one takes the other's
  steps as arbitrary: `Registry` takes any requests, `Agent` any status changes,
  `Relay` any registrations, `Rendezvous` any termination. What would cross all of
  them (a lost report, a session on a provider that is gone, a reaped relay of a
  live session) has no answer in the code and no promise in the repository.
- Process wiring, logging, credentials, host inspection, migrations, generated
  code: I/O without state of its own.
