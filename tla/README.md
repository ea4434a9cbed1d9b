# Verification of swarm-autoscaler

TLA+ specifications of the autoscaler under `src/autoscaler`, TLC runs that
check them on small instances, and TLAPS proofs for every value of the
constants. The older prototypes, benchmarks and deployment scripts of the
repository are not part of the program and are left out.

## 1. The system

One autoscaler process runs on each node of a Docker Swarm; one of the nodes is
the manager. Each process watches the containers it owns. When a container uses
too much or too little of the configured resource, its monitor asks the manager
for one replica more or less. A service that is at one replica and still idle is
kept alive for a period and then set to zero; from then on a packet to its
published port, seen by an eBPF classifier on any node, brings it back.

| Component | State | Operations | Talks to |
|---|---|---|---|
| Replica manager (`scale/scale.go`) | `keepAliveOps`: service -> unbuffered channel, no lock; the Swarm store with a Version per service | `ChangeServiceReplicas`, `updateServiceConstraints`, `keepAliveAndScaleDown`, `scaleTo` | Docker API, port listener, `server` |
| HTTP servers and clients (`server/server.go`) | none of their own | scale, listen and remove requests and their broadcasts | every node |
| Port listener (`bpf_port_listen`) | `portToServiceID` (Go), `ports_map` (kernel, 256 entries), perf ring | `ListenOnPort`, `RemovePort`, `listenForEvents`, `port_classifier` | replica manager or `server` |
| Event notifier and main loop (`scale/scale.go`, `autoscaler/autoscaler.go`) | `StartChan`, `StopChan` (10 each), `monitoringCtxMap` | `ListenForEvents`, `GetRunningContainers`, `startMonitoring`, main's select | Docker API, monitors |
| CPU and memory monitors (`cgroup_monitoring`) | last reading, a ticker | sampling loop, threshold test | replica manager or `server` |
| Concurrent-request probe (`conc_req_monitoring.c`) | counts, buffers, gates, valid namespaces (kernel maps), perf rings | `kprobe_tcp_recvmsg`, on every CPU | concurrent-request monitor |
| Concurrent-request monitor (`conc_req_monitoring.go`) | a context and a channel per namespace | perf loop, `addNamespace`, `removeNamespace`, `Monitor` | probe, replica manager or `server` |
| Configuration, logging | read once; output only | | |

What makes the program hard:

- **Concurrency without locks.** `net/http` runs each request in its own
  goroutine. Handlers, keep-alive goroutines and the packet loop share
  `keepAliveOps` and the replica counts; the only serialisation is Swarm's
  Version check inside one `scaleTo`.
- **Kernel code on several CPUs.** The probe reads, tests and writes unlocked map
  entries through pointers that an update of the map makes stale.
- **Blocking channels.** A cancellation, and an event for a concurrent-request
  monitor, are sends on an unbuffered channel whose receiver may be gone; the
  container events pass through two bounded channels.
- **Multi-step protocols.** Going to zero is: register here, ask every node, set
  the count. Waking is: remove here, ask every node, scale. They may overlap.
- **Failure.** Every API call and HTTP request may fail, with or without its
  effect; a process may restart and keeps nothing; error returns leave state
  behind.

What correctness means, per component: zero is reached only in the proper way
and only from one replica, and a service has one keep-alive operation that can
be cancelled (replica manager); a service at zero can be woken (protocol); the
two maps agree and a burst of packets wakes once (port listener); the monitors
are those of the running containers (events); a request to scale is justified by
what was measured (monitors, probe); a gate that was closed is opened again and
events find their monitor (concurrent requests); every goroutine gets on.
`PROJECT.json` lists the hazards with their lines.

## 2. The modules

| Module | Models | Uses |
|---|---|---|
| `ReplicaContract` | abstract: what the manager promises about replica counts | |
| `ScaleManager` | the replica manager, its goroutines and the Docker API | `INSTANCE ReplicaContract` |
| `ScaleToZero` | the protocol between the nodes, composed with the manager | `EXTENDS ScaleManager` |
| `PortListener` | one node's listener: both maps, ring, classifier, loop | |
| `ContainerEvents` | one node's notifier, main loop and set of monitors | |
| `ResourceMonitor` | a CPU or memory monitor, the ticker, the choice of thresholds | |
| `ScalingGate` | abstract: what the probe promises to the Go process | |
| `ConcReqProbe` | the kernel probe on several CPUs, map access by map access | `INSTANCE ScalingGate` |
| `ConcReqMonitor` | the Go side of concurrent-request monitoring, composed with the abstract probe | `EXTENDS ScalingGate` |
| `MC*` | the instances for TLC | |
| `*Proofs` | theorems about the module they are named after | that module, TLAPS; `ScaleToZeroProofs` also `ScaleManagerProofs` |

**ScaleManager.** `proc[p]` is a goroutine: the label of its next access to
shared state, its service, the target it computed and the channel it sends on. A
handler runs `ChangeServiceReplicas` (`Request` to `Store`), an element of `Ops`
is a keep-alive goroutine together with its channel (`Expire` to `Forget`),
`Listener` is the packet loop that calls `ScaleTo(s, 1)`; all three share the
actions of `scaleTo`. A service's specification is abstracted to its replica
count, its placement constraint, and `fresh`, the goroutines whose inspected
Version is still current: `ServiceUpdate` demands it, and takes it from every
other goroutine of the service. Code between two accesses to shared state is part
of the action of the access before it. A Go map used by two goroutines at a time
may abort the process: that outcome, a panic, and a crash are `Restart`. `MayFail`
says whether calls and the process fail. A `ServiceUpdate` may take effect and still
return an error: the request or the operation then ends, the operation with its
entry left in `keepAliveOps` and the service at zero. Without `MayFail` the only
errors left are the manager's own: a Version that is out of date, a direction that
is neither "over" nor "under", and the bound on replicas (`AtBound`).

**ScaleToZero** replaces the single steps `ListenOk` and `NotifyOk` by the
registration on the manager (`ListenHere`) and one HTTP request per node
(`AskNode`), and adds each node's event loop: `Packet`, `RemoveAt`, then
`ScaleUpHere` on the manager or `SendScaleRequest` on a worker, which occupies a
handler of the manager until it returns. Failed and half-done requests are
`ListenFails`, `RemoveFails`, `SendScaleRequestFails`; an HTTP status is not
looked at by the senders, so a refused registration counts as done. Broadcasts
visit the nodes in the order of a Go map, which is left open here, and stop at
the first error. A worker is in its own list of nodes (`OtherNodes`) and asks
itself to remove the port as well, which may undo a registration that has come
since. `missed` is a history variable: the services for which a wake-up was
overtaken by the scale-down on the manager, or lost to a failure; a restart loses the
wake-up the node was making (`WakesOf`), and that of the manager also what it
listened for.

**PortListener** splits registration and removal, which `ScaleToZero` takes as
single steps, into their two map accesses each. `listens`, `wakes`, `refused`
and `raced` are history variables: registrations and wake-ups counted, ports the
full kernel map has refused, and ports for which two calls have overlapped. A
port stands for its service, packet parsing for its result.

**ContainerEvents.** Docker's stream, the notifier, two bounded channels, the
list taken at start-up and main's select. `Since` has a resolution of a second,
so a subscription replays any suffix of the past. `skipped` is a history
variable, the containers that were lost track of: by an error; by a stop that
main's select takes before the start of the same container, after which nothing
stops its monitor; or by an event between main's list and the subscription,
which a goroutine of its own makes (`InTheGap`).

**ResourceMonitor.** Time passes in units while the monitor waits, reads or has a
request under way. The ticker's channel holds one tick; the select takes it out
(`ReceiveTick`) before the file is read (`Sample`, `ReadFails`), so the next one may
become due in between. `delta` is what the code computes from `lastUsageUsec`;
`used`, `age`, `last`, `prev` and `request` are history variables: what was really
used since the last good reading, and the lengths of the last intervals. Every choice of
thresholds that starts a CPU or memory monitor is an initial state. Memory is
read as a level, so only CPU has a question of intervals.

**ScalingGate, ConcReqProbe, ConcReqMonitor.** The entry of a namespace in
`scaling_map` is a gate: a CPU that finds it open may close it and posts an event;
the Go process opens it. `ScalingGate` states that and leaves open why a CPU
triggers. `ConcReqProbe` has a step for each helper call, load or store on a map, as
the committed object file has them (`bpf_bpfel.o`): the source names `*count` several
times, the build loads it once (instruction 102) and stores it once (110), and loads
`*buffer` once before its store and once for the comparison. The exceptions are the
lookups up to `Arrive`, in maps that are written before the namespace becomes valid,
and the lookup and load of `*scaling` (`CheckGate`): nobody writes through a pointer
into `scaling_map`; that the element is replaced and filled again between the two is
left out. The pointer `count` is to the entry, to the local `zero32`, or stale after a
Put or Delete of the Go process: then any count may be read from it, and a store
through it may hit any entry. For `buffer_map` the model has the elements themselves: `live`, the element in the table, `spare`, each CPU's
spare one, `val`, what they hold. Updating a key of a preallocated hash map puts
the CPU's spare into the table and keeps the old element as the spare, so after
line 148 of the probe `buffer` points to an element outside the table. `streak` is
a history variable, the samples out of range in a row as they were judged, unknown
(-1) after CPUs have met in the probe or the buffer was deleted under one, known
again after a visit that met nobody and left zero. A stale pointer may even reach
an element that is in use for another namespace by then: the write is interference
there, from a CPU that is not inside (`Hit`). The condition
`state == TCP_CLOSE || state == TCP_CLOSE_WAIT || TCP_LAST_ACK` is always true, so
every state but `TCP_ESTABLISHED` counts down, and what is counted are calls of
`tcp_recvmsg`, not connections. The Go process's calls come at any time there.

`ConcReqMonitor` takes the probe as `ScalingGate` has it and adds which keys it
creates. `addNamespace` and `removeNamespace` are a step per map; the perf loop
reads an event, looks up and tests the context (two reads that no other step can
come between with a different result), and sends. A send and its receive are one
step. A namespace number may be used again once its container is dead, while main
has not yet cancelled the old monitor or its removal is under way. `lost` records
gates whose event went nowhere (no room in the ring, no context, a cancelled
context, or a monitor that gave up) and gates that a failed Put has left closed, for
the code only prints that error (`OpenGate`). `overlapped` records namespaces whose new
monitor began before the old one had ended.

History variables are never read by a guard; they only delimit what a property
speaks of.

Every definition that models code is mapped to its lines in `PROJECT.json`.
Operators called "Mutated" are plausible bugs, used to confirm that each
property can fail.

## 3. What the runs check

| Run | Result | Properties |
|---|---|---|
| `manager_serial` | holds | `TypeOK`, `OneKeepAlivePerService`, `KeepAliveCancellable`, `ZeroOnlyFromOne` when requests for one service do not overlap |
| `swarm_wakeable` | holds | `SwarmTypeOK`; `ZeroStaysWakeable`; `ImplementsContract`, for the composed system and overlapping requests |
| `swarm_liveness` | holds | `RequestReturnsOrSends`, `KeepAliveEnds`, `ManagerLoopReturns` |
| `listener` | holds | `TypeOK`, `MapsAgree`, `OneWakePerListen`, `EventEndsRegistration` |
| `events` | holds | `TypeOK`, `MonitorsAreRunning`, `NotifierMovesOn`, `RunningIsMonitored` |
| `probe` | holds | `TypeOK`, `JustifiedTrigger`, `BufferIsStreak`, `ImplementsGate` |
| `concreq` | holds | `TypeOK`, `ClosedGateHasOwner`, `MonitorStaysRegistered`, `SendHasReceiver`, `ClosedGateReopens` |
| `monitor` | holds | `TypeOK`, `RequestMatchesUse`, `SamplesAreSpaced` |
| `manager_overlap_zero` | violated | `ZeroOnlyFromOne` with overlapping requests |
| `manager_cancel` | violated | `CancellationCompletes` |
| `swarm_race` | violated | `ZeroIsWakeable` |
| `concreq_gate` | violated | `GateIsAddedBack` |

The violated ones are disagreements between the code and what its comments or
documentation say; `findings` quotes them:

- *Overlapping requests.* `keepAliveOps` is tested and changed in separate
  steps. An "over" request that looks before an "under" request has stored its
  entry goes on to two replicas, and the operation later sets them to zero. In
  the same way two "under" requests start two operations. This is why the
  theorems about keep-alive operations assume `Serial`.
- *Cancellation.* `keepAliveCh <- true` waits for ever if the goroutine has left
  its select, or has returned on an error and left its entry. No overlap needed.
- *Wake-up during scale-down.* A packet between the registration of the port and
  `scaleTo(s, 0)` removes all listeners; the service then goes to zero unheard. The
  run has `MayFail` FALSE: no Docker call, request or process fails. The wake-up's own
  update may lose to the scale-down's by its Version, an error that
  `listenForEvents` does not look at.
- *Event before context.* `addNamespace` opens the gate before it stores the
  context. An event in between is dropped and the gate of the new container stays
  closed: it is never scaled again. The run has `MayFail` FALSE and assumes that
  requests to scale return (`PromptSpec`), so that nothing else keeps a gate closed.

What the passing runs had to except, and so show about the code:

- A stop that overtakes its start, or an event between list and subscription,
  leaves a monitor too many or too few (`skipped`).
- A removal that is still under way may delete the registration of a successor
  with the same namespace number (`overlapped`).
- The perf loop blocks for all namespaces if its receiver is cancelled after the
  test of the context, or has given up: that path neither cleans up nor cancels
  (`Stuck`).
- A request to scale may never return (`manager_cancel`). The gate of the monitor
  that made it then stays closed (`Held`), and a port listener whose loop made it
  reads no more events; `ClosedGateReopens` and `EventEndsRegistration` except exactly
  that.
- Every gate whose event or whose reopening went wrong is on record (`lost`).

What the properties do not say of the monitors: `RequestMatchesUse` compares all that
was used since the last good reading with the configured thresholds, as the code
does. The code takes every interval for one period, so after failed readings or a long
request an "over" may come from use spread over several periods, and after a short
interval an "under" may follow; an upper threshold that is not configured is -1, and
every reading is "over". These are consequences of the code's own definitions, listed
as hazards and not excluded from the model. `SamplesAreSpaced` bounds how short the
intervals get: a tick that waits during a request and another one that becomes due
while the file is read make three readings follow at once, the fourth comes after more
than a period since the first.

### When do requests overlap?

A service without the label `autoscaler.handlerNode` is watched by the monitor
of its first task alone, which waits for the answer of a request before it
sends the next: its requests are serial. They overlap when several tasks of a
labelled service run on the handler node, when two tasks carry slot 1 for a
moment during a replacement, or when a worker wakes the service. `Watches`
expresses the two situations: `OwnService` and `SameService`.

### Bounds

- *Services, handlers, operations.* Keep-alive state is per service; two services
  show that they do not disturb each other, two handlers on one service are the
  least that can overlap. `Ops` bounds the operations alive at a time; in
  `manager_serial` it is never what stops a handler (`OpsAssumption`).
- *`MaxReplicas` = 2* reaches every comparison of the code (0, 1, more than 1).
- *Nodes = {m, w}.* A manager and a worker are the two roles; a broadcast then
  has one recipient, which may get or lose its request.
- *`MapSize` = 1* with two ports makes the kernel's map full (256 in the code).
  *`RingSize` = 1*: one event waits while another is handled, further ones are
  lost. *`MaxListens` = 3*: a port is registered again while an old event waits and the
  other port competes for the map.
- *`ChanCap` = 1* (10 in the code) makes the channels full with two owned
  containers; the third one is not owned.
- *`probe`.* Two CPUs and one namespace: the maps are per key, so namespaces meet
  only in the spare elements and through stale pointers. `BufferLength` = 2 tells a first sample from a
  trigger, `MaxBuffer` = 3 lets a race jump over the limit, counts 0, 1, 2 are low,
  in range and high; `Width` = 8 bits stand for 32. `ProbeView` hides what spare
  elements hold that nobody points to.
- *`concreq`.* Two containers get the same number, `Ring` = 1 lets events be lost;
  with a second CPU two events follow one closing. `Crowd` = 1: both CPUs are in the
  probe at once only while one container has been started.
- *`monitor`.* Three units to a period, so that a request may end between ticks;
  `MaxAge` = 5 is more than a period and a half, so that a tick is dropped;
  the thresholds are unset, zero, in reach and out of reach. `MBPerGB` = 3 stands for 1024.

Symmetry is used in runs without liveness only. `CHECK_DEADLOCK FALSE` is set
where the system may stop: in `concreq` and `concreq_gate` all containers may be
dead, in `monitor` the monitor has returned, in `swarm_race` nothing fails and
handlers may wait at a send.

### Fairness

Goroutines that can run do (Go's scheduler), timers fire, and Docker and HTTP
calls return with or without an error. The last is an assumption: the code sets
no timeout. (A request to scale, whose handler may block, is not among them.) A
handler at a send has no fairness that would help it: without a receiver the step is
not enabled. Strong fairness is assumed in two places: Go's
`select` picks among ready channels at random, so it does not ignore one for
ever, and the perf readers drain finite rings, so no port's or namespace's events
wait for ever. A CPU that has entered the probe finishes it. A monitor's or a packet
loop's request to scale is not assumed to return, for `manager_cancel` shows that it
may not: `FairSpec` of `ConcReqMonitor` and of `PortListener` has no fairness for it.
Only `concreq_gate` adds it (`PromptSpec`), to show that its violation has another
cause. In `ScaleToZero` the whole request is in the model, and the properties are
about the manager's goroutines. Requests, packets, container starts and failures are
never promised; restarts of a process are assumed not to go on for ever in `ContainerEvents`.

## 4. What is proved

Every invariant and every action property that a passing run checks, and both
refinements, are theorems: they hold for all values of the constants that the
ASSUMEs of the modules allow, the bounds of the runs included. Each proof module
begins with its inductive invariant, which TLC checked on the run's instance
before it was proved; one lemma per conjunct says that `Next` keeps it.

**ScaleManagerProofs**, for any sets of services, handlers and operations, from
`ConstantsAssumption`.

- `TypeCorrect`. Beside the types, a running goroutine has a service and a handler
  at a send has a channel that was made.
- `ManagerImplementsContract`: `Spec => ImplementsContract`, with the operations
  about to call `scaleTo(s, 0)` as the announcements. The step simulation needs
  the invariant `Targets`: a handler never has a target below one, the listener
  has one, an operation zero. So a count that becomes zero was written by an
  operation that got through its listen requests. No assumption on overlap.
- `SerialKeepAlive` (`OneKeepAlivePerService`), `SerialCancellable`
  (`KeepAliveCancellable`) and `SerialZeroOnlyFromOne` (`ZeroOnlyFromOne`), under
  `Serial`, since `manager_overlap_zero` shows that they need it. None of the three
  is inductive. `SerialInv` adds that a running operation is the entry of its
  service and of no other (`EntryIsAlive`), that the service is at most at one
  replica as long as it runs (`KeptAliveAtOne`), and what a handler knows at each
  label because nobody else serves its service (`Knows`): at most one replica and no
  entry when it stores one; no running operation once the cancellation is over or
  was not needed. The packet loop is outside this serialisation, and needs no more
  than that its target is one.

**ScaleToZeroProofs**, for any sets of nodes as well.

- `SwarmTypeCorrect`, and `SwarmImplementsManager`: `SwarmSpec => Spec`. The nodes'
  steps are steps of the manager's goroutines or leave them alone, so all theorems on
  `ScaleManager` hold of the composition; `SwarmImplementsContract` is one use.
- `ZeroIsWakeableUnlessMissed` (`ZeroStaysWakeable`). The invariant `WakeInv` says
  who stands in between: an operation past `ListenOnPort` has the manager's listener
  to count on (`ListenersFirst`), the goroutine a waking node waits for works on that
  node's service (`WakerServes`), and a service at zero is registered or some node's
  goroutine has not returned yet (`ZeroIsCovered`).

**PortListenerProofs**, for any ports, callers, map and ring sizes.

- `TypeCorrect`; `BurstWakesOnce` (`OneWakePerListen`). The count of registrations is
  ahead of that of wake-ups by one while a port is registered or being woken, by two
  if it was registered again after the loop had taken the registration it found
  (`WakesAreCovered`); bare `wakes <= listens` is not inductive.
- `MapsStayInStep` (`MapsAgree`). A port that is not on record as raced has one call
  at most (`OneCall`), and its maps differ only between that call's two writes
  (`MapsInStep`).

**ContainerEventsProofs**, for any containers and any capacity.

- `TypeCorrect`; `MonitorsFollowContainers` (`MonitorsAreRunning`). What main does
  not know of a container is on its way to it: in the past that may be replayed, in
  the stream, in the notifier's hand or in a channel. `Followed` says so for each
  status of the container, and that a start still under way though the container is
  dead has the die event behind it: without that order, the start taken last would
  leave a monitor for ever. A subscription is the hard step: a dropped event of a
  container is in the gap of `InTheGap` or made no difference.

**ResourceMonitorProofs**, for any period, rates and thresholds.

- `TypeCorrect`; `RequestsMatchUse` (`RequestMatchesUse`), from the invariant that
  `lastUsageUsec` lags behind by what was used since the last good reading (`Lag`);
  `ReadingsAreSpaced` (`SamplesAreSpaced`), from `Spacing`, which relates the lengths of
  the last intervals to the ticker's phase, to the tick that may wait and to the one
  that was received and not yet followed by a reading.

**ConcReqProbeProofs**, for any CPUs, namespaces and elements.

- `TypeCorrect`: counts do not wrap and no element of `buffer_map` is in two places.
  It needs that where `count` points to the entry, the entry is there (`Pointing`).
- `BufferHoldsStreak` and `TriggersAreJustified` (`BufferIsStreak`,
  `JustifiedTrigger`). The invariant says of a CPU that met nobody which element it
  has in hand at each label and how the streak follows from it (`Grip`, `Tally`): the
  table's element or `initial` up to the update, then its own spare, which holds the
  same value; that is why the comparison in line 150 is right although it reads an
  element outside the table.
- `ProbeImplementsGate`: `Spec => ImplementsGate`, action by action.

The first attempt at `BufferIsStreak` failed, for a reason in the code: with two
namespaces, an element that an update replaced becomes its CPU's spare, and then the
element of another namespace, while a third CPU still points to it. Its write raises
the buffer of a namespace that it is not in. `Hit` now puts such a write on record as
a race. Two namespaces are more than TLC finishes in the time of a run; the theorem
covers them.

**ConcReqMonitorProofs**, for any containers, CPUs and assignment of namespaces.

- `TypeCorrect`; `ClosedGatesAreOwned` (`ClosedGateHasOwner`); `SendsAreReceived`
  (`SendHasReceiver`); `RegistrationsStay` (`MonitorStaysRegistered`). A context is
  that of a container of its namespace which runs, was cancelled or has given up
  (`ContextsFit`), the perf loop sends within a namespace (`LoopFits`), and without
  an overlap one monitor of a namespace is between its begin and its end
  (`OneMonitor`), so nobody else's `removeNamespace` touches the registration that
  `Registration` follows through `addNamespace`.
- `MonitorUsesGate`: `Spec => GateSpec`, the composition keeps to `ScalingGate`.

Constants are assumed to be what the code has: sizes, limits and capacities are
natural numbers, a buffer, a ring or a channel holds at least one, the configured
length of the buffer is not zero, and model values such as `None` are no members of
the sets they stand beside. `2^Width \in Nat` is stated in `ProbeAssumption` because
the provers do not know exponentiation; TLC evaluates it.

Only model-checked: the temporal properties `RequestReturnsOrSends`,
`KeepAliveEnds`, `ManagerLoopReturns`, `EventEndsRegistration`, `NotifierMovesOn`,
`RunningIsMonitored` and `ClosedGateReopens` (fairness and ENABLED are beyond the
prover). The four violated properties have no theorem, of course.

## 5. What is not modelled

- The parsing of the configuration and the start-up checks (sequential), logging
  (output), HTTP decoding, packet parsing, the parsing of cgroup files. The sample
  `build/config.yaml` names the memory thresholds `lower-gb` and `upper-gb`, with a
  fraction; `loadConfig` reads integers `lower-mg` and `upper-mg`.
- Generated files: the bindings by bpf2go and `vmlinux.h`, which has 131517 of the
  131805 lines of C in the repository and declares the kernel's types. The C of the
  program is the probe and the classifier, 243 lines, and both are modelled; the
  rest of the program is Go. The C files under `archive/` are prototypes that
  nothing builds or loads.
- The word in the probe's event (Lower or Upper): it is that of the last sample of
  the streak, the others may have been out of range on the other side.
- The capacity of the concurrent-request maps (1024 entries). `scaling_map` is
  never cleaned up.
- A restart while concurrent-request monitors run: the maps go with the process,
  so the new one begins in `Init`; `ContainerEvents` has the restart.
- How the monitors and the manager are joined: to the manager monitors are sources
  of requests at any time, which is what `Request` allows.
- Time: the keep-alive period may end at any moment.
- Other users of the Swarm API: nobody else changes the services.

## 6. Plan

Done: all modules of section 2 and all theorems of section 4. What is left:

1. Safety facts on which the temporal properties rest, as theorems: a handler at a
   send whose channel is its service's entry waits for an operation that runs or has
   returned on an error (`CancellationCompletes` fails in no other way); an event that
   waits in a channel has a main that will come to its select (`NotifierMovesOn`).
2. What a race can do at worst: `BufferIsStreak` and `MapsAgree` except raced states;
   bounds that hold in those as well, such as how far the buffer can pass its limit.
3. Shorter proofs where several lemmas repeat the same case split.
