---------------------------- MODULE PortListener ----------------------------
(***************************************************************************)
(* The port listener of one node: bpf_port_listen/listener.go and the      *)
(* classifier bpf/tc-port-monitor.c.                                       *)
(*                                                                         *)
(* Two maps say which ports are listened on: portToServiceID in the Go     *)
(* process and ports_map in the kernel.  ListenOnPort writes one and then  *)
(* the other, RemovePort deletes from one and then from the other, and no  *)
(* lock is held across the two.  The classifier looks a packet's port up   *)
(* in ports_map and posts a perf event; the loop listenForEvents looks the *)
(* port of an event up in portToServiceID, removes the port and has the    *)
(* service scaled up.  The published port stands for its service.          *)
(***************************************************************************)
EXTENDS Naturals, FiniteSets, FiniteSetsExt

CONSTANTS
    Ports,       \* published ports
    Callers,     \* goroutines that run ListenOnPort or RemovePort
    Loop,        \* the goroutine of listenForEvents
    MapSize,     \* max_entries of ports_map
    RingSize,    \* perf events that fit in the ring buffers
    MaxListens,  \* bound: calls of ListenOnPort
    None         \* no port

ASSUME PortsAssumption ==
    /\ MapSize \in Nat \ {0} /\ RingSize \in Nat \ {0} /\ MaxListens \in Nat
    /\ Loop \notin Callers
    /\ None \notin Ports

VARIABLES
    portToServiceID,  \* ports with an entry in the Go map
    portsMap,         \* ports with an entry in the kernel's map
    events,           \* events[p]: perf events for p that have not been read
    proc,             \* where each goroutine is, and the port it works on
    listens,          \* history: listens[p], entries made by ListenOnPort
    wakes,            \* history: wakes[p], scale-ups requested for p
    refused,          \* history: ports whose last ListenOnPort returned an error
    raced             \* history: ports for which two calls have overlapped

vars == <<portToServiceID, portsMap, events, proc, listens, wakes, refused, raced>>

Procs == Callers \cup {Loop}

Labels == { "idle",     \* not in a call; for the loop: PerfReader.Read
            "update",   \* ListenOnPort: PortsMap.Update
            "load",     \* the loop: portToServiceID.Load
            "remove",   \* RemovePort: portToServiceID.Load
            "delete",   \* RemovePort: portToServiceID.Delete
            "unmap",    \* RemovePort: PortsMap.Delete
            "scale" }   \* the loop: remove requests, then the scale-up

At(g, l)      == proc[g].pc = l
Port(g)       == proc[g].port
Goto(g, l, p) == proc' = [proc EXCEPT ![g] = [pc |-> l, port |-> p]]
Return(g)     == Goto(g, "idle", None)

TypeOK ==
    /\ portToServiceID \subseteq Ports
    /\ portsMap \subseteq Ports
    /\ events \in [Ports -> Nat]
    /\ proc \in [Procs -> [pc : Labels, port : Ports \cup {None}]]
    /\ listens \in [Ports -> Nat]
    /\ wakes \in [Ports -> Nat]
    /\ refused \subseteq Ports
    /\ raced \subseteq Ports
    /\ \A g \in Procs : ~At(g, "idle") => Port(g) \in Ports

Init ==
    /\ portToServiceID = {}
    /\ portsMap = {}
    /\ events = [p \in Ports |-> 0]
    /\ proc = [g \in Procs |-> [pc |-> "idle", port |-> None]]
    /\ listens = [p \in Ports |-> 0]
    /\ wakes = [p \in Ports |-> 0]
    /\ refused = {}
    /\ raced = {}

Total(count) == MapThenSumSet(LAMBDA p : count[p], Ports)

\* No call for p is under way.
Quiet(p) == \A g \in Procs : Port(g) # p

\* Nothing keeps a call for p from starting while another one is under way.
Start(p) == raced' = IF Quiet(p) THEN raced ELSE raced \cup {p}

(***************************************************************************)
(* ListenOnPort, called by a keep-alive goroutine or for a listen request. *)
(***************************************************************************)
ListenOnPort(c, p) ==
    /\ At(c, "idle")
    /\ Start(p)
    /\ Total(listens) < MaxListens
    /\ portToServiceID' = portToServiceID \cup {p}
    /\ listens' = [listens EXCEPT ![p] = @ + 1]
    /\ refused' = refused \ {p}
    /\ Goto(c, "update", p)
    /\ UNCHANGED <<portsMap, events, wakes>>

\* The kernel refuses a new key when ports_map is full; the caller gets an error
\* and the entry in the Go map stays.
Update(c) ==
    LET p == Port(c) IN
    /\ At(c, "update")
    /\ \/ /\ Cardinality(portsMap \cup {p}) <= MapSize
          /\ portsMap' = portsMap \cup {p}
          /\ UNCHANGED refused
       \/ /\ Cardinality(portsMap \cup {p}) > MapSize
          /\ refused' = refused \cup {p}
          /\ UNCHANGED portsMap
    /\ Return(c)
    /\ UNCHANGED <<portToServiceID, events, listens, wakes, raced>>

(***************************************************************************)
(* RemovePort, called for a remove request or by the loop.                 *)
(***************************************************************************)
RemovePort(c, p) ==
    /\ At(c, "idle")
    /\ Start(p)
    /\ Goto(c, "remove", p)
    /\ UNCHANGED <<portToServiceID, portsMap, events, listens, wakes, refused>>

\* The loop goes on to scale up, whether RemovePort fails or not.
AfterRemove(g) == IF g = Loop THEN Goto(g, "scale", Port(g)) ELSE Return(g)

RemoveLoad(g) ==
    /\ At(g, "remove")
    /\ \/ Port(g) \in portToServiceID /\ Goto(g, "delete", Port(g))
       \/ Port(g) \notin portToServiceID /\ AfterRemove(g)
    /\ UNCHANGED <<portToServiceID, portsMap, events, listens, wakes, refused, raced>>

\* Mutated: RemovePort forgets the Go map.
DeleteSkipped(g) ==
    /\ At(g, "delete")
    /\ Goto(g, "unmap", Port(g))
    /\ UNCHANGED <<portToServiceID, portsMap, events, listens, wakes, refused, raced>>

Delete(g) ==
    /\ At(g, "delete")
    /\ portToServiceID' = portToServiceID \ {Port(g)}
    /\ refused' = refused \ {Port(g)}
    /\ Goto(g, "unmap", Port(g))
    /\ UNCHANGED <<portsMap, events, listens, wakes, raced>>

\* Mutated: RemovePort forgets the kernel's map.
UnmapSkipped(g) ==
    /\ At(g, "unmap")
    /\ AfterRemove(g)
    /\ UNCHANGED <<portToServiceID, portsMap, events, listens, wakes, refused, raced>>

\* Deleting a key that is not there is an error, with the same outcome.
Unmap(g) ==
    /\ At(g, "unmap")
    /\ portsMap' = portsMap \ {Port(g)}
    /\ AfterRemove(g)
    /\ UNCHANGED <<portToServiceID, events, listens, wakes, refused, raced>>

(***************************************************************************)
(* port_classifier and listenForEvents.                                    *)
(***************************************************************************)
\* A TCP packet to a watched port.  An event that does not fit is lost, which
\* changes nothing, and a packet to another port is let pass.
Packet(p) ==
    /\ p \in portsMap
    /\ Total(events) < RingSize
    /\ events' = [events EXCEPT ![p] = @ + 1]
    /\ UNCHANGED <<portToServiceID, portsMap, proc, listens, wakes, refused, raced>>

\* Mutated: an error of PerfReader.Read, or a record that is too short, does not
\* send the loop back: it goes on without a port.
ReadUnchecked(p) ==
    /\ At(Loop, "idle")
    /\ IF events[p] > 0
       THEN /\ Start(p)
            /\ events' = [events EXCEPT ![p] = @ - 1]
            /\ Goto(Loop, "load", p)
       ELSE /\ Goto(Loop, "load", None)
            /\ UNCHANGED <<events, raced>>
    /\ UNCHANGED <<portToServiceID, portsMap, listens, wakes, refused>>

\* The rings of the CPUs are read in any order.  A read that fails and a record
\* that is too short send the loop back to Read: nothing changes.
Read(p) ==
    /\ At(Loop, "idle")
    /\ Start(p)
    /\ events[p] > 0
    /\ events' = [events EXCEPT ![p] = @ - 1]
    /\ Goto(Loop, "load", p)
    /\ UNCHANGED <<portToServiceID, portsMap, listens, wakes, refused>>

\* Mutated: what was loaded from the Go map is taken for a value of another type.
LoadDrops ==
    /\ At(Loop, "load")
    /\ Return(Loop)
    /\ UNCHANGED <<portToServiceID, portsMap, events, listens, wakes, refused, raced>>

\* An event for a port that has been removed in the meantime is dropped.
Load ==
    /\ At(Loop, "load")
    /\ \/ Port(Loop) \in portToServiceID /\ Goto(Loop, "remove", Port(Loop))
       \/ Port(Loop) \notin portToServiceID /\ Return(Loop)
    /\ UNCHANGED <<portToServiceID, portsMap, events, listens, wakes, refused, raced>>

\* SendRemoveRequestToAllNodes, then ScaleTo or SendScaleRequest.
Scale ==
    /\ At(Loop, "scale")
    /\ wakes' = [wakes EXCEPT ![Port(Loop)] = @ + 1]
    /\ Return(Loop)
    /\ UNCHANGED <<portToServiceID, portsMap, events, listens, refused, raced>>

(***************************************************************************)
(* The specification.                                                      *)
(***************************************************************************)
CallStep(g) == Update(g) \/ RemoveLoad(g) \/ Delete(g) \/ Unmap(g)

Next ==
    \/ \E c \in Callers, p \in Ports : ListenOnPort(c, p) \/ RemovePort(c, p)
    \/ \E g \in Procs : CallStep(g)
    \/ \E p \in Ports : Packet(p) \/ Read(p)
    \/ Load \/ Scale

Spec == Init /\ [][Next]_vars

\* Goroutines that can run do.  A read empties one ring before it turns to the
\* next, and a ring is finite, so no port's events wait behind others for ever.
\* The loop's scale-up is not among them: a worker's request waits for the manager,
\* whose handler may wait for ever to send on keepAliveCh.
FairSpec ==
    /\ Spec
    /\ \A g \in Procs : WF_vars(CallStep(g))
    /\ \A p \in Ports : SF_vars(Read(p))
    /\ WF_vars(Load)

(***************************************************************************)
(* Properties.                                                             *)
(***************************************************************************)
\* The two maps are kept in step: between calls, a port whose calls have not
\* overlapped and that ListenOnPort has not refused is in both or in neither, so
\* that a packet to a watched port can be traced to its service and a service
\* that counts on its port is watched.
MapsAgree ==
    \A p \in Ports : Quiet(p) /\ p \notin refused \cup raced =>
        (p \in portToServiceID <=> p \in portsMap)

\* A burst of packets wakes a service once: the loop asks for no more scale-ups
\* for a port than there were registrations of it, however many events wait in
\* the ring and whoever else removes or registers the port meanwhile.
OneWakePerListen == \A p \in Ports : wakes[p] <= listens[p]

\* A packet event for a registered port is never overlooked: the registration
\* is taken back, by the loop or by a remove request, unless a scale-up that the
\* loop has asked for never returns.
EventEndsRegistration ==
    \A p \in Ports :
        events[p] > 0 /\ p \in portToServiceID
            ~> p \notin portToServiceID \/ []At(Loop, "scale")
=============================================================================
