--------------------------- MODULE ConcReqMonitor ---------------------------
(***************************************************************************)
(* The Go side of concurrent-request monitoring (conc_req_monitoring.go),  *)
(* composed with the kernel probe as ScalingGate describes it: the maps    *)
(* that addNamespace and removeNamespace write one after the other, the    *)
(* map namespaceToContext, the Monitor goroutine of each container and the *)
(* one perf loop, which hands an event to a Monitor over an unbuffered     *)
(* channel.                                                                *)
(*                                                                         *)
(* Maps are keyed by the inode number of the network namespace.  A number  *)
(* is given out again after its namespace has gone, so two containers that *)
(* do not run at the same time may have the same one.                      *)
(***************************************************************************)
EXTENDS ScalingGate, FiniteSets

CONSTANTS
    Containers,
    Netns,    \* Netns[c]: the namespace of container c
    Ring,     \* events of a namespace that fit in the perf ring
    Crowd,    \* bound: CPUs overlap while at most Crowd containers have started
    MayFail   \* whether a worker may find no manager node and a Put may fail

ASSUME MonitorAssumption ==
    /\ Netns \in [Containers -> Namespaces]
    /\ None \notin Containers
    /\ Ring \in Nat \ {0} /\ Crowd \in Nat
    /\ MayFail \in BOOLEAN

VARIABLES
    valid,       \* keys of valid_netns_map
    counts,      \* keys of conn_count_map
    buffers,     \* keys of buffer_map
    contexts,    \* namespaceToContext: the container whose context n has, or None
    mon,         \* mon[c]: where the Monitor of c is
    dead,        \* containers that have stopped
    cancelled,   \* containers whose context main has cancelled
    loop,        \* the perf loop: its place, the event's namespace, the receiver
    lost,        \* history: gates whose event went nowhere since they closed
    overlapped   \* history: namespaces whose monitor met a predecessor's

maps == <<valid, counts, buffers, contexts>>
procs == <<mon, dead, cancelled, loop>>
history == <<lost, overlapped>>
vars == <<gateVars, maps, procs, history>>

Reading == [at |-> "read", ns |-> None, to |-> None]

Init ==
    /\ GateInit
    /\ valid = {} /\ counts = {} /\ buffers = {}
    /\ contexts = [n \in Namespaces |-> None]
    /\ mon = [c \in Containers |-> "none"]
    /\ dead = {} /\ cancelled = {}
    /\ loop = Reading
    /\ lost = {} /\ overlapped = {}

-----------------------------------------------------------------------------
(* The kernel probe and the containers                                     *)

\* The bound Crowd.
Uncrowded ==
    \/ Cardinality({c \in Containers : mon[c] # "none"}) <= Crowd
    \/ Cardinality({p \in CPUs : ~In(p, "out")}) <= 1

\* A process of container c calls tcp_recvmsg.
Request(p, c) ==
    /\ mon[c] # "none" /\ c \notin dead
    /\ Netns[c] \in valid
    /\ Arrive(p, Netns[c])
    /\ UNCHANGED <<maps, procs, history>>
    /\ Uncrowded'

\* The probe creates the entries that it does not find.
ProbeCounts(p) ==
    /\ Pass(p) \/ TurnBack(p)
    /\ counts' = counts \cup {Ns(p)}
    /\ UNCHANGED <<valid, buffers, contexts, procs, history>>

ProbeJudges(p) ==
    /\ NoTrigger(p) \/ Close(p)
    /\ buffers' = buffers \cup {Ns(p)}
    /\ UNCHANGED <<valid, counts, contexts, procs, history>>

\* An event that finds the ring full is lost, and the gate stays closed.
ProbePosts(p) ==
    LET full == events[Ns(p)] >= Ring IN
      /\ Post(p)
      /\ full <=> UNCHANGED events
      /\ buffers' = buffers \cup {Ns(p)}
      /\ lost' = IF full THEN lost \cup {Ns(p)} ELSE lost
      /\ UNCHANGED <<valid, counts, contexts, procs, overlapped>>

Die(c) ==
    /\ mon[c] # "none" /\ c \notin dead
    /\ dead' = dead \cup {c}
    /\ UNCHANGED <<gateVars, maps, mon, cancelled, loop, history>>

\* main takes the stop event and calls the cancel function.
Cancel(c) ==
    /\ c \in dead \ cancelled
    /\ cancelled' = cancelled \cup {c}
    /\ UNCHANGED <<gateVars, maps, mon, dead, loop, history>>

-----------------------------------------------------------------------------
(* Monitor, addNamespace and removeNamespace                               *)

Ended == {"none", "done", "gaveUp"}
Going(c, from, to) == mon[c] = from /\ mon' = [mon EXCEPT ![c] = to]
Twins(c) == {d \in Containers \ {c} : Netns[d] = Netns[c]}

\* Monitor is called; the namespace number is free.
Monitor(c) ==
    /\ \A d \in Twins(c) : mon[d] = "none" \/ d \in dead
    /\ Going(c, "none", "addCount")
    /\ overlapped' = IF \A d \in Twins(c) : mon[d] \in Ended
                     THEN overlapped \ {Netns[c]}
                     ELSE overlapped \cup {Netns[c]}
    /\ UNCHANGED <<gateVars, maps, dead, cancelled, loop, lost>>
    /\ Uncrowded'

AddCount(c) ==
    /\ Going(c, "addCount", "addValid")
    /\ counts' = counts \cup {Netns[c]}
    /\ UNCHANGED <<gateVars, valid, buffers, contexts, dead, cancelled, loop,
                   history>>

AddValid(c) ==
    /\ Going(c, "addValid", "addScaling")
    /\ valid' = valid \cup {Netns[c]}
    /\ UNCHANGED <<gateVars, counts, buffers, contexts, dead, cancelled, loop,
                   history>>

\* addNamespaceToScalingMap: a new closing has its own event.  A Put that fails
\* is only printed: a closed gate stays closed, and the event that it was closed
\* for is used up.
OpenGate(c) ==
    /\ \/ Open(Netns[c]) /\ lost' = lost \ {Netns[c]}
       \/ /\ MayFail
          /\ lost' = lost \cup ({Netns[c]} \cap scaling)
          /\ UNCHANGED gateVars
    /\ UNCHANGED <<maps, dead, cancelled, loop, overlapped>>

AddScaling(c) == Going(c, "addScaling", "addContext") /\ OpenGate(c)

\* Mutated: an entry that is there already is kept (LoadOrStore).
AddContextOnce(c) ==
    /\ Going(c, "addContext", "select")
    /\ contexts' = IF contexts[Netns[c]] = None
                   THEN [contexts EXCEPT ![Netns[c]] = c] ELSE contexts
    /\ UNCHANGED <<gateVars, valid, counts, buffers, dead, cancelled, loop,
                   history>>

AddContext(c) ==
    /\ Going(c, "addContext", "select")
    /\ contexts' = [contexts EXCEPT ![Netns[c]] = c]
    /\ UNCHANGED <<gateVars, valid, counts, buffers, dead, cancelled, loop,
                   history>>

\* The send of the perf loop and the receive of the monitor's select.
Receive(c) ==
    /\ loop.at = "send" /\ loop.to = c
    /\ Going(c, "select", "scale")
    /\ loop' = Reading
    /\ UNCHANGED <<gateVars, maps, dead, cancelled, history>>

\* Mutated: Monitor returns when the request fails.
ScaleReturnsEnds(c) ==
    /\ \E to \in {"sleep", "done"} : Going(c, "scale", to)
    /\ UNCHANGED <<gateVars, maps, dead, cancelled, loop, history>>

\* ScaleService or SendScaleRequest returns; an error is only logged.
ScaleReturns(c) ==
    /\ Going(c, "scale", "sleep")
    /\ UNCHANGED <<gateVars, maps, dead, cancelled, loop, history>>

\* GetManagerNode fails: Monitor returns and leaves everything as it is, its
\* context too, which nobody cancels.
GiveUp(c) ==
    /\ MayFail
    /\ Going(c, "scale", "gaveUp")
    /\ lost' = lost \cup {Netns[c]}
    /\ UNCHANGED <<gateVars, maps, dead, cancelled, loop, overlapped>>

\* Mutated: the namespace is not added back.
SleepEndsShut(c) ==
    /\ Going(c, "sleep", "select")
    /\ UNCHANGED <<gateVars, maps, dead, cancelled, loop, history>>

SleepEnds(c) == Going(c, "sleep", "select") /\ OpenGate(c)

Stop(c) ==
    /\ c \in cancelled
    /\ Going(c, "select", "delCount")
    /\ UNCHANGED <<gateVars, maps, dead, cancelled, loop, history>>

\* removeNamespace returns at the first map that has no entry.
Remove(c, keys, from, to) ==
    Going(c, from, IF Netns[c] \in keys THEN to ELSE "done")

DelCount(c) ==
    /\ Remove(c, counts, "delCount", "delBuffer")
    /\ counts' = counts \ {Netns[c]}
    /\ UNCHANGED <<gateVars, valid, buffers, contexts, dead, cancelled, loop,
                   history>>

DelBuffer(c) ==
    /\ Remove(c, buffers, "delBuffer", "delValid")
    /\ buffers' = buffers \ {Netns[c]}
    /\ UNCHANGED <<gateVars, valid, counts, contexts, dead, cancelled, loop,
                   history>>

DelValid(c) ==
    /\ Remove(c, valid, "delValid", "delContext")
    /\ valid' = valid \ {Netns[c]}
    /\ UNCHANGED <<gateVars, counts, buffers, contexts, dead, cancelled, loop,
                   history>>

DelContext(c) ==
    /\ Going(c, "delContext", "done")
    /\ contexts' = [contexts EXCEPT ![Netns[c]] = None]
    /\ UNCHANGED <<gateVars, valid, counts, buffers, dead, cancelled, loop,
                   history>>

-----------------------------------------------------------------------------
(* listenForEvents                                                         *)

Read(n) ==
    /\ loop.at = "read"
    /\ Take(n)
    /\ loop' = [at |-> "load", ns |-> n, to |-> None]
    /\ UNCHANGED <<maps, mon, dead, cancelled, history>>

\* Mutated: the result of the lookup is not tested.
LoadUnchecked ==
    /\ loop.at = "load"
    /\ contexts[loop.ns] \notin cancelled
    /\ loop' = [loop EXCEPT !.at = "send", !.to = contexts[loop.ns]]
    /\ UNCHANGED <<gateVars, maps, mon, dead, cancelled, history>>

\* The lookup in namespaceToContext and the select with a default, which tests
\* the context once, before the send.
Load ==
    /\ loop.at = "load"
    /\ LET c == contexts[loop.ns] IN
         IF c = None \/ c \in cancelled
         THEN loop' = Reading /\ lost' = lost \cup {loop.ns}
         ELSE loop' = [loop EXCEPT !.at = "send", !.to = c] /\ UNCHANGED lost
    /\ UNCHANGED <<gateVars, maps, mon, dead, cancelled, overlapped>>

-----------------------------------------------------------------------------
ProbeStep(p) == ProbeCounts(p) \/ ProbeJudges(p) \/ ProbePosts(p)

MonitorStep(c) ==
    \/ AddCount(c) \/ AddValid(c) \/ AddScaling(c) \/ AddContext(c)
    \/ SleepEnds(c) \/ Stop(c)
    \/ DelCount(c) \/ DelBuffer(c) \/ DelValid(c) \/ DelContext(c)

\* What becomes of the request to scale that a monitor makes.
RequestStep(c) == ScaleReturns(c) \/ GiveUp(c)

Next ==
    \/ \E p \in CPUs : ProbeStep(p) \/ \E c \in Containers : Request(p, c)
    \/ \E c \in Containers : Monitor(c) \/ Die(c) \/ Cancel(c)
    \/ \E c \in Containers : MonitorStep(c) \/ RequestStep(c) \/ Receive(c)
    \/ Load
    \/ \E n \in Namespaces : Read(n)

Spec == Init /\ [][Next]_vars

\* CPUs and goroutines that can run do run; the perf reader serves every ring that
\* has an event.  A request to scale need not return: on the manager it may wait
\* for ever to send on keepAliveCh.
Fairness ==
    /\ \A p \in CPUs : WF_vars(ProbeStep(p))
    /\ \A c \in Containers : WF_vars(MonitorStep(c)) /\ WF_vars(Receive(c))
    /\ WF_vars(Load)
    /\ \A n \in Namespaces : SF_vars(Read(n))

FairSpec == Spec /\ Fairness

\* The same, and every request to scale returns.
PromptSpec == FairSpec /\ \A c \in Containers : WF_vars(RequestStep(c))

-----------------------------------------------------------------------------
(* Properties                                                              *)

\* Type correctness of the maps and goroutines.  The perf loop has a receiver
\* whenever it sends, and only contexts of stopped containers are cancelled.
TypeOK ==
    /\ GateTypeOK
    /\ \A n \in Namespaces : events[n] <= Ring
    /\ UNION {valid, counts, buffers, lost, overlapped} \subseteq Namespaces
    /\ contexts \in [Namespaces -> Containers \cup {None}]
    /\ mon \in [Containers -> Ended \cup
                  {"addCount", "addValid", "addScaling", "addContext", "select",
                   "scale", "sleep", "delCount", "delBuffer", "delValid",
                   "delContext"}]
    /\ cancelled \subseteq dead /\ dead \subseteq Containers
    /\ loop \in [at : {"load"}, ns : Namespaces, to : {None}] \cup
                [at : {"send"}, ns : Namespaces, to : Containers] \cup
                {Reading}

\* A closed gate is never forgotten: somewhere between the CPU that closed it
\* and the monitor that will open it there is an event or a monitor about to
\* open it, unless the event went nowhere (it is in `lost`).  A gate without an
\* owner would end the scaling of its container in silence.
ClosedGateHasOwner ==
    \A n \in scaling \ lost :
        \/ \E p \in CPUs : In(p, "post") /\ Ns(p) = n
        \/ events[n] > 0
        \/ loop.ns = n
        \/ \E c \in Containers :
              /\ Netns[c] = n
              /\ mon[c] \in {"addCount", "addValid", "addScaling", "scale",
                             "sleep"}

\* A container that is being monitored stays registered: its namespace is
\* valid for the probe and its events reach its own monitor, although a
\* predecessor with the same namespace number may have returned early from
\* removeNamespace or may have given up.  Only a predecessor whose removal is
\* still under way can take the registration away (`overlapped`).
MonitorStaysRegistered ==
    \A c \in Containers :
        (mon[c] \in {"select", "scale", "sleep"} /\ Netns[c] \notin overlapped)
            => Netns[c] \in valid /\ contexts[Netns[c]] = c

\* The receiver of the perf loop has left its select for good.
Stuck == loop.at = "send" /\
         (loop.to \in cancelled \/ mon[loop.to] = "gaveUp")

\* The perf loop serves every namespace and must not wait for one monitor: the
\* receiver of a pending send is in its select or on its way back to it, unless
\* it was cancelled after the loop had tested its context, or has given up
\* without cancelling its context.
SendHasReceiver ==
    loop.at = "send" => mon[loop.to] \in {"select", "scale", "sleep"} \/ Stuck

\* A request to scale has not returned to the monitor of n, or to the monitor that
\* the perf loop is waiting for.
Held(n) ==
    \E c \in Containers :
        mon[c] = "scale" /\ (Netns[c] = n \/ (loop.at = "send" /\ loop.to = c))

\* A closed gate is opened again, and the container can scale again, unless the
\* event went nowhere, opening failed, the perf loop is stuck, or a request that
\* the gate depends on never returns.
ClosedGateReopens ==
    \A n \in Namespaces :
        (n \in scaling) ~> (n \notin scaling \/ n \in lost \/ Stuck \/ []Held(n))

\* As the comment at the end of Monitor has it, the namespace is added back to
\* the BPF program after a scaling: the gate of a container that runs does not
\* stay closed.
GateIsAddedBack ==
    \A c \in Containers :
        (mon[c] = "select" /\ Netns[c] \in scaling)
            ~> (Netns[c] \notin scaling \/ c \in dead)
=============================================================================
