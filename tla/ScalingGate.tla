----------------------------- MODULE ScalingGate -----------------------------
(***************************************************************************)
(* What the concurrent-request probe of the kernel promises to the Go      *)
(* process: per namespace, the entry of scaling_map is a gate.  A CPU that *)
(* finds it open may close it and then posts one perf event; only the Go   *)
(* process opens it again.  A CPU that has passed the gate is not stopped  *)
(* by another one that closes it meanwhile, so each CPU may post an event. *)
(* Why a CPU triggers, the counting of requests, is left to ConcReqProbe.  *)
(***************************************************************************)
EXTENDS Naturals

CONSTANTS
    CPUs,        \* CPUs that run the probe; one runs it at most once at a time
    Namespaces,  \* network namespaces
    None         \* no namespace

ASSUME GateAssumption == None \notin Namespaces

VARIABLES
    scaling,  \* namespaces whose entry in scaling_map is 1: the closed gates
    probe,    \* probe[c]: how far CPU c has come, and for which namespace
    events    \* events[n]: perf events for n that have not been read

gateVars == <<scaling, probe, events>>

\* "checked": the namespace was found in valid_netns_map; "past": the gate was
\* found open; "post": the gate was closed and an event is about to be posted.
ProbeState == [at : {"checked", "past", "post"}, ns : Namespaces]
              \cup {[at |-> "out", ns |-> None]}

Outside == [at |-> "out", ns |-> None]
In(c, at) == probe[c].at = at
Ns(c) == probe[c].ns
MoveTo(c, at) == probe' = [probe EXCEPT ![c].at = at]
Exit(c) == probe' = [probe EXCEPT ![c] = Outside]

GateTypeOK ==
    /\ scaling \subseteq Namespaces
    /\ probe \in [CPUs -> ProbeState]
    /\ events \in [Namespaces -> Nat]

GateInit ==
    /\ scaling = {}
    /\ probe = [c \in CPUs |-> Outside]
    /\ events = [n \in Namespaces |-> 0]

Arrive(c, n) ==
    /\ In(c, "out")
    /\ probe' = [probe EXCEPT ![c] = [at |-> "checked", ns |-> n]]
    /\ UNCHANGED <<scaling, events>>

Pass(c) ==
    /\ In(c, "checked")
    /\ Ns(c) \notin scaling
    /\ MoveTo(c, "past")
    /\ UNCHANGED <<scaling, events>>

TurnBack(c) ==
    /\ In(c, "checked")
    /\ Ns(c) \in scaling
    /\ Exit(c)
    /\ UNCHANGED <<scaling, events>>

NoTrigger(c) ==
    /\ In(c, "past")
    /\ Exit(c)
    /\ UNCHANGED <<scaling, events>>

Close(c) ==
    /\ In(c, "past")
    /\ scaling' = scaling \cup {Ns(c)}
    /\ MoveTo(c, "post")
    /\ UNCHANGED events

\* An event that does not fit in the CPU's ring is lost.
Post(c) ==
    /\ In(c, "post")
    /\ events' \in {[events EXCEPT ![Ns(c)] = @ + 1], events}
    /\ Exit(c)
    /\ UNCHANGED scaling

\* The Go process: addNamespaceToScalingMap, and PerfReader.Read.
Open(n) ==
    /\ scaling' = scaling \ {n}
    /\ UNCHANGED <<probe, events>>

Take(n) ==
    /\ events[n] > 0
    /\ events' = [events EXCEPT ![n] = @ - 1]
    /\ UNCHANGED <<scaling, probe>>

CpuStep(c) == Pass(c) \/ TurnBack(c) \/ NoTrigger(c) \/ Close(c) \/ Post(c)

GateNext ==
    \/ \E c \in CPUs : CpuStep(c) \/ \E n \in Namespaces : Arrive(c, n)
    \/ \E n \in Namespaces : Open(n) \/ Take(n)

GateSpec == GateInit /\ [][GateNext]_gateVars
=============================================================================
