---------------------------- MODULE ConcReqProbe ----------------------------
(***************************************************************************)
(* The kernel probe on tcp_recvmsg (conc_req_monitoring.c): it counts the  *)
(* requests of a namespace, counts how many samples in a row were out of   *)
(* range, and triggers a scaling when there were BufferLength of them.     *)
(*                                                                         *)
(* CPUs run the probe concurrently and no map is locked, so a step of the  *)
(* model is one access to a map: a helper's call, a load or a store.  How  *)
(* often *count and *buffer are loaded is what the committed objects do    *)
(* (bpf_bpfel.o): *count once, for the test, the new value and new_value.  *)
(*                                                                         *)
(* bpf_map_lookup_elem returns a pointer to the element: writing through   *)
(* it does not go through the map.  Updating an existing key of a          *)
(* preallocated hash map does not write its element: it fills the CPU's    *)
(* spare element, puts that in the table, and keeps the old one as the new *)
(* spare, so pointers obtained earlier go stale.  Elements are tracked for *)
(* buffer_map; of a stale pointer into conn_count_map it is only known     *)
(* that it may point to anything.                                          *)
(*                                                                         *)
(* The Go process is the environment: its calls on the maps come at any    *)
(* time (ConcReqMonitor says when).                                        *)
(***************************************************************************)
EXTENDS Integers, FiniteSets, Functions

CONSTANTS
    CPUs,          \* CPUs that run the probe
    Namespaces,    \* network namespaces
    Elements,      \* elements of buffer_map: one per key and a spare per CPU
    None,          \* no namespace, no element, the local variable `initial`
    LowerLimit,    \* the three values of constants_map
    UpperLimit,
    BufferLength,
    Width,         \* bits of a count: 32 in the code
    MaxCount,      \* bound: requests are counted up to this number
    MaxBuffer,     \* bound: samples out of range are counted up to this number
    Ring           \* events of a namespace that fit in the perf ring

ASSUME ProbeAssumption ==
    /\ None \notin Namespaces \cup Elements
    /\ IsFiniteSet(Elements)
    /\ Cardinality(Elements) >= Cardinality(Namespaces) + Cardinality(CPUs)
    /\ BufferLength \in Nat \ {0}
    /\ {LowerLimit, UpperLimit, Width, MaxCount, MaxBuffer, Ring} \subseteq Nat
    /\ 2^Width \in Nat
    /\ MaxCount < 2^Width - 1

VARIABLES
    valid,    \* valid_netns_map: the namespaces that are monitored
    counts,   \* conn_count_map, -1 where there is no entry
    scaling,  \* scaling_map: the namespaces whose entry is 1
    live,     \* live[n]: the element of buffer_map for n, or None
    spare,    \* spare[c]: the spare element of CPU c
    val,      \* val[e]: what element e holds
    cpu,      \* cpu[c]: CPU c's place in the probe and its local variables
    events,   \* events[n]: perf events for n that have not been read
    streak,   \* history: samples out of range in a row, -1 (unknown) after a race
    alone     \* history: CPUs that nobody met during their present visit

maps == <<valid, counts, scaling>>
buffers == <<live, spare, val>>
history == <<streak, alone>>
vars == <<valid, counts, scaling, live, spare, val, cpu, events,
          streak, alone>>

Places == {"count", "insertCount", "loadCount", "store", "gate", "lookup", "insert", "load", "write",
           "update", "compare", "close", "post", "reset"}

\* What count points to: the entry of the map, an element that has left it,
\* the local variable zero32.
Targets == {"entry", "stale", "local"}
Idle == [at |-> "out", ns |-> None, count |-> "local", new |-> 0,
         ptr |-> None, buf |-> 0]

Init ==
    /\ valid = {} /\ scaling = {}
    /\ counts = [n \in Namespaces |-> -1]
    /\ live = [n \in Namespaces |-> None]
    /\ spare \in Injection(CPUs, Elements)
    /\ val = [e \in Elements |-> 0]
    /\ cpu = [c \in CPUs |-> Idle]
    /\ events = [n \in Namespaces |-> 0]
    /\ streak = [n \in Namespaces |-> 0]
    /\ alone = {}

-----------------------------------------------------------------------------
In(c, at) == cpu[c].at = at
Ns(c) == cpu[c].ns
Inside(n) == {c \in CPUs : Ns(c) = n}
MoveTo(c, at) == cpu' = [cpu EXCEPT ![c].at = at]
OutOfRange(v) == v <= LowerLimit \/ v >= UpperLimit

\* *buffer: an element of the map or the local variable `initial`.
Deref(c) == IF cpu[c].ptr = None THEN cpu[c].buf ELSE val[cpu[c].ptr]

Spares == Elements \ (Range(live) \cup Range(spare))

\* bpf_map_update_elem for a key that is not in buffer_map, and for any key.
InsertElem(n, v) ==
    \E e \in Spares :
        /\ live' = [live EXCEPT ![n] = e]
        /\ val' = [val EXCEPT ![e] = v]
        /\ UNCHANGED spare

UpdateElem(c, n, v) ==
    IF live[n] = None
    THEN InsertElem(n, v)
    ELSE /\ live' = [live EXCEPT ![n] = spare[c]]
         /\ spare' = [spare EXCEPT ![c] = live[n]]
         /\ val' = [val EXCEPT ![spare[c]] = v]

\* A visit that met nobody and left the buffer at zero makes it exact again.
Exit(c, zeroed) ==
    /\ cpu' = [cpu EXCEPT ![c] = Idle]
    /\ alone' = alone \ {c}
    /\ streak' = IF zeroed /\ c \in alone THEN [streak EXCEPT ![Ns(c)] = 0]
                                          ELSE streak

\* The CPUs that are in the probe for n have met one more.
Meet(n) ==
    /\ alone' = alone \ Inside(n)
    /\ streak' = [streak EXCEPT ![n] = -1]

\* Lines up to the lookup in valid_netns_map.  The constants are there: they
\* are put before a namespace becomes valid.
Arrive(c, n) ==
    /\ In(c, "out")
    /\ n \in valid
    /\ cpu' = [cpu EXCEPT ![c] = [Idle EXCEPT !.at = "count", !.ns = n]]
    /\ IF Inside(n) = {} THEN alone' = alone \cup {c} /\ UNCHANGED streak
                         ELSE Meet(n)
    /\ UNCHANGED <<maps, buffers, events>>

LookupCount(c) ==
    /\ In(c, "count")
    /\ cpu' = [cpu EXCEPT
                 ![c].at = IF counts[Ns(c)] = -1 THEN "insertCount"
                                                 ELSE "loadCount",
                 ![c].count = IF counts[Ns(c)] = -1 THEN "local" ELSE "entry"]
    /\ UNCHANGED <<maps, buffers, events, history>>

\* BPF_NOEXIST; count then points to zero32, which is loaded as 0.
InsertCount(c) ==
    /\ In(c, "insertCount")
    /\ counts' = [counts EXCEPT ![Ns(c)] = IF @ = -1 THEN 0 ELSE @]
    /\ MoveTo(c, "store")
    /\ UNCHANGED <<valid, scaling, buffers, events, history>>

\* The one load of *count.  An element that has left the map keeps its value
\* or has been taken for another entry: any count may be read from it.
LoadCount(c) ==
    /\ In(c, "loadCount")
    /\ \E v \in IF cpu[c].count = "entry" THEN {counts[Ns(c)]} ELSE 0..MaxCount :
         cpu' = [cpu EXCEPT ![c].at = "store", ![c].new = v]
    /\ UNCHANGED <<maps, buffers, events, history>>

\* Mutated: the count goes down without a test for zero.
CountedUnchecked(v, established) ==
    (IF established THEN v + 1 ELSE v - 1) % 2^Width

\* TCP_ESTABLISHED counts up; every other state counts down, for the third
\* operand of the condition is the constant TCP_LAST_ACK and always true.
Counted(v, established) ==
    IF established THEN (v + 1) % 2^Width ELSE IF v > 0 THEN v - 1 ELSE 0

\* What the store of v may do to the map: an element that has left it may be
\* the element of an entry made since, in any namespace.
CountsAfter(c, v) ==
    CASE cpu[c].count = "local" -> {counts}
      [] cpu[c].count = "entry" -> {[counts EXCEPT ![Ns(c)] = v]}
      [] cpu[c].count = "stale" ->
           {counts} \cup {[counts EXCEPT ![n] = v] :
                            n \in {m \in Namespaces : counts[m] # -1}}

\* A count of zero that is not counted up is not written.
StoreCount(c) ==
    /\ In(c, "store")
    /\ \E established \in BOOLEAN :
         LET v == Counted(cpu[c].new, established) IN
           /\ established => v <= MaxCount
           /\ counts' \in IF v = cpu[c].new THEN {counts} ELSE CountsAfter(c, v)
           /\ cpu' = [cpu EXCEPT ![c].at = "gate", ![c].new = v,
                                 ![c].count = "local"]
    /\ UNCHANGED <<valid, scaling, buffers, events, history>>

\* Mutated: the gate is not looked at.
CheckGateSkipped(c) ==
    /\ In(c, "gate")
    /\ MoveTo(c, "lookup")
    /\ UNCHANGED <<maps, buffers, events, history>>

\* The lookup and the load of *scaling, in one step: nobody writes through a
\* pointer into scaling_map, so the load finds what the lookup found.  (That
\* the element is replaced and filled again in between is left out.)
CheckGate(c) ==
    /\ In(c, "gate")
    /\ IF Ns(c) \in scaling
       THEN Exit(c, FALSE)
       ELSE MoveTo(c, "lookup") /\ UNCHANGED history
    /\ UNCHANGED <<maps, buffers, events>>

LookupBuffer(c) ==
    /\ In(c, "lookup")
    /\ cpu' = [cpu EXCEPT ![c].ptr = live[Ns(c)],
                          ![c].at = IF live[Ns(c)] = None THEN "insert"
                                                          ELSE "load"]
    /\ UNCHANGED <<maps, buffers, events, history>>

\* BPF_NOEXIST: an entry that another CPU has made meanwhile is left alone.
InsertBuffer(c) ==
    /\ In(c, "insert")
    /\ IF live[Ns(c)] = None THEN InsertElem(Ns(c), 0) ELSE UNCHANGED buffers
    /\ MoveTo(c, "load")
    /\ UNCHANGED <<maps, events, history>>

\* (*buffer)++ loads *buffer; *buffer = 0 does not.
LoadBuffer(c) ==
    /\ In(c, "load")
    /\ cpu' = [cpu EXCEPT ![c].at = "write",
                          ![c].buf = IF OutOfRange(cpu[c].new) THEN Deref(c)
                                                               ELSE 0]
    /\ UNCHANGED <<maps, buffers, events, history>>

\* Mutated: a sample in range leaves the buffer as it is.
JudgedKeeps(c) == IF OutOfRange(cpu[c].new) THEN cpu[c].buf + 1 ELSE Deref(c)

\* What is written: (*buffer)++ or *buffer = 0.
Judged(c) == IF OutOfRange(cpu[c].new) THEN cpu[c].buf + 1 ELSE 0

\* The pointer may be stale, and the element in use for another namespace by
\* now: the write is then interference there, from a CPU that is not inside.
Hit(c) ==
    {n \in Namespaces \ {Ns(c)} :
        /\ cpu[c].ptr # None
        /\ cpu[c].ptr \in {live[n]} \cup {cpu[d].ptr : d \in Inside(n)}}

WriteBuffer(c) ==
    /\ In(c, "write")
    /\ LET b == Judged(c) IN
         /\ b <= MaxBuffer
         /\ IF cpu[c].ptr = None
            THEN /\ cpu' = [cpu EXCEPT ![c].at = "update", ![c].buf = b]
                 /\ UNCHANGED val
            ELSE /\ cpu' = [cpu EXCEPT ![c].at = "update", ![c].buf = 0]
                 /\ val' = [val EXCEPT ![cpu[c].ptr] = b]
    /\ streak' = [n \in Namespaces |->
                    IF streak[n] = -1 \/ n \in Hit(c) THEN -1
                    ELSE IF n # Ns(c) THEN streak[n]
                    ELSE IF OutOfRange(cpu[c].new) THEN streak[n] + 1 ELSE 0]
    /\ alone' = {d \in alone : Ns(d) \notin Hit(c)}
    /\ UNCHANGED <<maps, live, spare, events>>

UpdateBuffer(c) ==
    /\ In(c, "update")
    /\ UpdateElem(c, Ns(c), Deref(c))
    /\ MoveTo(c, "compare")
    /\ UNCHANGED <<maps, events, history>>

Compare(c) ==
    /\ In(c, "compare")
    /\ IF Deref(c) = BufferLength
       THEN /\ cpu' = [cpu EXCEPT ![c].at = "close", ![c].ptr = None,
                                  ![c].buf = 0]
            /\ UNCHANGED history
       ELSE Exit(c, Deref(c) = 0)
    /\ UNCHANGED <<maps, buffers, events>>

Close(c) ==
    /\ In(c, "close")
    /\ scaling' = scaling \cup {Ns(c)}
    /\ MoveTo(c, "post")
    /\ UNCHANGED <<valid, counts, buffers, events, history>>

\* bpf_perf_event_output; an event that does not fit in the ring is lost.
Post(c) ==
    /\ In(c, "post")
    /\ events' = [events EXCEPT ![Ns(c)] = IF @ < Ring THEN @ + 1 ELSE @]
    /\ MoveTo(c, "reset")
    /\ UNCHANGED <<maps, buffers, history>>

\* Mutated: the buffer is not reset after a trigger.
ResetSkipped(c) ==
    /\ In(c, "reset")
    /\ Exit(c, TRUE)
    /\ UNCHANGED <<maps, buffers, events>>

Reset(c) ==
    /\ In(c, "reset")
    /\ UpdateElem(c, Ns(c), 0)
    /\ Exit(c, TRUE)
    /\ UNCHANGED <<maps, events>>

ProbeStep(c) ==
    \/ \E n \in Namespaces : Arrive(c, n)
    \/ LookupCount(c) \/ InsertCount(c) \/ LoadCount(c) \/ StoreCount(c)
    \/ CheckGate(c)
    \/ LookupBuffer(c) \/ InsertBuffer(c) \/ LoadBuffer(c)
    \/ WriteBuffer(c) \/ UpdateBuffer(c) \/ Compare(c)
    \/ Close(c) \/ Post(c) \/ Reset(c)

-----------------------------------------------------------------------------
(* The Go process: addNamespace, removeNamespace, addNamespaceToScalingMap *)
(* and PerfReader.Read.                                                    *)

\* Put and Delete leave every pointer to the entry stale.
StaleCount(n) ==
    cpu' = [c \in CPUs |-> IF Ns(c) = n /\ cpu[c].count = "entry"
                           THEN [cpu[c] EXCEPT !.count = "stale"]
                           ELSE cpu[c]]

PutCount(n) ==
    /\ counts' = [counts EXCEPT ![n] = 0]
    /\ StaleCount(n)
    /\ UNCHANGED <<valid, scaling, buffers, events, history>>

RemoveCount(n) ==
    /\ counts' = [counts EXCEPT ![n] = -1]
    /\ StaleCount(n)
    /\ UNCHANGED <<valid, scaling, buffers, events, history>>

RemoveBuffer(n) ==
    /\ live' = [live EXCEPT ![n] = None]
    /\ IF Inside(n) = {}
       THEN streak' = [streak EXCEPT ![n] = 0] /\ UNCHANGED alone
       ELSE Meet(n)
    /\ UNCHANGED <<maps, spare, val, cpu, events>>

SetValid(n) ==
    /\ valid' \in {valid \cup {n}, valid \ {n}}
    /\ UNCHANGED <<counts, scaling, buffers, cpu, events, history>>

Open(n) ==
    /\ scaling' = scaling \ {n}
    /\ UNCHANGED <<valid, counts, buffers, cpu, events, history>>

Take(n) ==
    /\ events[n] > 0
    /\ events' = [events EXCEPT ![n] = @ - 1]
    /\ UNCHANGED <<maps, buffers, cpu, history>>

GoStep(n) ==
    \/ PutCount(n) \/ RemoveCount(n) \/ RemoveBuffer(n)
    \/ SetValid(n) \/ Open(n) \/ Take(n)

Next ==
    \/ \E c \in CPUs : ProbeStep(c)
    \/ \E n \in Namespaces : GoStep(n)

Spec == Init /\ [][Next]_vars

-----------------------------------------------------------------------------
(* Properties                                                              *)

CpuState ==
    {Idle} \cup [at : Places, ns : Namespaces, count : Targets,
                 new : 0..MaxCount, ptr : Elements \cup {None},
                 buf : 0..MaxBuffer]

\* Type correctness.  It says that the count never wraps below zero, however
\* the unlocked read-modify-write of two CPUs and the Go process's Put and
\* Delete overlap, a store through a pointer that went stale included, and that an element is never both a CPU's spare and in the table, nor in
\* the table twice.
TypeOK ==
    /\ valid \subseteq Namespaces /\ scaling \subseteq Namespaces
    /\ counts \in [Namespaces -> -1..MaxCount]
    /\ live \in [Namespaces -> Elements \cup {None}]
    /\ spare \in [CPUs -> Elements]
    /\ val \in [Elements -> 0..MaxBuffer]
    /\ cpu \in [CPUs -> CpuState]
    /\ events \in [Namespaces -> 0..Ring]
    /\ streak \in [Namespaces -> -1..BufferLength]
    /\ alone \subseteq CPUs
    /\ \A m, n \in Namespaces : live[m] = live[n] /\ live[m] # None => m = n
    /\ IsInjective(spare)
    /\ Range(live) \cap Range(spare) = {}

\* A CPU that triggers a scaling has seen exactly BufferLength samples out of
\* range in a row, its own among them, and not one more: the reading of the
\* buffer through an element that the update has just taken out of the table
\* is right unless another CPU or removeNamespace interfered.
JustifiedTrigger ==
    \A c \in CPUs :
        (cpu[c].at \in {"close", "post"} /\ streak[Ns(c)] # -1)
            => /\ streak[Ns(c)] = BufferLength
               /\ OutOfRange(cpu[c].new)

\* Between visits the buffer holds the length of the streak and is below its
\* limit, so the test for equality cannot miss it.  After a race the buffer may
\* have jumped over the limit, and one sample in range that meets nobody (or
\* one trigger that meets nobody) is enough to make it exact again.
BufferIsStreak ==
    \A n \in Namespaces :
        (streak[n] # -1 /\ Inside(n) = {}) =>
            /\ streak[n] = IF live[n] = None THEN 0 ELSE val[live[n]]
            /\ streak[n] < BufferLength

\* The probe implements ScalingGate: however CPUs interleave, an event is
\* posted only by a CPU that found the gate open and has closed it.
GatePlace(at) ==
    CASE at \in {"count", "insertCount", "loadCount", "store",
                 "gate"} -> "checked"
      [] at \in {"lookup", "insert", "load", "write", "update", "compare",
                 "close"} -> "past"
      [] at = "post" -> "post"
      [] at \in {"reset", "out"} -> "out"

Gate == INSTANCE ScalingGate WITH
    probe <- [c \in CPUs |->
                [at |-> GatePlace(cpu[c].at),
                 ns |-> IF GatePlace(cpu[c].at) = "out" THEN None ELSE Ns(c)]]

ImplementsGate == Gate!GateSpec
=============================================================================
