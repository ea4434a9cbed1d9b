------------------------ MODULE ConcReqMonitorProofs ------------------------
(***************************************************************************)
(* Theorems about ConcReqMonitor, for every number of containers, CPUs and *)
(* namespaces and for every way namespace numbers are given out again.     *)
(***************************************************************************)
EXTENDS ConcReqMonitor, TLAPS

(***************************************************************************)
(* The inductive invariant.                                                *)
(***************************************************************************)
Serving == {"select", "scale", "sleep"}

\* An entry of namespaceToContext is keyed by its container's own namespace,
\* and its monitor is running, has given up, or was cancelled.
ContextsFit ==
    \A n \in Namespaces, c \in Containers :
        contexts[n] = c => /\ Netns[c] = n
                           /\ c \in cancelled \/ mon[c] \in Serving \cup {"gaveUp"}

\* The perf loop sends an event to a monitor of the event's namespace.
LoopFits == loop.at = "send" => Netns[loop.to] = loop.ns

\* Without an overlap a namespace has one monitor that has begun and not ended.
OneMonitor ==
    \A c, d \in Containers :
        c # d /\ Netns[c] = Netns[d] /\ Netns[c] \notin overlapped
            => mon[c] \in Ended \/ mon[d] \in Ended

\* MonitorStaysRegistered holds step by step, from addNamespace on.
Registration ==
    \A c \in Containers :
        Netns[c] \notin overlapped =>
            /\ mon[c] \in {"addScaling", "addContext"} \cup Serving
                  => Netns[c] \in valid
            /\ mon[c] \in Serving => contexts[Netns[c]] = c

IInv ==
    /\ TypeOK
    /\ ContextsFit
    /\ LoopFits
    /\ SendHasReceiver
    /\ ClosedGateHasOwner
    /\ OneMonitor
    /\ Registration

(***************************************************************************)
(* Type correctness.                                                       *)
(***************************************************************************)
\* A CPU inside the probe has a namespace, and moving it keeps its type.
LEMMA ProbeMoves ==
    ASSUME TypeOK, NEW p \in CPUs, ~In(p, "out")
    PROVE  /\ Ns(p) \in Namespaces
           /\ \A at \in {"checked", "past", "post"} :
                 MoveTo(p, at) => probe' \in [CPUs -> ProbeState]
           /\ Exit(p) => probe' \in [CPUs -> ProbeState]
<1>1. probe[p] \in [at : {"checked", "past", "post"}, ns : Namespaces]
    BY DEF TypeOK, GateTypeOK, ProbeState, In
<1>2. ASSUME NEW at \in {"checked", "past", "post"}
      PROVE  [probe[p] EXCEPT !.at = at] \in ProbeState
    BY <1>1 DEF ProbeState
<1> QED
    BY <1>1, <1>2 DEF TypeOK, GateTypeOK, MoveTo, Exit, Outside, Ns, ProbeState

\* The monitor of c goes to a place that is one of its own.
LEMMA GoingTyped ==
    ASSUME TypeOK, NEW c \in Containers, NEW from,
           NEW to \in Ended \cup {"addCount", "addValid", "addScaling", "addContext",
                        "select", "scale", "sleep", "delCount", "delBuffer",
                        "delValid", "delContext"},
           Going(c, from, to)
    PROVE  mon' \in [Containers -> Ended \cup
                  {"addCount", "addValid", "addScaling", "addContext", "select",
                   "scale", "sleep", "delCount", "delBuffer", "delValid",
                   "delContext"}]
BY DEF TypeOK, Going

LEMMA InitTypeOK == Init => TypeOK
BY MonitorAssumption, GateAssumption
   DEF Init, GateInit, TypeOK, GateTypeOK, ProbeState, Outside, Reading, Ended

\* A step of the probe, the containers or main keeps the types.
LEMMA KernelTypeOK ==
    ASSUME TypeOK, NEW p \in CPUs,
           ProbeStep(p) \/ \E c \in Containers : Request(p, c)
    PROVE  TypeOK'
<1> USE MonitorAssumption
<1>1. ASSUME NEW c \in Containers, Request(p, c) PROVE TypeOK'
  <2>1. [at |-> "checked", ns |-> Netns[c]] \in ProbeState
      BY DEF ProbeState
  <2> QED
      BY <1>1, <2>1 DEF Request, Arrive, TypeOK, GateTypeOK, maps, procs, history
<1>2. CASE ProbeCounts(p)
    BY <1>2, ProbeMoves
       DEF ProbeCounts, Pass, TurnBack, In, TypeOK, GateTypeOK, procs, history
<1>3. CASE ProbeJudges(p)
  <2>1. ~In(p, "out") /\ probe' \in [CPUs -> ProbeState] /\ Ns(p) \in Namespaces
      BY <1>3, ProbeMoves DEF ProbeJudges, NoTrigger, Close, In
  <2> QED
      BY <1>3, <2>1
         DEF ProbeJudges, NoTrigger, Close, TypeOK, GateTypeOK, procs, history
<1>4. CASE ProbePosts(p)
  <2>1. ~In(p, "out") /\ probe' \in [CPUs -> ProbeState] /\ Ns(p) \in Namespaces
      BY <1>4, ProbeMoves DEF ProbePosts, Post, In
  <2>2. events' \in [Namespaces -> Nat] /\ \A n \in Namespaces : events'[n] <= Ring
      BY <1>4, <2>1 DEF ProbePosts, Post, TypeOK, GateTypeOK
  <2> QED
      BY <1>4, <2>1, <2>2 DEF ProbePosts, Post, TypeOK, GateTypeOK, procs
<1> QED
    BY <1>1, <1>2, <1>3, <1>4 DEF ProbeStep

\* A step of a monitor keeps the types.
LEMMA MonitorTypeOK ==
    ASSUME TypeOK, NEW c \in Containers,
           Monitor(c) \/ Die(c) \/ Cancel(c) \/ MonitorStep(c) \/ RequestStep(c) \/ Receive(c)
    PROVE  TypeOK'
<1> USE MonitorAssumption
<1>n. Netns[c] \in Namespaces
    OBVIOUS
<1>1. CASE Monitor(c)
    BY <1>1, <1>n, GoingTyped DEF Monitor, TypeOK, GateTypeOK, gateVars, maps
<1>2. CASE Die(c) \/ Cancel(c)
    BY <1>2 DEF Die, Cancel, TypeOK, GateTypeOK, gateVars, maps, history
<1>3. CASE AddCount(c) \/ AddValid(c) \/ AddContext(c)
    BY <1>3, <1>n, GoingTyped
       DEF AddCount, AddValid, AddContext, TypeOK, GateTypeOK, gateVars, history
<1>4. CASE AddScaling(c) \/ SleepEnds(c)
    BY <1>4, <1>n, GoingTyped
       DEF AddScaling, SleepEnds, OpenGate, Open, TypeOK, GateTypeOK, gateVars, maps
<1>5. CASE ScaleReturns(c) \/ GiveUp(c) \/ Stop(c)
    BY <1>5, <1>n, GoingTyped
       DEF ScaleReturns, GiveUp, Stop, TypeOK, GateTypeOK, gateVars, maps, history,
           Ended
<1>6. CASE DelCount(c) \/ DelBuffer(c) \/ DelValid(c) \/ DelContext(c)
    BY <1>6, <1>n, GoingTyped
       DEF DelCount, DelBuffer, DelValid, DelContext, Remove, TypeOK, GateTypeOK,
           gateVars, history, Ended
<1>7. CASE Receive(c)
    BY <1>7, GoingTyped
       DEF Receive, TypeOK, GateTypeOK, gateVars, maps, history
<1> QED
    BY <1>1, <1>2, <1>3, <1>4, <1>5, <1>6, <1>7 DEF MonitorStep, RequestStep

\* A step of the perf loop keeps the types.
LEMMA LoopTypeOK ==
    ASSUME TypeOK, Load \/ \E n \in Namespaces : Read(n)
    PROVE  TypeOK'
<1> USE MonitorAssumption
<1>1. CASE Load
  <2>1. loop \in [at : {"load"}, ns : Namespaces, to : {None}]
      BY <1>1 DEF Load, TypeOK, Reading
  <2>2. contexts[loop.ns] \in Containers \cup {None}
      BY <2>1 DEF TypeOK
  <2>3. CASE contexts[loop.ns] = None \/ contexts[loop.ns] \in cancelled
      BY <1>1, <2>1, <2>3 DEF Load, TypeOK, GateTypeOK, gateVars, maps
  <2>4. CASE contexts[loop.ns] \in Containers \ cancelled
    <3>1. loop' = [loop EXCEPT !.at = "send", !.to = contexts[loop.ns]] /\ lost' = lost
        BY <1>1, <2>4, MonitorAssumption DEF Load
    <3>2. loop' \in [at : {"send"}, ns : Namespaces, to : Containers]
        BY <2>1, <2>4, <3>1
    <3> QED
        BY <1>1, <3>1, <3>2 DEF Load, TypeOK, GateTypeOK, gateVars, maps
  <2> QED
      BY <2>2, <2>3, <2>4
<1>2. ASSUME NEW n \in Namespaces, Read(n) PROVE TypeOK'
    BY <1>2 DEF Read, Take, TypeOK, GateTypeOK, maps, history
<1> QED
    BY <1>1, <1>2

LEMMA NextTypeOK == TypeOK /\ [Next]_vars => TypeOK'
<1>1. TypeOK /\ UNCHANGED vars => TypeOK'
    BY DEF vars, gateVars, maps, procs, history, TypeOK, GateTypeOK
<1> QED
    BY <1>1, KernelTypeOK, MonitorTypeOK, LoopTypeOK DEF Next

\* Every reachable state has the types of TypeOK: no ring overflows, the perf loop
\* has a receiver whenever it sends, and main cancels only what has stopped.
THEOREM TypeCorrect == Spec => []TypeOK
BY InitTypeOK, NextTypeOK, PTL DEF Spec

(***************************************************************************)
(* namespaceToContext and the receiver of the perf loop.                   *)
(***************************************************************************)
\* What a step of a monitor does to the other monitors: nothing.
LEMMA OthersStay ==
    ASSUME TypeOK, NEW c \in Containers,
           MonitorStep(c) \/ RequestStep(c) \/ Monitor(c) \/ Receive(c)
    PROVE  \A d \in Containers \ {c} : mon'[d] = mon[d]
BY DEF TypeOK, MonitorStep, RequestStep, Monitor, Receive, AddCount, AddValid,
       AddScaling, AddContext,
       ScaleReturns, GiveUp, SleepEnds, Stop, DelCount, DelBuffer, DelValid,
       DelContext, Remove, Going

\* A monitor leaves its loop only when its context has been cancelled.
LEMMA LeavesOnlyCancelled ==
    ASSUME TypeOK, NEW c \in Containers, Next,
           mon[c] \in Serving \cup {"gaveUp"}
    PROVE  mon'[c] \in Serving \cup {"gaveUp"} \/ c \in cancelled
<1>1. ASSUME NEW d \in Containers, d # c,
             MonitorStep(d) \/ RequestStep(d) \/ Monitor(d) \/ Receive(d)
      PROVE  mon'[c] = mon[c]
    BY <1>1, OthersStay
<1>2. CASE MonitorStep(c) \/ RequestStep(c)
    BY <1>2 DEF TypeOK, MonitorStep, RequestStep, AddCount, AddValid, AddScaling, AddContext,
       ScaleReturns, GiveUp, SleepEnds, Stop, DelCount, DelBuffer, DelValid,
       DelContext, Remove, Going, Serving
<1>3. CASE Monitor(c) \/ Receive(c)
    BY <1>3 DEF TypeOK, Monitor, Receive, Going, Serving
<1>4. ASSUME NEW p \in CPUs, ProbeStep(p) \/ \E d \in Containers : Request(p, d)
      PROVE  mon' = mon
    BY <1>4 DEF ProbeStep, ProbeCounts, ProbeJudges, ProbePosts, Request, procs
<1>5. ASSUME NEW d \in Containers, Die(d) \/ Cancel(d) PROVE mon' = mon
    BY <1>5 DEF Die, Cancel
<1>6. Load \/ (\E n \in Namespaces : Read(n)) => mon' = mon
    BY DEF Load, Read
<1> QED
    BY <1>1, <1>2, <1>3, <1>4, <1>5, <1>6 DEF Next

\* Cancelled contexts stay cancelled, and only two steps write the map.
LEMMA ContextsWritten ==
    ASSUME TypeOK, Next
    PROVE  /\ cancelled \subseteq cancelled'
           /\ contexts' = contexts \/ \E c \in Containers : AddContext(c) \/ DelContext(c)
BY DEF Next, ProbeStep, ProbeCounts, ProbeJudges, ProbePosts, Request, Monitor, Die,
       Cancel, MonitorStep, RequestStep, AddCount, AddValid, AddScaling, OpenGate, ScaleReturns,
       GiveUp, SleepEnds, Stop, DelCount, DelBuffer, DelValid, AddContext, DelContext,
       Receive, Load, Read, maps, procs

LEMMA NextContextsFit == TypeOK /\ ContextsFit /\ Next => ContextsFit'
<1> SUFFICES ASSUME TypeOK, ContextsFit, Next,
                    NEW n \in Namespaces, NEW c \in Containers, contexts'[n] = c
             PROVE  Netns[c] = n /\ (c \in cancelled' \/ mon'[c] \in Serving \cup {"gaveUp"})
    BY DEF ContextsFit
<1> USE MonitorAssumption
<1>1. CASE contexts[n] = c
    BY <1>1, LeavesOnlyCancelled, ContextsWritten DEF ContextsFit
<1>2. ASSUME NEW d \in Containers, AddContext(d), contexts[n] # c
      PROVE  Netns[c] = n /\ mon'[c] = "select"
    BY <1>2 DEF AddContext, Going, TypeOK
<1>3. ASSUME NEW d \in Containers, DelContext(d), contexts[n] # c
      PROVE  FALSE
    BY <1>3 DEF DelContext, TypeOK
<1> QED
    BY <1>1, <1>2, <1>3, ContextsWritten DEF Serving

\* Only Read, Load and Receive move the perf loop.
LEMMA LoopMoves ==
    ASSUME Next
    PROVE  \/ loop' = loop
           \/ Load
           \/ \E c \in Containers : Receive(c)
           \/ \E n \in Namespaces : Read(n)
BY DEF Next, ProbeStep, ProbeCounts, ProbeJudges, ProbePosts, Request, Monitor, Die,
       Cancel, MonitorStep, RequestStep, AddCount, AddValid, AddScaling, OpenGate, ScaleReturns,
       GiveUp, SleepEnds, Stop, DelCount, DelBuffer, DelValid, AddContext, DelContext,
       procs

\* A send begins with a receiver from the map.
LEMMA SendBegins ==
    ASSUME TypeOK, Next, loop'.at = "send", loop' # loop
    PROVE  /\ Load /\ loop'.ns = loop.ns /\ loop.ns \in Namespaces
           /\ loop'.to = contexts[loop.ns]
           /\ loop'.to \in Containers \ cancelled
<1>1. Load
    BY LoopMoves DEF Receive, Read, Reading
<1>2. loop \in [at : {"load"}, ns : Namespaces, to : {None}]
    BY <1>1 DEF Load, TypeOK, Reading
<1>3. /\ contexts[loop.ns] \notin cancelled \cup {None}
      /\ loop' = [loop EXCEPT !.at = "send", !.to = contexts[loop.ns]]
    BY <1>1 DEF Load, Reading
<1> QED
    BY <1>1, <1>2, <1>3 DEF TypeOK

LEMMA NextLoopFits == TypeOK /\ ContextsFit /\ LoopFits /\ Next => LoopFits'
BY SendBegins DEF ContextsFit, LoopFits

LEMMA NextSendHasReceiver ==
    TypeOK /\ ContextsFit /\ SendHasReceiver /\ Next => SendHasReceiver'
<1> SUFFICES ASSUME TypeOK, ContextsFit, SendHasReceiver, Next, loop'.at = "send"
             PROVE  \/ mon'[loop'.to] \in Serving \cup {"gaveUp"}
                    \/ loop'.to \in cancelled'
    BY DEF SendHasReceiver, Stuck, Serving
<1>1. CASE loop' = loop
  <2>1. loop.to \in Containers
      BY <1>1 DEF TypeOK, Reading
  <2> QED
      BY <1>1, <2>1, LeavesOnlyCancelled, ContextsWritten
         DEF SendHasReceiver, Stuck, Serving
<1>2. CASE loop' # loop
    BY <1>2, SendBegins, LeavesOnlyCancelled, ContextsWritten DEF ContextsFit
<1> QED
    BY <1>1, <1>2

(***************************************************************************)
(* The gate.                                                               *)
(***************************************************************************)
\* Places of a monitor that is about to open the gate of its namespace.
Opening == {"addCount", "addValid", "addScaling", "scale", "sleep"}

\* Somebody will see to the closed gate of n.
Owned(n) ==
    \/ \E p \in CPUs : In(p, "post") /\ Ns(p) = n
    \/ events[n] > 0
    \/ loop.ns = n
    \/ \E c \in Containers : Netns[c] = n /\ mon[c] \in Opening

\* A CPU that does not post the event keeps it to itself.
LEMMA KernelKeepsOwner ==
    ASSUME TypeOK, NEW p \in CPUs,
           ProbeStep(p) \/ \E c \in Containers : Request(p, c),
           NEW n \in scaling' \ lost', n \in scaling \ lost => Owned(n)
    PROVE  Owned(n)'
<1> USE MonitorAssumption
<1>1. ASSUME NEW c \in Containers, Request(p, c) PROVE Owned(n)'
    BY <1>1 DEF Request, Arrive, Owned, In, Ns, TypeOK, GateTypeOK, maps, procs, history
<1>2. CASE ProbeCounts(p)
    BY <1>2 DEF ProbeCounts, Pass, TurnBack, Exit, MoveTo, Owned, In, Ns, TypeOK,
                GateTypeOK, procs, history
<1>3. CASE ProbeJudges(p)
  <2>1. CASE NoTrigger(p)
      BY <1>3, <2>1 DEF ProbeJudges, NoTrigger, Exit, Owned, In, Ns, TypeOK,
                  GateTypeOK, procs, history
  <2>2. CASE Close(p) /\ n = Ns(p)
    <3>1. In(p, "post")' /\ Ns(p)' = n
        BY <2>2 DEF Close, MoveTo, In, Ns, TypeOK, GateTypeOK
    <3> QED
        BY <3>1 DEF Owned
  <2>3. CASE Close(p) /\ n # Ns(p)
      BY <1>3, <2>3 DEF ProbeJudges, Close, MoveTo, Owned, In, Ns, TypeOK,
                  GateTypeOK, procs, history
  <2> QED
      BY <1>3, <2>1, <2>2, <2>3 DEF ProbeJudges
<1>4. CASE ProbePosts(p)
  <2>1. n \in scaling \ lost /\ Ns(p) \in Namespaces
      BY <1>4, ProbeMoves DEF ProbePosts, Post, In
  <2>2. CASE n = Ns(p)
      BY <1>4, <2>1, <2>2 DEF ProbePosts, Post, Owned, TypeOK, GateTypeOK
  <2>3. CASE n # Ns(p)
    <3>1. events'[n] = events[n] /\ loop' = loop /\ mon' = mon
        BY <1>4, <2>1, <2>3 DEF ProbePosts, Post, TypeOK, GateTypeOK, procs
    <3>2. \A q \in CPUs : q # p => probe'[q] = probe[q]
        BY <1>4 DEF ProbePosts, Post, Exit, TypeOK, GateTypeOK
    <3> QED
        BY <2>1, <2>3, <3>1, <3>2 DEF Owned, In, Ns
  <2> QED
      BY <2>2, <2>3
<1> QED
    BY <1>1, <1>2, <1>3, <1>4 DEF ProbeStep

\* A monitor that leaves one of those places has opened the gate, or has given up
\* or failed to open it and put the gate on record.
LEMMA MonitorKeepsOwner ==
    ASSUME TypeOK, LoopFits, NEW c \in Containers,
           Monitor(c) \/ Die(c) \/ Cancel(c) \/ MonitorStep(c) \/ RequestStep(c) \/ Receive(c),
           NEW n \in scaling' \ lost', n \in scaling \ lost => Owned(n)
    PROVE  Owned(n)'
<1> USE MonitorAssumption
<1>1. CASE Die(c) \/ Cancel(c)
    BY <1>1 DEF Die, Cancel, Owned, In, Ns, gateVars, maps, history
<1>2. CASE Receive(c)
  <2>1. mon'[c] = "scale" /\ mon[c] = "select" /\ Netns[c] = loop.ns
      BY <1>2 DEF Receive, Going, TypeOK, LoopFits
  <2>2. \A d \in Containers \ {c} : mon'[d] = mon[d]
      BY <1>2, OthersStay
  <2> QED
      BY <1>2, <2>1, <2>2
         DEF Receive, Owned, In, Ns, Opening, gateVars, history
<1>3. CASE AddScaling(c) \/ SleepEnds(c)
  <2>1. n # Netns[c] /\ n \in scaling \ lost
      BY <1>3 DEF AddScaling, SleepEnds, OpenGate, Open, gateVars
  <2>2. \A d \in Containers \ {c} : mon'[d] = mon[d]
      BY <1>3, OthersStay DEF MonitorStep, RequestStep
  <2> QED
      BY <1>3, <2>1, <2>2
         DEF AddScaling, SleepEnds, OpenGate, Open, Owned, In, Ns, gateVars
<1>4. CASE GiveUp(c)
  <2>1. n # Netns[c] /\ n \in scaling \ lost
      BY <1>4 DEF GiveUp, gateVars
  <2>2. \A d \in Containers \ {c} : mon'[d] = mon[d]
      BY <1>4, OthersStay DEF MonitorStep, RequestStep
  <2> QED
      BY <1>4, <2>1, <2>2 DEF GiveUp, gateVars, Owned, In, Ns
<1>5. CASE Monitor(c) \/ AddCount(c) \/ AddValid(c) \/ AddContext(c) \/ ScaleReturns(c)
           \/ Stop(c) \/ DelCount(c) \/ DelBuffer(c) \/ DelValid(c) \/ DelContext(c)
  <2>1. UNCHANGED <<gateVars, loop, lost>>
      BY <1>5 DEF Monitor, AddCount, AddValid, AddContext, ScaleReturns, Stop, DelCount,
                  DelBuffer, DelValid, DelContext, history
  <2>2. mon[c] \in Opening => mon'[c] \in Opening
      BY <1>5 DEF Monitor, AddCount, AddValid, AddContext, ScaleReturns, Stop, DelCount,
                  DelBuffer, DelValid, DelContext, Remove, Going, Opening, TypeOK
  <2>3. \A d \in Containers \ {c} : mon'[d] = mon[d]
      BY <1>5, OthersStay DEF MonitorStep, RequestStep
  <2> QED
      BY <2>1, <2>2, <2>3 DEF gateVars, Owned, In, Ns
<1> QED
    BY <1>1, <1>2, <1>3, <1>4, <1>5 DEF MonitorStep, RequestStep

\* An event that the loop has read is with the loop until it is dropped.
LEMMA LoopKeepsOwner ==
    ASSUME TypeOK, Load \/ \E m \in Namespaces : Read(m),
           NEW n \in scaling' \ lost', n \in scaling \ lost => Owned(n)
    PROVE  Owned(n)'
<1>1. CASE Load
  <2>1. n \in scaling \ lost
      BY <1>1 DEF Load, gateVars
  <2>2. loop.ns = n => loop'.ns = n
    <3>1. loop \in [at : {"load"}, ns : Namespaces, to : {None}]
        BY <1>1 DEF Load, TypeOK, Reading
    <3> QED
        BY <1>1, <3>1 DEF Load
  <2> QED
      BY <1>1, <2>1, <2>2 DEF Load, Owned, In, Ns, gateVars
<1>2. ASSUME NEW m \in Namespaces, Read(m) PROVE Owned(n)'
  <2>1. n \in scaling \ lost /\ loop.ns # n
      BY <1>2, GateAssumption DEF Read, Take, history, TypeOK, GateTypeOK, Reading
  <2>2. CASE n = m
      BY <1>2, <2>2 DEF Read, Owned
  <2>3. CASE n # m
      BY <1>2, <2>1, <2>3 DEF Read, Take, Owned, In, Ns, TypeOK, GateTypeOK
  <2> QED
      BY <2>2, <2>3
<1> QED
    BY <1>1, <1>2

LEMMA OwnedGates == ClosedGateHasOwner <=> \A n \in scaling \ lost : Owned(n)
BY DEF ClosedGateHasOwner, Owned, Opening

LEMMA NextClosedGateHasOwner ==
    TypeOK /\ LoopFits /\ ClosedGateHasOwner /\ Next => ClosedGateHasOwner'
<1> SUFFICES ASSUME TypeOK, LoopFits, ClosedGateHasOwner, Next,
                    NEW n \in scaling' \ lost'
             PROVE  Owned(n)'
    BY DEF ClosedGateHasOwner, Owned, Opening
<1>1. n \in scaling \ lost => Owned(n)
    BY OwnedGates
<1> QED
    BY <1>1, KernelKeepsOwner, MonitorKeepsOwner, LoopKeepsOwner DEF Next

(***************************************************************************)
(* Registration.                                                           *)
(***************************************************************************)
\* The monitors and the history of overlaps change only in steps of monitors.
LEMMA MonitorsMove ==
    ASSUME Next
    PROVE  \/ UNCHANGED <<mon, overlapped, valid, contexts>>
           \/ \E c \in Containers : Monitor(c) \/ MonitorStep(c) \/ RequestStep(c) \/ Receive(c)
BY DEF Next, ProbeStep, ProbeCounts, ProbeJudges, ProbePosts, Request, Die, Cancel,
       Load, Read, maps, procs, history

\* What a monitor's own steps do to the registration of its namespace.
LEMMA MonitorWrites ==
    ASSUME TypeOK, NEW c \in Containers, MonitorStep(c) \/ RequestStep(c) \/ Receive(c)
    PROVE  /\ overlapped' = overlapped
           /\ mon[c] \notin Ended
           /\ \A n \in Namespaces \ {Netns[c]} :
                 contexts'[n] = contexts[n] /\ (n \in valid' <=> n \in valid)
           /\ mon'[c] \in {"addScaling", "addContext"} \cup Serving =>
                 \/ Netns[c] \in valid'
                 \/ /\ mon[c] \in {"addScaling", "addContext"} \cup Serving
                    /\ valid' = valid
           /\ mon'[c] \in Serving =>
                 \/ contexts'[Netns[c]] = c
                 \/ mon[c] \in Serving /\ contexts' = contexts
<1> USE MonitorAssumption DEF Serving, Ended
<1>1. CASE AddCount(c) \/ AddValid(c) \/ AddContext(c)
    BY <1>1 DEF AddCount, AddValid, AddContext, Going, TypeOK, history
<1>2. CASE AddScaling(c) \/ SleepEnds(c)
    BY <1>2 DEF AddScaling, SleepEnds, OpenGate, Going, TypeOK, maps
<1>3. CASE ScaleReturns(c) \/ GiveUp(c) \/ Stop(c) \/ Receive(c)
    BY <1>3 DEF ScaleReturns, GiveUp, Stop, Receive, Going, TypeOK, maps, history
<1>4. CASE DelCount(c) \/ DelBuffer(c)
    BY <1>4 DEF DelCount, DelBuffer, Remove, Going, TypeOK, history
<1>5. CASE DelValid(c) \/ DelContext(c)
    BY <1>5 DEF DelValid, DelContext, Remove, Going, TypeOK, history
<1> QED
    BY <1>1, <1>2, <1>3, <1>4, <1>5 DEF MonitorStep, RequestStep

LEMMA NextOneMonitor == TypeOK /\ OneMonitor /\ Next => OneMonitor'
<1> SUFFICES ASSUME TypeOK, OneMonitor, Next, NEW c \in Containers, NEW d \in Containers,
                    c # d, Netns[c] = Netns[d], Netns[c] \notin overlapped'
             PROVE  mon'[c] \in Ended \/ mon'[d] \in Ended
    BY DEF OneMonitor
<1> USE MonitorAssumption
<1>1. CASE UNCHANGED <<mon, overlapped>>
    BY <1>1 DEF OneMonitor
<1>2. ASSUME NEW e \in Containers, MonitorStep(e) \/ RequestStep(e) \/ Receive(e)
      PROVE  mon'[c] \in Ended \/ mon'[d] \in Ended
    BY <1>2, MonitorWrites, OthersStay DEF OneMonitor
<1>3. ASSUME NEW e \in Containers, Monitor(e)
      PROVE  mon'[c] \in Ended \/ mon'[d] \in Ended
  <2>1. \A f \in Containers \ {e} : mon'[f] = mon[f]
      BY <1>3, OthersStay
  <2>2. CASE Netns[e] = Netns[c]
    <3>1. \A f \in Twins(e) : mon[f] \in Ended
        BY <1>3, <2>2 DEF Monitor
    <3> QED
        BY <2>1, <2>2, <3>1 DEF Twins
  <2>3. CASE Netns[e] # Netns[c]
      BY <1>3, <2>1, <2>3 DEF OneMonitor, Monitor
  <2> QED
      BY <2>2, <2>3
<1> QED
    BY <1>1, <1>2, <1>3, MonitorsMove

LEMMA NextRegistration == TypeOK /\ OneMonitor /\ Registration /\ Next => Registration'
<1> SUFFICES ASSUME TypeOK, OneMonitor, Registration, Next, NEW c \in Containers,
                    Netns[c] \notin overlapped'
             PROVE  /\ mon'[c] \in {"addScaling", "addContext"} \cup Serving
                          => Netns[c] \in valid'
                    /\ mon'[c] \in Serving => contexts'[Netns[c]] = c
    BY DEF Registration
<1> USE MonitorAssumption
<1>1. CASE UNCHANGED <<mon, overlapped, valid, contexts>>
    BY <1>1 DEF Registration
<1>2. CASE MonitorStep(c) \/ RequestStep(c) \/ Receive(c)
    BY <1>2, MonitorWrites DEF Registration
<1>3. ASSUME NEW e \in Containers \ {c}, MonitorStep(e) \/ RequestStep(e) \/ Receive(e)
      PROVE  /\ mon'[c] \in {"addScaling", "addContext"} \cup Serving
                   => Netns[c] \in valid'
             /\ mon'[c] \in Serving => contexts'[Netns[c]] = c
  <2>1. mon'[c] = mon[c] /\ overlapped' = overlapped /\ mon[e] \notin Ended
      BY <1>3, MonitorWrites, OthersStay
  <2>2. CASE Netns[e] = Netns[c]
      BY <2>1, <2>2 DEF OneMonitor, Ended, Serving
  <2>3. CASE Netns[e] # Netns[c]
      BY <1>3, <2>1, <2>3, MonitorWrites DEF Registration
  <2> QED
      BY <2>2, <2>3
<1>4. ASSUME NEW e \in Containers, Monitor(e)
      PROVE  /\ mon'[c] \in {"addScaling", "addContext"} \cup Serving
                   => Netns[c] \in valid'
             /\ mon'[c] \in Serving => contexts'[Netns[c]] = c
  <2>1. UNCHANGED <<valid, contexts>> /\ mon'[e] = "addCount" /\ mon[e] = "none"
      BY <1>4 DEF Monitor, Going, maps, TypeOK
  <2>2. \A f \in Containers \ {e} : mon'[f] = mon[f]
      BY <1>4, OthersStay
  <2>3. CASE Netns[e] = Netns[c] /\ e # c
    <3>1. mon[c] \in Ended
        BY <1>4, <2>3 DEF Monitor, Twins
    <3> QED
        BY <2>2, <2>3, <3>1 DEF Ended, Serving
  <2>4. CASE Netns[e] # Netns[c]
      BY <1>4, <2>1, <2>2, <2>4 DEF Registration, Monitor
  <2> QED
      BY <2>1, <2>3, <2>4 DEF Serving
<1> QED
    BY <1>1, <1>2, <1>3, <1>4, MonitorsMove

(***************************************************************************)
(* The theorems.                                                           *)
(***************************************************************************)
LEMMA InitIInv == Init => IInv
<1> SUFFICES ASSUME Init PROVE IInv
    OBVIOUS
<1>1. TypeOK
    BY InitTypeOK
<1> QED
    BY <1>1, MonitorAssumption
       DEF IInv, Init, GateInit, Reading, ContextsFit, LoopFits, SendHasReceiver,
           ClosedGateHasOwner, OneMonitor, Registration, Ended, Serving

LEMMA NextIInv == IInv /\ [Next]_vars => IInv'
<1>1. IInv /\ Next => IInv'
    BY NextTypeOK, NextContextsFit, NextLoopFits, NextSendHasReceiver,
       NextClosedGateHasOwner, NextOneMonitor, NextRegistration DEF IInv
<1>2. IInv /\ UNCHANGED vars => IInv'
  <2> SUFFICES ASSUME IInv, UNCHANGED vars PROVE IInv'
      OBVIOUS
  <2> USE DEF vars, gateVars, maps, procs, history
  <2>1. TypeOK'
      BY NextTypeOK DEF IInv
  <2>2. ContextsFit' /\ LoopFits' /\ OneMonitor' /\ Registration'
      BY DEF IInv, ContextsFit, LoopFits, OneMonitor, Registration
  <2>3. SendHasReceiver' /\ ClosedGateHasOwner'
      BY DEF IInv, SendHasReceiver, Stuck, ClosedGateHasOwner, In, Ns
  <2> QED
      BY <2>1, <2>2, <2>3 DEF IInv
<1> QED
    BY <1>1, <1>2

LEMMA Invariance == Spec => []IInv
BY InitIInv, NextIInv, PTL DEF Spec

\* A gate that scaling_map holds closed is never forgotten, whatever CPUs, monitors
\* and the perf loop do in between: it has an owner or its event is on record as
\* lost.
THEOREM ClosedGatesAreOwned == Spec => []ClosedGateHasOwner
<1>1. IInv => ClosedGateHasOwner
    BY DEF IInv
<1> QED
    BY <1>1, Invariance, PTL

\* The perf loop waits only for a monitor that is in its loop, that was cancelled
\* after the test of its context, or that has given up.
THEOREM SendsAreReceived == Spec => []SendHasReceiver
<1>1. IInv => SendHasReceiver
    BY DEF IInv
<1> QED
    BY <1>1, Invariance, PTL

\* removeNamespace takes a successor's registration away only if the predecessor
\* was still being removed when the successor's Monitor was called.
THEOREM RegistrationsStay == Spec => []MonitorStaysRegistered
<1>1. IInv => MonitorStaysRegistered
    BY DEF IInv, Registration, MonitorStaysRegistered, Serving
<1> QED
    BY <1>1, Invariance, PTL

\* The monitors use the gate as ScalingGate says and in no other way: composed
\* with them, the kernel probe still behaves as its abstract specification.
THEOREM MonitorUsesGate == Spec => GateSpec
<1>1. Init => GateInit
    BY DEF Init
<1>2. [Next]_vars => [GateNext]_gateVars
  <2>1. ASSUME NEW p \in CPUs, ProbeStep(p) PROVE GateNext
      BY <2>1 DEF ProbeStep, ProbeCounts, ProbeJudges, ProbePosts, GateNext, CpuStep
  <2>2. ASSUME NEW p \in CPUs, NEW c \in Containers, Request(p, c) PROVE GateNext
      BY <2>2, MonitorAssumption DEF Request, GateNext
  <2>3. ASSUME NEW c \in Containers, MonitorStep(c) \/ RequestStep(c) PROVE [GateNext]_gateVars
    <3>1. CASE AddScaling(c) \/ SleepEnds(c)
        BY <3>1, MonitorAssumption DEF AddScaling, SleepEnds, OpenGate, GateNext
    <3>2. CASE ~(AddScaling(c) \/ SleepEnds(c))
        BY <2>3, <3>2 DEF MonitorStep, RequestStep, AddCount, AddValid, AddContext, ScaleReturns,
              GiveUp, Stop, DelCount, DelBuffer, DelValid, DelContext
    <3> QED
        BY <3>1, <3>2
  <2>4. ASSUME NEW n \in Namespaces, Read(n) PROVE GateNext
      BY <2>4 DEF Read, GateNext
  <2>5. ASSUME NEW c \in Containers, Monitor(c) \/ Die(c) \/ Cancel(c) \/ Receive(c)
        PROVE  UNCHANGED gateVars
      BY <2>5 DEF Monitor, Die, Cancel, Receive
  <2>6. Load \/ UNCHANGED vars => UNCHANGED gateVars
      BY DEF Load, vars
  <2> QED
      BY <2>1, <2>2, <2>3, <2>4, <2>5, <2>6 DEF Next
<1> QED
    BY <1>1, <1>2, PTL DEF Spec, GateSpec
=============================================================================
