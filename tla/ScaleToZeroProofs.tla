-------------------------- MODULE ScaleToZeroProofs --------------------------
(***************************************************************************)
(* Theorems about ScaleToZero, for every set of services, nodes, handlers  *)
(* and keep-alive operations, with requests lost and processes restarted.  *)
(* The facts about the manager's own goroutines come from                  *)
(* ScaleManagerProofs.                                                     *)
(***************************************************************************)
EXTENDS ScaleToZero, ScaleManagerProofs

(***************************************************************************)
(* The inductive invariant.                                                *)
(***************************************************************************)
\* A node that is waking a service knows which, and who scales it up: only
\* the manager's own loop calls ScaleTo.
WakeFits ==
    \A n \in Nodes :
        /\ wake[n].step # "none" => wake[n].svc \in Services
        /\ wake[n].step = "scale" =>
              /\ wake[n].by \in Handlers \cup {Listener}
              /\ wake[n].by = Listener => n = Manager

\* The goroutine that a node waits for works on the service being woken.
WakerServes ==
    \A n \in Nodes :
        wake[n].step = "scale" /\ ~At(wake[n].by, "idle")
            => Svc(wake[n].by) = wake[n].svc

\* An operation that has got past ListenOnPort counts on the manager's listener.
Counting == {"notify", "scaleInspect", "scaleUpdate"}

ListenersFirst ==
    \A k \in Ops :
        proc[k].pc \in Counting /\ Svc(k) \notin missed
            => Svc(k) \in listening[Manager]

\* A node is still to have s scaled up: its goroutine has not returned yet.
StillWaking(s) ==
    \E n \in Nodes :
        /\ wake[n].svc = s
        /\ \/ wake[n].step = "remove"
           \/ wake[n].step = "scale" /\ ~At(wake[n].by, "idle")

ZeroIsCovered ==
    \A s \in Services :
        replicas[s] = 0 /\ s \notin missed
            => s \in listening[Manager] \/ StillWaking(s)

WakeInv ==
    /\ SwarmTypeOK
    /\ Targets
    /\ WakeFits
    /\ WakerServes
    /\ ListenersFirst
    /\ ZeroIsCovered

(***************************************************************************)
(* The manager's goroutines behave as in ScaleManager.                     *)
(***************************************************************************)
LEMMA SwarmStepIsManagerStep ==
    ASSUME SwarmTypeOK, WakeFits, [SwarmNext]_swarmVars
    PROVE  [Next]_vars
<1> USE ConstantsAssumption, NodesAssumption
<1>1. ASSUME NEW k \in Ops, ListenStep(k) PROVE [Next]_vars
    BY <1>1 DEF ListenStep, ListenHere, AllAsked, ListenFails, AskNode, Next, OpStep
<1>2. ASSUME NEW n \in Nodes, LoopStep(n) PROVE [Next]_vars
  <2>1. CASE ScaleUpHere(n)
    <3>1. wake[n].svc \in Services
        BY <2>1 DEF ScaleUpHere, Removed, WakeFits
    <3> QED
        BY <2>1, <3>1 DEF ScaleUpHere, Next
  <2>2. ASSUME NEW h \in Handlers, SendScaleRequest(n, h) PROVE [Next]_vars
    <3>1. Request(h, wake[n].svc, "over") /\ wake[n].svc \in Services
        BY <2>2 DEF SendScaleRequest, Removed, WakeFits
    <3> QED
        BY <3>1 DEF Next, Directions
  <2>3. (\E m \in Nodes : RemoveAt(n, m)) \/ RemoveFails(n) \/ SendScaleRequestFails(n)
            \/ ScaleReturns(n) => UNCHANGED vars
      BY DEF RemoveAt, RemoveFails, SendScaleRequestFails, ScaleReturns
  <2> QED
      BY <1>2, <2>1, <2>2, <2>3 DEF LoopStep
<1>3. ASSUME NEW n \in Nodes, NodeRestart(n) PROVE [Next]_vars
    BY <1>3 DEF NodeRestart, Next
<1>4. ASSUME NEW n \in Nodes, NEW s \in Services, Packet(n, s) PROVE [Next]_vars
    BY <1>4 DEF Packet
<1>5. ASSUME NEW h \in Handlers, NEW s \in Services, NEW d \in {"over", "under"},
             MonitorRequest(h, s, d)
      PROVE  [Next]_vars
    BY <1>5 DEF MonitorRequest, Next, Directions
<1>6. CASE ManagerStep
    BY <1>6 DEF ManagerStep, Next, OpStep
<1>7. CASE UNCHANGED swarmVars
    BY <1>7 DEF swarmVars
<1> QED
    BY <1>1, <1>2, <1>3, <1>4, <1>5, <1>6, <1>7 DEF SwarmNext

(***************************************************************************)
(* Type correctness.                                                       *)
(***************************************************************************)
LEMMA InitWakeInv == SwarmInit => WakeInv
<1> SUFFICES ASSUME SwarmInit PROVE WakeInv
    OBVIOUS
<1>1. TypeOK /\ Targets
    BY InitTypeOK, InitTargets DEF SwarmInit
<1>2. SwarmTypeOK
    BY <1>1 DEF SwarmInit, SwarmTypeOK, WakeState, NoWake
<1>3. WakeFits /\ WakerServes
    BY DEF SwarmInit, NoWake, WakeFits, WakerServes
<1>4. ListenersFirst
    BY DEF SwarmInit, Init, Idle, Procs, ListenersFirst, Counting
<1>5. ASSUME NEW s \in Services PROVE replicas[s] # 0
  <2>1. replicas[s] \in 1 .. MaxReplicas
      BY DEF SwarmInit, Init
  <2> QED
      BY <2>1, ConstantsAssumption
<1> QED
    BY <1>1, <1>2, <1>3, <1>4, <1>5 DEF WakeInv, ZeroIsCovered

\* A step of a node's event loop writes a wake state.
LEMMA WakeTyped ==
    ASSUME SwarmTypeOK, NEW n \in Nodes
    PROVE  /\ \A left \in SUBSET Nodes : [wake EXCEPT ![n].left = left] \in [Nodes -> WakeState]
           /\ \A by \in Handlers \cup {Listener} :
                 [wake EXCEPT ![n].step = "scale", ![n].by = by] \in [Nodes -> WakeState]
           /\ [wake EXCEPT ![n] = NoWake] \in [Nodes -> WakeState]
           /\ wake[n].left \subseteq Nodes
<1>1. wake \in [Nodes -> WakeState] /\ wake[n] \in WakeState /\ NoWake \in WakeState
    BY DEF SwarmTypeOK, WakeState, NoWake
<1>2. ASSUME NEW left \in SUBSET Nodes
      PROVE  [wake EXCEPT ![n].left = left] \in [Nodes -> WakeState]
    BY <1>1 DEF WakeState
<1>3. ASSUME NEW by \in Handlers \cup {Listener}
      PROVE  [wake EXCEPT ![n].step = "scale", ![n].by = by] \in [Nodes -> WakeState]
    BY <1>1 DEF WakeState
<1> QED
    BY <1>1, <1>2, <1>3 DEF WakeState

LEMMA NextSwarmTypeOK ==
    ASSUME SwarmTypeOK, WakeFits, [SwarmNext]_swarmVars
    PROVE  SwarmTypeOK'
<1> USE ConstantsAssumption, NodesAssumption
<1>t. TypeOK'
    BY SwarmStepIsManagerStep, NextTypeOK DEF SwarmTypeOK
<1>o. \A n \in Nodes : OtherNodes(n) \subseteq Nodes
    BY DEF OtherNodes
<1>s. \A k \in Ops : ~At(k, "idle") => Svc(k) \in Services
    BY DEF SwarmTypeOK, TypeOK, Procs
<1>1. ASSUME NEW k \in Ops, ListenStep(k) PROVE SwarmTypeOK'
  <2>1. Svc(k) \in Services /\ OtherNodes(Manager) = Nodes \ {Manager}
      BY <1>1, <1>s DEF ListenStep, ListenHere, AllAsked, ListenFails, AskNode, ListenOk,
                        NotifyOk, GiveUp, At, OtherNodes
  <2>2. CASE ListenHere(k)
      BY <1>t, <2>1, <2>2 DEF ListenHere, Register, SwarmTypeOK
  <2>3. CASE AllAsked(k)
      BY <1>t, <2>3 DEF AllAsked, wakeVars, SwarmTypeOK
  <2>4. CASE ListenFails(k)
    <3>1. listening' \in [Nodes -> SUBSET Services]
        BY <2>1, <2>4 DEF ListenFails, Register, SwarmTypeOK
    <3> QED
        BY <1>t, <2>4, <3>1 DEF ListenFails, SwarmTypeOK
  <2>5. ASSUME NEW n \in Nodes, AskNode(k, n) PROVE SwarmTypeOK'
      BY <1>t, <2>1, <2>5 DEF AskNode, Register, SwarmTypeOK
  <2> QED
      BY <1>1, <2>2, <2>3, <2>4, <2>5 DEF ListenStep
<1>2. ASSUME NEW n \in Nodes, LoopStep(n) PROVE SwarmTypeOK'
  <2>1. ASSUME NEW m \in Nodes, RemoveAt(n, m) PROVE SwarmTypeOK'
    <3>1. wake' \in [Nodes -> WakeState]
      <4> DEFINE rest == wake[n].left \ {m}
      <4>1. rest \in SUBSET Nodes
          BY WakeTyped
      <4>2. wake' = [wake EXCEPT ![n].left = rest]
          BY <2>1 DEF RemoveAt
      <4>3. wake \in [Nodes -> WakeState]
          BY DEF SwarmTypeOK
      <4> HIDE DEF rest
      <4>4. [wake[n] EXCEPT !.left = rest] \in WakeState
          BY <4>1, <4>3 DEF WakeState
      <4> QED
          BY <4>2, <4>3, <4>4
    <3>2. wake[n].svc \in Services /\ Overtaken(m, wake[n].svc) \subseteq Services
        BY <2>1 DEF RemoveAt, WakeFits, Overtaken
    <3> QED
        BY <1>t, <2>1, <3>1, <3>2 DEF RemoveAt, Unregister, SwarmTypeOK
  <2>2. CASE RemoveFails(n)
    <3>1. wake' \in [Nodes -> WakeState]
        BY <2>2, WakeTyped DEF RemoveFails
    <3>2. wake[n].svc \in Services /\ \A o : Overtaken(o, wake[n].svc) \subseteq Services
        BY <2>2 DEF RemoveFails, WakeFits, Overtaken
    <3> QED
        BY <1>t, <2>2, <3>1, <3>2 DEF RemoveFails, Unregister, SwarmTypeOK
  <2>3. CASE ScaleUpHere(n)
      BY <1>t, <2>3, WakeTyped DEF ScaleUpHere, SwarmTypeOK
  <2>4. CASE SendScaleRequestFails(n)
    <3>1. wake[n].svc \in Services
        BY <2>4 DEF SendScaleRequestFails, Removed, WakeFits
    <3>2. wake' \in [Nodes -> WakeState]
        BY <2>4, WakeTyped DEF SendScaleRequestFails
    <3> QED
        BY <1>t, <2>4, <3>1, <3>2 DEF SendScaleRequestFails, SwarmTypeOK
  <2>5. CASE ScaleReturns(n)
      BY <1>t, <2>5, WakeTyped DEF ScaleReturns, SwarmTypeOK
  <2>6. ASSUME NEW h \in Handlers, SendScaleRequest(n, h) PROVE SwarmTypeOK'
      BY <1>t, <2>6, WakeTyped DEF SendScaleRequest, SwarmTypeOK
  <2> QED
      BY <1>2, <2>1, <2>2, <2>3, <2>4, <2>5, <2>6 DEF LoopStep
<1>3. ASSUME NEW n \in Nodes, NodeRestart(n) PROVE SwarmTypeOK'
  <2>1. NoWake \in WakeState
      BY DEF NoWake, WakeState
  <2> QED
      BY <1>t, <1>3, <2>1 DEF NodeRestart, WakesOf, SwarmTypeOK
<1>4. ASSUME NEW n \in Nodes, NEW s \in Services, Packet(n, s) PROVE SwarmTypeOK'
  <2>1. [step |-> "remove", svc |-> s, left |-> OtherNodes(n), by |-> None] \in WakeState
      BY <1>o DEF WakeState
  <2> QED
      BY <1>t, <1>4, <2>1 DEF Packet, Unregister, Overtaken, SwarmTypeOK
<1>5. ASSUME NEW h \in Handlers, NEW s \in Services, NEW d \in {"over", "under"},
             MonitorRequest(h, s, d)
      PROVE  SwarmTypeOK'
    BY <1>t, <1>5 DEF MonitorRequest, wakeVars, SwarmTypeOK
<1>6. CASE ManagerStep
    BY <1>t, <1>6 DEF ManagerStep, LostWakes, SwarmTypeOK
<1>7. CASE UNCHANGED swarmVars
    BY <1>t, <1>7 DEF swarmVars, wakeVars, SwarmTypeOK
<1> QED
    BY <1>1, <1>2, <1>3, <1>4, <1>5, <1>6, <1>7 DEF SwarmNext

(***************************************************************************)
(* Who works on which service.                                             *)
(***************************************************************************)
\* A goroutine that serves requests or wake-ups ends, or stays with its service.
LEMMA KeepsService ==
    ASSUME TypeOK, NEW q \in Handlers \cup {Listener},
           \/ \E h \in Handlers : HandlerStep(h)
           \/ \E k \in Ops : OpStep(k)
           \/ \E p \in Procs : ScaleToStep(p)
    PROVE  \/ proc'[q] = proc[q]
           \/ proc'[q].pc = "idle"
           \/ proc[q].pc # "idle" /\ proc'[q].svc = proc[q].svc
<1> USE ConstantsAssumption
<1>p. q \in Procs /\ q \notin Ops
    BY DEF Procs
<1>1. ASSUME NEW h \in Handlers, HandlerStep(h)
      PROVE  \/ proc'[q] = proc[q]
             \/ proc'[q].pc = "idle"
             \/ proc[q].pc # "idle" /\ proc'[q].svc = proc[q].svc
  <2>1. CASE Reject(h) \/ Arm(h) \/ UpdateConstraints(h)
      BY <1>p, <2>1 DEF TypeOK, ProcState, Reject, Arm, UpdateConstraints, Return, Goto, Idle, At
  <2>2. CASE InspectOver(h) \/ InspectUnder(h)
      BY <1>p, <2>2 DEF TypeOK, ProcState, InspectOver, InspectUnder, Begin, At, Svc
  <2>3. CASE Cancel(h) \/ Delete(h)
      BY <1>p, <2>3 DEF TypeOK, ProcState, Cancel, Delete, Goto, At
  <2>4. CASE Send(h)
    <3>1. proc[h].ch \in Ops /\ h \in Procs
        BY <2>4 DEF TypeOK, Send, Procs
    <3> QED
        BY <1>p, <2>4, <3>1 DEF TypeOK, ProcState, Send, At
  <2>5. CASE Store(h)
      BY <1>p, <2>5 DEF TypeOK, ProcState, Store, Idle, At
  <2> QED
      BY <1>1, <2>1, <2>2, <2>3, <2>4, <2>5 DEF HandlerStep
<1>2. ASSUME NEW k \in Ops, OpStep(k) PROVE proc'[q] = proc[q]
    BY <1>2, <1>p DEF TypeOK, OpStep, Expire, ListenOk, NotifyOk, GiveUp, Forget, Return,
                      Goto, Begin
<1>3. ASSUME NEW p \in Procs, ScaleToStep(p)
      PROVE  \/ proc'[q] = proc[q]
             \/ proc'[q].pc = "idle"
             \/ proc[q].pc # "idle" /\ proc'[q].svc = proc[q].svc
    BY <1>3, <1>p DEF TypeOK, ProcState, ScaleToStep, ScaleInspect, ScaleUpdate, ScaleFails,
                      Return, Goto, Idle, At
<1> QED
    BY <1>1, <1>2, <1>3

\* A goroutine that takes up a service, and what that leaves alone.
LEMMA BeginMoves ==
    ASSUME TypeOK, NEW p \in Procs, NEW l, NEW s, NEW w, Begin(p, l, s, w)
    PROVE  /\ proc'[p].pc = l /\ proc'[p].svc = s
           /\ \A q \in Procs \ {p} : proc'[q] = proc[q]
BY DEF TypeOK, Begin

LEMMA NextWakeFits ==
    ASSUME SwarmTypeOK, WakeFits, [SwarmNext]_swarmVars
    PROVE  WakeFits'
<1> USE ConstantsAssumption, NodesAssumption
<1>1. CASE UNCHANGED wake
    BY <1>1 DEF WakeFits
<1>2. ASSUME NEW n \in Nodes,
             (\E m \in Nodes : RemoveAt(n, m)) \/ RemoveFails(n)
      PROVE  WakeFits'
  <2>1. \A m \in Nodes : /\ wake'[m].step = wake[m].step
                         /\ wake'[m].svc = wake[m].svc
                         /\ wake'[m].by = wake[m].by
      BY <1>2 DEF RemoveAt, RemoveFails, SwarmTypeOK, WakeState
  <2> QED
      BY <2>1 DEF WakeFits
<1>3. ASSUME NEW n \in Nodes, NEW by \in Handlers \cup {Listener},
             by = Listener => n = Manager, wake[n].step = "remove",
             wake' = [wake EXCEPT ![n].step = "scale", ![n].by = by]
      PROVE  WakeFits'
  <2>1. /\ \A m \in Nodes \ {n} : wake'[m] = wake[m]
        /\ wake'[n].step = "scale" /\ wake'[n].by = by /\ wake'[n].svc = wake[n].svc
      BY <1>3 DEF SwarmTypeOK, WakeState
  <2> QED
      BY <1>3, <2>1 DEF WakeFits
<1>4. ASSUME NEW n \in Nodes, ScaleUpHere(n) \/ \E h \in Handlers : SendScaleRequest(n, h)
      PROVE  WakeFits'
    BY <1>3, <1>4 DEF ScaleUpHere, SendScaleRequest, Removed
<1>5. ASSUME NEW n \in Nodes,
             SendScaleRequestFails(n) \/ ScaleReturns(n) \/ NodeRestart(n)
      PROVE  WakeFits'
    BY <1>5 DEF SendScaleRequestFails, ScaleReturns, NodeRestart, NoWake, WakeFits,
                SwarmTypeOK
<1>6. ASSUME NEW n \in Nodes, NEW s \in Services, Packet(n, s) PROVE WakeFits'
    BY <1>6 DEF Packet, WakeFits, SwarmTypeOK
<1>7. ASSUME NEW k \in Ops, ListenStep(k) PROVE UNCHANGED wake
    BY <1>7 DEF ListenStep, ListenHere, AllAsked, ListenFails, AskNode, wakeVars
<1>8. ManagerStep \/ UNCHANGED swarmVars => UNCHANGED wake
    BY DEF ManagerStep, swarmVars, wakeVars
<1>9. ASSUME NEW h \in Handlers, NEW s \in Services, NEW d \in {"over", "under"},
             MonitorRequest(h, s, d)
      PROVE  UNCHANGED wake
    BY <1>9 DEF MonitorRequest, wakeVars
<1> QED
    BY <1>1, <1>2, <1>4, <1>5, <1>6, <1>7, <1>8, <1>9 DEF SwarmNext, LoopStep

\* A goroutine that nobody waits for takes up a service.
LEMMA FreeBegins ==
    ASSUME SwarmTypeOK, WakeFits, WakerServes, UNCHANGED wake,
           NEW h \in Handlers, ~Taken(h), NEW s, NEW d, Request(h, s, d)
    PROVE  WakerServes'
<1>1. h \in Procs /\ \A q \in Procs \ {h} : proc'[q] = proc[q]
    BY BeginMoves DEF Request, SwarmTypeOK, Procs
<1>2. \A n \in Nodes : wake[n].step = "scale" => wake[n].by \in Procs \ {h}
    BY DEF WakeFits, Taken, Procs
<1> QED
    BY <1>1, <1>2 DEF WakerServes, At, Svc

LEMMA NextWakerServes ==
    ASSUME SwarmTypeOK, WakeFits, WakerServes, [SwarmNext]_swarmVars
    PROVE  WakerServes'
<1> USE ConstantsAssumption, NodesAssumption
<1>t. TypeOK
    BY DEF SwarmTypeOK
<1>1. ASSUME UNCHANGED vars,
             \A n \in Nodes :
                \/ wake'[n].step # "scale"
                \/ wake'[n].step = wake[n].step /\ wake'[n].svc = wake[n].svc
                   /\ wake'[n].by = wake[n].by
      PROVE  WakerServes'
    BY <1>1 DEF WakerServes, vars, At, Svc
<1>2. ASSUME UNCHANGED wake,
             \/ \E h \in Handlers : HandlerStep(h)
             \/ \E k \in Ops : OpStep(k)
             \/ \E p \in Procs : ScaleToStep(p)
      PROVE  WakerServes'
  <2>1. \A n \in Nodes : wake[n].step = "scale" => wake[n].by \in Handlers \cup {Listener}
      BY DEF WakeFits
  <2> QED
      BY <1>t, <1>2, <2>1, KeepsService DEF WakerServes, At, Svc
<1>3. ASSUME NEW k \in Ops, ListenStep(k) PROVE WakerServes'
  <2>1. CASE \E n \in Nodes : AskNode(k, n)
      BY <1>1, <2>1 DEF AskNode
  <2>2. CASE ListenHere(k) \/ AllAsked(k) \/ ListenFails(k)
      BY <1>2, <2>2 DEF ListenHere, AllAsked, ListenFails, wakeVars, OpStep
  <2> QED
      BY <1>3, <2>1, <2>2 DEF ListenStep
<1>4. ASSUME NEW n \in Nodes,
             (\E m \in Nodes : RemoveAt(n, m)) \/ RemoveFails(n)
      PROVE  WakerServes'
  <2>1. \A m \in Nodes : /\ wake'[m].step = wake[m].step
                         /\ wake'[m].svc = wake[m].svc
                         /\ wake'[m].by = wake[m].by
      BY <1>4 DEF RemoveAt, RemoveFails, SwarmTypeOK, WakeState
  <2> QED
      BY <1>1, <1>4, <2>1 DEF RemoveAt, RemoveFails
<1>5. ASSUME NEW n \in Nodes, NEW by \in Handlers \cup {Listener}, NEW l, NEW w,
             \A m \in Nodes \ {n} : wake[m].step = "scale" => wake[m].by # by,
             Begin(by, l, wake[n].svc, w),
             wake' = [wake EXCEPT ![n].step = "scale", ![n].by = by]
      PROVE  WakerServes'
  <2>1. /\ \A m \in Nodes \ {n} : wake'[m] = wake[m]
        /\ wake'[n].by = by /\ wake'[n].svc = wake[n].svc
      BY <1>5 DEF SwarmTypeOK, WakeState
  <2>2. /\ by \in Procs /\ proc'[by].svc = wake[n].svc
        /\ \A q \in Procs \ {by} : proc'[q] = proc[q]
      BY <1>5, <1>t, BeginMoves DEF Procs
  <2>3. \A m \in Nodes \ {n} : wake[m].step = "scale" => wake[m].by \in Procs \ {by}
      BY <1>5 DEF WakeFits, Procs
  <2> QED
      BY <2>1, <2>2, <2>3 DEF WakerServes, At, Svc
<1>6. ASSUME NEW n \in Nodes, ScaleUpHere(n) PROVE WakerServes'
  <2>1. \A m \in Nodes \ {n} : wake[m].step = "scale" => wake[m].by # Listener
      BY <1>6 DEF ScaleUpHere, WakeFits
  <2> QED
      BY <1>5, <1>6, <2>1 DEF ScaleUpHere, Wake
<1>7. ASSUME NEW n \in Nodes, NEW h \in Handlers, SendScaleRequest(n, h) PROVE WakerServes'
    BY <1>5, <1>7 DEF SendScaleRequest, Taken, Request
<1>8. ASSUME NEW n \in Nodes, SendScaleRequestFails(n) \/ ScaleReturns(n) PROVE WakerServes'
  <2>1. \A m \in Nodes : wake'[m] = wake[m] \/ wake'[m].step # "scale"
      BY <1>8 DEF SendScaleRequestFails, ScaleReturns, NoWake, SwarmTypeOK
  <2> QED
      BY <1>1, <1>8, <2>1 DEF SendScaleRequestFails, ScaleReturns
<1>9. ASSUME NEW n \in Nodes, NodeRestart(n) PROVE WakerServes'
  <2>1. CASE n = Manager
      BY <1>9, <2>1 DEF NodeRestart, NoWake, WakerServes
  <2>2. CASE n # Manager
      BY <1>1, <1>9, <2>2 DEF NodeRestart, NoWake, SwarmTypeOK
  <2> QED
      BY <2>1, <2>2
<1>10. ASSUME NEW n \in Nodes, NEW s \in Services, Packet(n, s) PROVE WakerServes'
    BY <1>1, <1>10 DEF Packet, SwarmTypeOK
<1>11. ASSUME NEW h \in Handlers, NEW s \in Services, NEW d \in {"over", "under"},
              MonitorRequest(h, s, d)
       PROVE  WakerServes'
    BY <1>11, FreeBegins DEF MonitorRequest, wakeVars
<1>12. CASE ManagerStep
    BY <1>2, <1>12 DEF ManagerStep, OpStep
<1>13. CASE UNCHANGED swarmVars
    BY <1>1, <1>13 DEF swarmVars, wakeVars
<1> QED
    BY <1>3, <1>4, <1>6, <1>7, <1>8, <1>9, <1>10, <1>11, <1>12, <1>13
       DEF SwarmNext, LoopStep

(***************************************************************************)
(* Listeners first, replica count last.                                    *)
(***************************************************************************)
\* An operation that a step of the manager leaves counting was counting before:
\* only ListenHere makes one count on the manager's listener.
LEMMA CountingKept ==
    ASSUME TypeOK, NEW k \in Ops, proc'[k].pc \in Counting,
           \/ \E h \in Handlers : HandlerStep(h)
           \/ \E j \in Ops : Expire(j) \/ NotifyOk(j) \/ GiveUp(j) \/ Forget(j)
           \/ \E p \in Procs : ScaleToStep(p)
    PROVE  proc[k].pc \in Counting /\ Svc(k)' = Svc(k)
<1> USE ConstantsAssumption DEF Counting
<1>p. k \in Procs /\ k \notin Handlers
    BY DEF Procs
<1>1. ASSUME NEW h \in Handlers, HandlerStep(h), ~Send(h), ~Store(h)
      PROVE  proc'[k] = proc[k]
    BY <1>1, <1>p DEF HandlerStep, Reject, InspectOver, InspectUnder, UpdateConstraints,
                      Cancel, Delete, Arm, Return, Begin, Goto, TypeOK
<1>2. ASSUME NEW h \in Handlers, Send(h) PROVE proc'[k] = proc[k] \/ proc'[k] = Idle
    BY <1>2, <1>p DEF Send, TypeOK
<1>3. ASSUME NEW h \in Handlers, Store(h)
      PROVE  proc'[k] = proc[k] \/ proc'[k].pc = "select"
    BY <1>3, <1>p DEF Store, Waiting, TypeOK
<1>4. ASSUME NEW j \in Ops, Expire(j) \/ GiveUp(j) \/ Forget(j)
      PROVE  proc'[k] = proc[k] \/ proc'[k].pc \in {"idle", "listen"}
    BY <1>4, <1>p DEF Expire, GiveUp, Forget, Return, Goto, Idle, TypeOK, ProcState
<1>5. ASSUME NEW j \in Ops, NotifyOk(j)
      PROVE  proc'[k] = proc[k] \/ (proc[k].pc \in Counting /\ Svc(k)' = Svc(k))
    BY <1>5, <1>p DEF NotifyOk, Begin, Svc, At, TypeOK
<1>6. ASSUME NEW p \in Procs, ScaleToStep(p)
      PROVE  \/ proc'[k] = proc[k]
             \/ proc'[k].pc \in {"idle", "forget"}
             \/ proc[k].pc \in Counting /\ Svc(k)' = Svc(k)
    BY <1>6, <1>p DEF ScaleToStep, ScaleInspect, ScaleUpdate, ScaleFails, Return, Goto,
                      Idle, Svc, At, TypeOK, ProcState
<1> QED
    BY <1>1, <1>2, <1>3, <1>4, <1>5, <1>6 DEF Idle, Svc

\* Operations that count on the listener are on record as overtaken when a
\* registration of their service is taken back.
LEMMA Unregistering ==
    ASSUME SwarmTypeOK, ListenersFirst, NEW s \in Services, NEW m \in Nodes,
           Unregister(m, s), missed' = missed \cup Overtaken(m, s), UNCHANGED vars
    PROVE  /\ ListenersFirst'
           /\ \A t \in Services \ {s} :
                 t \in listening[Manager] => t \in listening'[Manager]
<1>1. \A t \in Services \ {s} : t \in listening[Manager] => t \in listening'[Manager]
    BY NodesAssumption DEF Unregister, SwarmTypeOK
<1>2. ASSUME NEW k \in Ops, proc[k].pc \in Counting, Svc(k) \notin missed'
      PROVE  Svc(k) \in listening'[Manager]
  <2>1. m = Manager => Svc(k) # s
      BY <1>2 DEF Overtaken, Counting
  <2>2. Svc(k) \in Services
      BY <1>2 DEF Counting, SwarmTypeOK, TypeOK, At, Procs
  <2>3. Svc(k) \in listening[Manager]
      BY <1>2 DEF ListenersFirst
  <2>4. m # Manager => listening'[Manager] = listening[Manager]
      BY NodesAssumption DEF Unregister, SwarmTypeOK
  <2> QED
      BY <1>1, <2>1, <2>2, <2>3, <2>4
<1> QED
    BY <1>1, <1>2 DEF ListenersFirst, vars, Svc

LEMMA NextListenersFirst ==
    ASSUME SwarmTypeOK, WakeFits, ListenersFirst, [SwarmNext]_swarmVars
    PROVE  ListenersFirst'
<1> USE ConstantsAssumption, NodesAssumption
<1>t. TypeOK
    BY DEF SwarmTypeOK
<1>1. ASSUME listening[Manager] \subseteq listening'[Manager], missed \subseteq missed',
             \A k \in Ops : proc'[k].pc \in Counting =>
                proc[k].pc \in Counting /\ Svc(k)' = Svc(k)
      PROVE  ListenersFirst'
    BY <1>1 DEF ListenersFirst
<1>2. ASSUME UNCHANGED vars
      PROVE  \A k \in Ops : proc'[k].pc \in Counting =>
                proc[k].pc \in Counting /\ Svc(k)' = Svc(k)
    BY <1>2 DEF vars, Svc
<1>3. ASSUME NEW k \in Ops, ListenHere(k) PROVE ListenersFirst'
  <2>1. /\ k \in Procs /\ Svc(k)' = Svc(k)
        /\ \A j \in Ops \ {k} : proc'[j] = proc[j]
      BY <1>3, <1>t DEF ListenHere, ListenOk, Goto, TypeOK, ProcState, Svc, Procs
  <2>2. listening'[Manager] = listening[Manager] \cup {Svc(k)}
      BY <1>3 DEF ListenHere, Register, SwarmTypeOK
  <2> QED
      BY <1>3, <2>1, <2>2 DEF ListenHere, ListenersFirst, Svc
<1>4. ASSUME NEW k \in Ops, AllAsked(k) \/ ListenFails(k) PROVE ListenersFirst'
  <2>1. \A j \in Ops : proc'[j].pc \in Counting =>
            proc[j].pc \in Counting /\ Svc(j)' = Svc(j)
      BY <1>4, <1>t, CountingKept DEF AllAsked, ListenFails
  <2>2. listening[Manager] \subseteq listening'[Manager] /\ missed \subseteq missed'
      BY <1>4 DEF AllAsked, ListenFails, wakeVars, Register, SwarmTypeOK
  <2> QED
      BY <1>1, <2>1, <2>2
<1>5. ASSUME NEW k \in Ops, NEW n \in Nodes, AskNode(k, n) PROVE ListenersFirst'
  <2>1. listening[Manager] \subseteq listening'[Manager] /\ missed \subseteq missed'
      BY <1>5 DEF AskNode, Register, SwarmTypeOK
  <2> QED
      BY <1>1, <1>2, <1>5, <2>1 DEF AskNode
<1>6. ASSUME NEW n \in Nodes, NEW m \in Nodes, RemoveAt(n, m) PROVE ListenersFirst'
    BY <1>6, Unregistering DEF RemoveAt, WakeFits
<1>7. ASSUME NEW n \in Nodes, RemoveFails(n) PROVE ListenersFirst'
  <2>1. PICK m \in wake[n].left :
           \/ /\ Unregister(m, wake[n].svc)
              /\ missed' = missed \cup Overtaken(m, wake[n].svc)
           \/ UNCHANGED <<listening, missed>>
      BY <1>7 DEF RemoveFails
  <2>2. m \in Nodes /\ wake[n].svc \in Services /\ UNCHANGED vars
      BY <1>7, WakeTyped DEF RemoveFails, WakeFits
  <2> QED
      BY <1>1, <1>2, <2>1, <2>2, Unregistering
<1>8. ASSUME NEW n \in Nodes, NEW h \in Handlers, SendScaleRequest(n, h) PROVE ListenersFirst'
  <2>1. \A k \in Ops : proc'[k] = proc[k]
      BY <1>8, <1>t DEF SendScaleRequest, Request, Begin, TypeOK, Procs
  <2> QED
      BY <1>1, <1>8, <2>1 DEF SendScaleRequest, Svc
<1>9. ASSUME NEW n \in Nodes, ScaleUpHere(n) PROVE ListenersFirst'
  <2>1. \A k \in Ops : proc'[k] = proc[k]
      BY <1>9, <1>t DEF ScaleUpHere, Wake, Begin, TypeOK, Procs
  <2> QED
      BY <1>1, <1>9, <2>1 DEF ScaleUpHere, Svc
<1>10. ASSUME NEW n \in Nodes, SendScaleRequestFails(n) \/ ScaleReturns(n)
       PROVE  ListenersFirst'
  <2>1. UNCHANGED listening /\ missed \subseteq missed' /\ UNCHANGED vars
      BY <1>10 DEF SendScaleRequestFails, ScaleReturns
  <2> QED
      BY <1>1, <1>2, <2>1
<1>11. ASSUME NEW n \in Nodes, NodeRestart(n) PROVE ListenersFirst'
  <2>1. CASE n = Manager
    <3>1. \A k \in Ops : proc'[k].pc = "idle"
        BY <1>11, <2>1 DEF NodeRestart, Restart, Idle, Procs
    <3> QED
        BY <3>1 DEF ListenersFirst, Counting
  <2>2. CASE n # Manager
    <3>1. listening'[Manager] = listening[Manager] /\ missed \subseteq missed' /\ UNCHANGED vars
        BY <1>11, <2>2 DEF NodeRestart, SwarmTypeOK
    <3> QED
        BY <1>1, <1>2, <3>1
  <2> QED
      BY <2>1, <2>2
<1>12. ASSUME NEW n \in Nodes, NEW s \in Services, Packet(n, s) PROVE ListenersFirst'
    BY <1>12, Unregistering DEF Packet
<1>13. ASSUME NEW h \in Handlers, NEW s \in Services, NEW d \in {"over", "under"},
              MonitorRequest(h, s, d)
       PROVE  ListenersFirst'
  <2>1. \A k \in Ops : proc'[k] = proc[k]
      BY <1>13, <1>t DEF MonitorRequest, Request, Begin, TypeOK, Procs
  <2> QED
      BY <1>1, <1>13, <2>1 DEF MonitorRequest, wakeVars, Svc
<1>14. CASE ManagerStep
  <2>1. \A k \in Ops : proc'[k].pc \in Counting =>
            proc[k].pc \in Counting /\ Svc(k)' = Svc(k)
      BY <1>14, <1>t, CountingKept DEF ManagerStep
  <2> QED
      BY <1>1, <1>14, <2>1 DEF ManagerStep
<1>15. CASE UNCHANGED swarmVars
    BY <1>15 DEF swarmVars, vars, wakeVars, ListenersFirst, Svc
<1> QED
    BY <1>3, <1>4, <1>5, <1>6, <1>7, <1>8, <1>9, <1>10, <1>11, <1>12, <1>13, <1>14, <1>15
       DEF SwarmNext, ListenStep, LoopStep

(***************************************************************************)
(* A service at zero.                                                      *)
(***************************************************************************)
\* Only the update of scaleTo writes a replica count, and it ends no goroutine
\* but its own.
LEMMA CountsWritten ==
    ASSUME TypeOK, [Next]_vars, replicas' # replicas
    PROVE  \E p \in Procs : /\ ScaleUpdate(p)
                            /\ \A q \in Procs \ {p} : proc'[q] = proc[q]
<1>1. \E p \in Procs : ScaleUpdate(p)
    BY DEF Next, HandlerStep, OpStep, ScaleToStep, Request, Reject, InspectOver,
           InspectUnder, UpdateConstraints, Cancel, Send, Delete, Arm, Store, Expire,
           ListenOk, NotifyOk, GiveUp, Forget, Wake, ScaleInspect, ScaleFails, Restart, vars
<1> QED
    BY <1>1 DEF ScaleUpdate, Goto, TypeOK

\* The manager's goroutines bring a service to zero only through an operation
\* that counts on the listener, and end a wake-up only by scaling the service or
\* by putting it on record.
LEMMA ManagerCovers ==
    ASSUME WakeInv, ManagerStep, [Next]_vars,
           NEW s \in Services, replicas'[s] = 0, s \notin missed'
    PROVE  s \in listening'[Manager] \/ StillWaking(s)'
<1> USE ConstantsAssumption
<1>t. TypeOK /\ UNCHANGED <<listening, wake>> /\ s \notin missed \cup LostWakes
    BY DEF WakeInv, SwarmTypeOK, ManagerStep
<1>1. ASSUME NEW p \in Procs, ScaleUpdate(p), Svc(p) = s PROVE s \in listening[Manager]
  <2>1. proc[p].want = 0 /\ proc[p].pc = "scaleUpdate"
      BY <1>1, <1>t DEF ScaleUpdate, TypeOK, At
  <2>2. p \in Ops
      BY <2>1 DEF WakeInv, Targets, ScaleLabels, Procs
  <2> QED
      BY <1>1, <1>t, <2>1, <2>2 DEF WakeInv, ListenersFirst, Counting
<1>2. ASSUME \A p \in Procs : ~(ScaleUpdate(p) /\ Svc(p) = s) PROVE replicas[s] = 0
  <2>1. CASE replicas' = replicas
      BY <2>1
  <2>2. CASE replicas' # replicas
      BY <1>2, <1>t, <2>2, CountsWritten DEF ScaleUpdate, TypeOK
  <2> QED
      BY <2>1, <2>2
<1>3. ASSUME \A p \in Procs : ~(ScaleUpdate(p) /\ Svc(p) = s),
             NEW n \in Nodes, wake[n].svc = s, wake[n].step = "scale", ~At(wake[n].by, "idle")
      PROVE  proc'[wake[n].by].pc # "idle"
  <2>1. wake[n].by \in Procs /\ Svc(wake[n].by) = s
      BY <1>3 DEF WakeInv, WakeFits, WakerServes, Procs
  <2>2. CASE replicas' = replicas
      BY <1>3, <1>t, <2>2 DEF LostWakes, At
  <2>3. CASE replicas' # replicas
    <3>1. PICK p \in Procs : ScaleUpdate(p) /\ \A q \in Procs \ {p} : proc'[q] = proc[q]
        BY <1>t, <2>3, CountsWritten
    <3>2. wake[n].by # p
        BY <1>3, <2>1, <3>1
    <3> QED
        BY <1>3, <2>1, <3>1, <3>2 DEF At
  <2> QED
      BY <2>2, <2>3
<1>4. CASE \E p \in Procs : ScaleUpdate(p) /\ Svc(p) = s
    BY <1>1, <1>4, <1>t
<1>5. CASE \A p \in Procs : ~(ScaleUpdate(p) /\ Svc(p) = s)
  <2>1. s \in listening[Manager] \/ StillWaking(s)
      BY <1>2, <1>5, <1>t DEF WakeInv, ZeroIsCovered
  <2>2. ASSUME StillWaking(s) PROVE StillWaking(s)'
    <3>1. PICK n \in Nodes : /\ wake[n].svc = s
                             /\ \/ wake[n].step = "remove"
                                \/ wake[n].step = "scale" /\ ~At(wake[n].by, "idle")
        BY <2>2 DEF StillWaking
    <3>2. wake'[n] = wake[n]
        BY <1>t
    <3>3. CASE wake[n].step = "remove"
        BY <3>1, <3>2, <3>3 DEF StillWaking
    <3>4. CASE wake[n].step = "scale" /\ ~At(wake[n].by, "idle")
      <4>1. proc'[wake[n].by].pc # "idle"
          BY <1>3, <1>5, <3>1, <3>4
      <4> QED
          BY <3>1, <3>2, <3>4, <4>1 DEF StillWaking, At
    <3> QED
        BY <3>1, <3>3, <3>4
  <2> QED
      BY <1>t, <2>1, <2>2
<1> QED
    BY <1>4, <1>5

\* A step of the nodes that leaves the counts and the goroutines alone.
LEMMA NodeCovers ==
    ASSUME WakeInv, UNCHANGED <<replicas, proc>>, missed \subseteq missed',
           NEW s \in Services, replicas'[s] = 0, s \notin missed',
           s \in listening[Manager] => s \in listening'[Manager] \/ StillWaking(s)',
           \A n \in Nodes : wake[n].svc = s /\ wake[n].step # "none" =>
              \/ wake'[n].svc = s /\ wake'[n].step = wake[n].step /\ wake'[n].by = wake[n].by
              \/ wake[n].step = "scale" /\ At(wake[n].by, "idle")
              \/ StillWaking(s)'
    PROVE  s \in listening'[Manager] \/ StillWaking(s)'
<1>1. s \in listening[Manager] \/ StillWaking(s)
    BY DEF WakeInv, ZeroIsCovered
<1>2. ASSUME NEW n \in Nodes, wake[n].svc = s,
             \/ wake[n].step = "remove"
             \/ wake[n].step = "scale" /\ ~At(wake[n].by, "idle")
      PROVE  StillWaking(s)'
    BY <1>2 DEF StillWaking, At
<1> QED
    BY <1>1, <1>2 DEF StillWaking

LEMMA NextZeroIsCovered ==
    ASSUME WakeInv, [SwarmNext]_swarmVars
    PROVE  ZeroIsCovered'
<1> SUFFICES ASSUME NEW s \in Services, replicas'[s] = 0, s \notin missed'
             PROVE  s \in listening'[Manager] \/ StillWaking(s)'
    BY DEF ZeroIsCovered
<1> USE ConstantsAssumption, NodesAssumption
<1>t. SwarmTypeOK /\ TypeOK /\ WakeFits /\ ZeroIsCovered
    BY DEF WakeInv, SwarmTypeOK
<1>1. ASSUME UNCHANGED <<replicas, wake>>, s \notin missed,
             listening[Manager] \subseteq listening'[Manager],
             \A q \in Handlers \cup {Listener} : proc[q].pc # "idle" => proc'[q].pc # "idle"
      PROVE  s \in listening'[Manager] \/ StillWaking(s)'
  <2>1. s \in listening[Manager] \/ StillWaking(s)
      BY <1>1, <1>t DEF ZeroIsCovered
  <2>2. \A n \in Nodes : wake[n].step = "scale" => wake[n].by \in Handlers \cup {Listener}
      BY <1>t DEF WakeFits
  <2> QED
      BY <1>1, <2>1, <2>2 DEF StillWaking, At
<1>2. ASSUME NEW k \in Ops, ListenHere(k) PROVE s \in listening'[Manager] \/ StillWaking(s)'
  <2>1. listening'[Manager] = listening[Manager] \cup {Svc(k)}
      BY <1>2, <1>t DEF ListenHere, Register, SwarmTypeOK
  <2>2. \A q \in Handlers \cup {Listener} : proc'[q] = proc[q]
      BY <1>2, <1>t DEF ListenHere, ListenOk, Goto, TypeOK, Procs
  <2> QED
      BY <1>1, <1>2, <2>1, <2>2 DEF ListenHere, ListenOk
<1>3. ASSUME NEW k \in Ops, AllAsked(k) \/ ListenFails(k)
      PROVE  s \in listening'[Manager] \/ StillWaking(s)'
  <2>1. listening[Manager] \subseteq listening'[Manager]
      BY <1>3, <1>t DEF AllAsked, ListenFails, wakeVars, Register, SwarmTypeOK
  <2>2. \A q \in Handlers \cup {Listener} : proc'[q] = proc[q]
      BY <1>3, <1>t DEF AllAsked, ListenFails, NotifyOk, GiveUp, Begin, Return, TypeOK, Procs
  <2> QED
      BY <1>1, <1>3, <2>1, <2>2 DEF AllAsked, ListenFails, NotifyOk, GiveUp, wakeVars
<1>4. ASSUME NEW k \in Ops, NEW n \in Nodes, AskNode(k, n)
      PROVE  s \in listening'[Manager] \/ StillWaking(s)'
  <2>1. listening[Manager] \subseteq listening'[Manager]
      BY <1>4, <1>t DEF AskNode, Register, SwarmTypeOK
  <2> QED
      BY <1>1, <1>4, <2>1 DEF AskNode, vars
<1>5. ASSUME NEW n \in Nodes, (\E m \in Nodes : RemoveAt(n, m)) \/ RemoveFails(n)
      PROVE  s \in listening'[Manager] \/ StillWaking(s)'
  <2>1. /\ \A m \in Nodes : /\ wake'[m].step = wake[m].step
                            /\ wake'[m].svc = wake[m].svc
                            /\ wake'[m].by = wake[m].by
        /\ wake[n].step = "remove" /\ UNCHANGED <<replicas, proc>> /\ missed \subseteq missed'
    <3>1. PICK rest : wake' = [wake EXCEPT ![n].left = rest]
        BY <1>5 DEF RemoveAt, RemoveFails
    <3>2. \A m \in Nodes : /\ wake'[m].step = wake[m].step
                          /\ wake'[m].svc = wake[m].svc
                          /\ wake'[m].by = wake[m].by
        BY <1>t, <3>1 DEF SwarmTypeOK, WakeState
    <3>3. wake[n].step = "remove" /\ UNCHANGED <<replicas, proc>> /\ missed \subseteq missed'
        BY <1>5 DEF RemoveAt, RemoveFails, vars
    <3> QED
        BY <3>2, <3>3
  <2>2. wake[n].svc = s => StillWaking(s)'
      BY <2>1 DEF StillWaking
  <2>3. wake[n].svc # s /\ s \in listening[Manager] => s \in listening'[Manager]
      BY <1>5, <1>t DEF RemoveAt, RemoveFails, Unregister, SwarmTypeOK
  <2> QED
      BY <2>1, <2>2, <2>3, NodeCovers
<1>6. ASSUME NEW n \in Nodes, NEW by \in Handlers \cup {Listener}, NEW l, NEW w, l # "idle",
             wake[n].step = "remove", UNCHANGED <<replicas, listening, missed>>,
             Begin(by, l, wake[n].svc, w),
             wake' = [wake EXCEPT ![n].step = "scale", ![n].by = by]
      PROVE  s \in listening'[Manager] \/ StillWaking(s)'
  <2>1. /\ \A m \in Nodes \ {n} : wake'[m] = wake[m]
        /\ wake'[n].step = "scale" /\ wake'[n].by = by /\ wake'[n].svc = wake[n].svc
      BY <1>6, <1>t DEF SwarmTypeOK, WakeState
  <2>2. proc'[by].pc = l /\ \A q \in Procs \ {by} : proc'[q] = proc[q]
      BY <1>6, <1>t, BeginMoves DEF Procs
  <2>3. ASSUME wake[n].svc = s PROVE StillWaking(s)'
    <3>1. wake'[n].svc = s /\ wake'[n].step = "scale" /\ proc'[wake'[n].by].pc # "idle"
        BY <1>6, <2>1, <2>2, <2>3
    <3> QED
        BY <3>1 DEF StillWaking, At
  <2>4. ASSUME NEW m \in Nodes, wake[m].svc = s, wake[n].svc # s,
               \/ wake[m].step = "remove"
               \/ wake[m].step = "scale" /\ ~At(wake[m].by, "idle")
        PROVE  StillWaking(s)'
    <3>1. wake'[m] = wake[m]
        BY <2>1, <2>4
    <3>2. wake[m].step = "scale" => wake[m].by \in Procs
        BY <1>t DEF WakeFits, Procs
    <3>3. wake[m].step = "scale" => proc'[wake[m].by].pc # "idle"
        BY <1>6, <2>2, <2>4, <3>2 DEF At
    <3> QED
        BY <2>4, <3>1, <3>3 DEF StillWaking, At
  <2>5. s \in listening[Manager] \/ StillWaking(s)
      BY <1>6, <1>t DEF ZeroIsCovered
  <2> QED
      BY <1>6, <2>3, <2>4, <2>5 DEF StillWaking
<1>7. ASSUME NEW n \in Nodes, ScaleUpHere(n) \/ \E h \in Handlers : SendScaleRequest(n, h)
      PROVE  s \in listening'[Manager] \/ StillWaking(s)'
    BY <1>6, <1>7 DEF ScaleUpHere, SendScaleRequest, Removed, Wake, Request
<1>8. ASSUME NEW n \in Nodes, SendScaleRequestFails(n)
      PROVE  s \in listening'[Manager] \/ StillWaking(s)'
  <2>1. wake[n].svc # s /\ UNCHANGED <<replicas, proc, listening>> /\ missed \subseteq missed'
      BY <1>8 DEF SendScaleRequestFails, vars
  <2>2. \A m \in Nodes \ {n} : wake'[m] = wake[m]
      BY <1>8, <1>t DEF SendScaleRequestFails, SwarmTypeOK
  <2> QED
      BY <2>1, <2>2, NodeCovers
<1>9. ASSUME NEW n \in Nodes, ScaleReturns(n)
      PROVE  s \in listening'[Manager] \/ StillWaking(s)'
  <2>1. /\ wake[n].step = "scale" /\ At(wake[n].by, "idle")
        /\ UNCHANGED <<replicas, proc, listening, missed>>
      BY <1>9 DEF ScaleReturns, vars
  <2>2. \A m \in Nodes \ {n} : wake'[m] = wake[m]
      BY <1>9, <1>t DEF ScaleReturns, SwarmTypeOK
  <2> QED
      BY <2>1, <2>2, NodeCovers
<1>10. ASSUME NEW n \in Nodes, NodeRestart(n)
       PROVE  s \in listening'[Manager] \/ StillWaking(s)'
  <2>1. /\ UNCHANGED replicas /\ missed \subseteq missed' /\ s \notin WakesOf(n)
        /\ n = Manager => s \notin listening[Manager]
      BY <1>10 DEF NodeRestart, Restart, vars
  <2>2. CASE n = Manager
    \* A node that is still asking the others to remove the port goes on.
    <3>1. StillWaking(s)
        BY <1>t, <2>1, <2>2 DEF ZeroIsCovered
    <3>2. PICK m \in Nodes : /\ wake[m].svc = s
                             /\ wake[m].step = "remove" \/ wake[m].step = "scale"
        BY <3>1 DEF StillWaking
    <3>3. m # n /\ wake[m].step = "remove"
        BY <2>1, <2>2, <3>2 DEF WakesOf
    <3>4. wake'[m] = wake[m]
        BY <1>10, <2>2, <3>3 DEF NodeRestart
    <3> QED
        BY <3>2, <3>3, <3>4 DEF StillWaking
  <2>3. CASE n # Manager
    <3>1. UNCHANGED <<replicas, proc>> /\ listening'[Manager] = listening[Manager]
        BY <1>10, <1>t, <2>3 DEF NodeRestart, SwarmTypeOK, vars
    <3>2. \A m \in Nodes \ {n} : wake'[m] = wake[m]
        BY <1>10, <1>t, <2>3 DEF NodeRestart, SwarmTypeOK
    <3>3. ~(wake[n].svc = s /\ wake[n].step # "none")
        BY <2>1 DEF WakesOf
    <3> QED
        BY <2>1, <3>1, <3>2, <3>3, NodeCovers
  <2> QED
      BY <2>2, <2>3
<1>11. ASSUME NEW n \in Nodes, NEW t \in Services, Packet(n, t)
       PROVE  s \in listening'[Manager] \/ StillWaking(s)'
  <2>1. /\ wake[n].step = "none" /\ UNCHANGED <<replicas, proc>> /\ missed \subseteq missed'
        /\ wake'[n].step = "remove" /\ wake'[n].svc = t
        /\ \A m \in Nodes \ {n} : wake'[m] = wake[m]
      BY <1>11, <1>t DEF Packet, SwarmTypeOK, vars
  <2>2. t = s => StillWaking(s)'
      BY <2>1 DEF StillWaking
  <2>3. t # s /\ s \in listening[Manager] => s \in listening'[Manager]
      BY <1>11, <1>t DEF Packet, Unregister, SwarmTypeOK
  <2> QED
      BY <2>1, <2>2, <2>3, NodeCovers
<1>12. ASSUME NEW h \in Handlers, NEW t \in Services, NEW d \in {"over", "under"},
              MonitorRequest(h, t, d)
       PROVE  s \in listening'[Manager] \/ StillWaking(s)'
  <2>1. \A q \in Handlers \cup {Listener} : proc[q].pc # "idle" => proc'[q].pc # "idle"
      BY <1>12, <1>t DEF MonitorRequest, Request, Begin, TypeOK, Procs
  <2> QED
      BY <1>1, <1>12, <2>1 DEF MonitorRequest, Request, wakeVars
<1>13. CASE ManagerStep
    BY <1>13, <1>t, ManagerCovers, SwarmStepIsManagerStep
<1>14. CASE UNCHANGED swarmVars
    BY <1>1, <1>14 DEF swarmVars, vars, wakeVars
<1> QED
    BY <1>2, <1>3, <1>4, <1>5, <1>7, <1>8, <1>9, <1>10, <1>11, <1>12, <1>13, <1>14
       DEF SwarmNext, ListenStep, LoopStep

(***************************************************************************)
(* The theorems.                                                           *)
(***************************************************************************)
LEMMA NextWakeInv == WakeInv /\ [SwarmNext]_swarmVars => WakeInv'
<1> SUFFICES ASSUME WakeInv, [SwarmNext]_swarmVars PROVE WakeInv'
    OBVIOUS
<1>1. [Next]_vars /\ SwarmTypeOK' /\ WakeFits'
    BY SwarmStepIsManagerStep, NextSwarmTypeOK, NextWakeFits DEF WakeInv
<1>2. Targets'
    BY <1>1, NextTargets DEF WakeInv, SwarmTypeOK
<1> QED
    BY <1>1, <1>2, NextWakerServes, NextListenersFirst, NextZeroIsCovered DEF WakeInv

LEMMA SwarmInvariance == SwarmSpec => []WakeInv
BY InitWakeInv, NextWakeInv, PTL DEF SwarmSpec

\* Type correctness of the swarm, the manager's goroutines included: no node is
\* asked to listen by the manager that is the manager itself.
THEOREM SwarmTypeCorrect == SwarmSpec => []SwarmTypeOK
<1>1. WakeInv => SwarmTypeOK
    BY DEF WakeInv
<1> QED
    BY <1>1, SwarmInvariance, PTL

\* The manager of a swarm is a ScaleManager: every step of the nodes is a step of
\* its goroutines or leaves them alone, so what is proved of ScaleManager holds.
THEOREM SwarmImplementsManager == SwarmSpec => Spec
<1>1. SwarmInit => Init
    BY DEF SwarmInit
<1>2. WakeInv /\ [SwarmNext]_swarmVars => [Next]_vars
    BY SwarmStepIsManagerStep DEF WakeInv
<1> QED
    BY <1>1, <1>2, SwarmInvariance, PTL DEF SwarmSpec, Spec

\* In a swarm whose nodes restart and whose requests get lost, a service still goes
\* to zero only through an operation that got through its listen requests.
THEOREM SwarmImplementsContract == SwarmSpec => ImplementsContract
BY SwarmImplementsManager, ManagerImplementsContract, PTL

\* A service at zero that nothing has overtaken can be woken: the manager listens
\* on its port or some node is waking it, for any number of nodes, operations and
\* concurrent requests.
THEOREM ZeroIsWakeableUnlessMissed == SwarmSpec => []ZeroStaysWakeable
<1>1. WakeInv => ZeroStaysWakeable
    BY DEF WakeInv, ZeroIsCovered, ZeroStaysWakeable, StillWaking, Waking
<1> QED
    BY <1>1, SwarmInvariance, PTL
=============================================================================
